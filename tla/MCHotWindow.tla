---------------------------- MODULE MCHotWindow -----------------------------
(* Instances of HotWindow for TLC. *)
EXTENDS HotWindow, TLC

\* b1 is on the second ASN, every other address on the first.
Nets == [ip \in IPs |-> IF ip = "b1" THEN "B" ELSE "A"]

Symmetry == Permutations(Workers) \cup Permutations(Timers)
=============================================================================
