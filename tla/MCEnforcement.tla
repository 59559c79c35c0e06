---------------------------- MODULE MCEnforcement ----------------------------
(* Enforcement on small instances: users and workers are interchangeable.   *)
EXTENDS Enforcement, TLC

Symmetry == Permutations(Users) \cup Permutations(Workers)
=============================================================================
