------------------------------- MODULE Ledger -------------------------------
(***************************************************************************)
(* What the connection log promises of a record that panel ingest hands    *)
(* over: it is held until it is settled, it is settled once, and settled   *)
(* means one row in user_connections or none.  Losing a record is allowed  *)
(* (batch_writer.go: "acceptable for connection logs"), storing it twice,  *)
(* storing it after it was given up, or inventing one is not.              *)
(***************************************************************************)
EXTENDS Naturals

CONSTANT Records

VARIABLES
    status,   \* of each record: "fresh", "held" or "settled"
    rows      \* how many rows each record has in the table

Init ==
    /\ status = [r \in Records |-> "fresh"]
    /\ rows = [r \in Records |-> 0]

\* The record is taken, or refused at once.
Accept(r) ==
    /\ status[r] = "fresh"
    /\ status'[r] \in {"held", "settled"}
    /\ rows'[r] = rows[r]

\* The record leaves for good, as a row of the table or as nothing.
Settle(r) ==
    /\ status[r] = "held"
    /\ status'[r] = "settled"
    /\ rows'[r] \in {rows[r], rows[r] + 1}

Keep(r) == status'[r] = status[r] /\ rows'[r] = rows[r]

\* Records come and go in batches, each on its own way.
Next ==
    /\ status' \in [Records -> {"fresh", "held", "settled"}]
    /\ rows' \in [Records -> Nat]
    /\ \A r \in Records : Accept(r) \/ Settle(r) \/ Keep(r)

Spec == Init /\ [][Next]_<<status, rows>>

\* A record that was taken does not stay in between for ever.
EverySettled == \A r \in Records : status[r] = "held" ~> status[r] = "settled"
=============================================================================
