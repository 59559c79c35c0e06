----------------------------- MODULE MCPipeline -----------------------------
(* Instances of Pipeline for TLC. *)
EXTENDS Pipeline, TLC

\* A batch of two observations and one of one.
TwoBatches == {<<"a", "b">>, <<"c">>}

\* With a batch size of one the writer's queue holds two: four records in two
\* batches can overflow it.
FourRecords == {<<"a", "b", "c">>, <<"d">>}

\* Any idle slot may run the next worker.
Symmetry == Permutations(Slots)
=============================================================================
