--------------------------- MODULE MCPanelIngest ----------------------------
(* Instances of PanelIngest for TLC. *)
EXTENDS PanelIngest

\* Both users of the instance are seen on the first node.
OnFirst == [t \in Tuples |-> "n1"]
=============================================================================
