---------------------------- MODULE MCUserPolicy -----------------------------
(* Sightings of users and what follows from them, on small instances.       *)
EXTENDS UserPolicy, TLC

At(u, i, n) == [user |-> u, ip |-> i, node |-> n]

\* A user with two addresses on two nodes and an excluded one, and a user who
\* shares an address with the first.
Seen == Sightings \cap {At("u", "i", "n1"), At("u", "k", "n2"), At("u", "j", "n1"),
                        At("v", "i", "n2")}

Symmetric == Permutations(Workers)
=============================================================================
