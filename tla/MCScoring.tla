------------------------------ MODULE MCScoring ------------------------------
(* Instances of Scoring for TLC. *)
EXTENDS Scoring, TLC

\* providers.yaml, the types at the ends of the scale and in its middle
Modifiers == [t \in Types |->
    CASE t = "mobile" -> 3 [] t = "isp" -> 10 [] t = "hosting" -> 15 [] t = "vpn_proxy" -> 18]

\* Two cities of one agglomeration, one of another, four of none, an unknown city.
Country == [p \in Places |->
    CASE p \in {"moscow", "mytishchi", "spb", "omsk"} -> "RU"
      [] p \in {"berlin", "hamburg"} -> "DE"
      [] p \in {"paris", "france"} -> "FR"]
City == [p \in Places |-> IF p = "france" THEN None ELSE p]
Agglomeration == [p \in Places |->
    CASE p \in {"moscow", "mytishchi"} -> "moscow"
      [] p = "spb" -> "spb"
      [] OTHER -> None]

Near == {{"moscow", "mytishchi", "spb"}, {"berlin", "hamburg", "paris", "france"}}
Far == {<<p, q>> \in Places \X Places : ~ \E S \in Near : {p, q} \subseteq S}

Sets == {
    {}, {"france"}, {"moscow"}, {"moscow", "mytishchi"}, {"moscow", "spb"}, {"omsk", "berlin"},
    {"berlin", "hamburg", "paris"},
    {"omsk", "berlin", "hamburg", "paris"},
    {"moscow", "berlin", "hamburg", "paris", "omsk"},
    {"moscow", "spb", "berlin", "hamburg", "paris"},
    {"moscow", "spb", "omsk", "berlin", "hamburg"},
    Places}

Symmetry == Permutations(ASNs)
=============================================================================
