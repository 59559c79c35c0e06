---------------------------- MODULE MCAutoLearner ----------------------------
(* Learning over five names: "a" and "b" share a keyword and get different    *)
(* types, "c" is known from the start, "d" stays pending and is similar to    *)
(* "e", whose keyword does not match its own name.                            *)
EXTENDS AutoLearner

Org(matches, within, keyword, seen, caida) ==
    [matches |-> matches, within |-> within, hint |-> None, keyword |-> keyword,
     seen |-> seen, caida |-> caida # {}, caidaWithin |-> caida, caidaHint |-> None]

FiveOrgs == {"a", "b", "c", "d", "e"}
Words6 == {"host", "tel", "foo", "bar", "dot", "eel"}
FiveNames ==
    [o \in FiveOrgs |->
        CASE o = "a" -> Org({"foo"}, {"foo"}, "foo", 2, {"host"})
          [] o = "b" -> Org({"foo", "bar"}, {"foo", "bar", "tel"}, "foo", 2, {})
          [] o = "c" -> Org({"tel", "foo"}, {"tel", "foo"}, "foo", 2, {})
          [] o = "d" -> Org({"dot"}, {"dot", "tel"}, "dot", 1, {})
          [] o = "e" -> Org({}, {"tel", "eel"}, "eel", 2, {})]
Pairs == [o \in FiveOrgs |-> CASE o = "d" -> {"e"} [] o = "e" -> {"d"} [] OTHER -> {}]
Order == <<"mobile", "hosting", "isp">>
Lists0 == [t \in {"mobile", "hosting", "isp"} |->
              CASE t = "hosting" -> {"host"} [] t = "isp" -> {"tel"} [] OTHER -> {}]
=============================================================================
