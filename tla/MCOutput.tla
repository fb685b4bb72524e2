------------------------------ MODULE MCOutput ------------------------------
(***************************************************************************)
(* Instances of OutputPlan for TLC: every list of up to two formats and    *)
(* some of three, with and without named files, over runs that are empty,  *)
(* direct, failed in part, and with pings that differ as texts and numbers.*)
(***************************************************************************)
EXTENDS OutputPlan

MCPingRank == [p \in {"0", "100", "20"} |-> IF p = "0" THEN 0 ELSE IF p = "100" THEN 1 ELSE 2]
NodeOf(link, ping, avg, up, success) ==
  [link |-> link, ping |-> ping, avg |-> avg, max |-> avg, up |-> up, success |-> success]
FewBytes(link) == [NodeOf(link, "0", 0, 0, TRUE) EXCEPT !.max = 1]
MCResults ==
  {<< >>, <<NodeOf("direct", "0", 5, 0, TRUE)>>,
   <<NodeOf("l1", "20", 5, 2, TRUE), NodeOf("direct", "100", 7, 0, TRUE), NodeOf("l2", "0", 0, 0, FALSE)>>,
   <<NodeOf("l1", "0", 0, 2, TRUE), NodeOf("l2", "100", 0, 0, TRUE), NodeOf("l3", "20", 0, 0, TRUE)>>,
   <<FewBytes("l1"), FewBytes("l1")>>}
Specs == {<<f>> : f \in Formats} \cup {<<f, g>> : f, g \in Formats} \cup {<<f, g, h>> : f \in {"pic", "none", "text"}, g, h \in {"json", "table", "pic"}}
         \cup {<< >>, <<"xml">>, <<"json", "xml">>}
MCPlans ==
  {[spec |-> s, file |-> f, pic |-> p, sort |-> "rspeed"] : s \in Specs, f \in {"", "a"}, p \in {"", "a", "b"}}
  \cup {[mode |-> m, pic |-> p, sort |-> s] : m \in {"none", "json", "text", "base64", "path"}, p \in {"", "b"}, s \in {"speed", "rspeed", "ping", "rping", "id"}}
=============================================================================
