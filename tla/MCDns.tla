-------------------------------- MODULE MCDns --------------------------------
(***************************************************************************)
(* Instances of Dns and its history for TLC: one caller asks for both      *)
(* families, of a name or a literal, one for A only; two main servers, or  *)
(* one and a fallback.                                                     *)
(***************************************************************************)
EXTENDS DnsHistory

MCDnsCallers == {"x", "y"}
MCDnsCalls ==
  [c \in MCDnsCallers |->
     IF c = "x" THEN [kind : {"IP"}, host : DnsHosts] ELSE [kind : {"A"}, host : {"name"}]]
MCDnsConfigs ==
  {[g \in Groups |-> IF g = "main" THEN {"m1", "m2"} ELSE {}],
   [g \in Groups |-> IF g = "main" THEN {"m1"} ELSE {"f1"}]}
=============================================================================
