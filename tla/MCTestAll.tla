----------------------------- MODULE MCTestAll -----------------------------
(***************************************************************************)
(* Instances of TestAll for TLC.  The gRPC handler sets neither the upload *)
(* nor TestIDs; the Go API may set both, and TestAll ignores TestIDs.      *)
(***************************************************************************)
EXTENDS TestAll

Request(m, u, k) == [mode |-> m, upload |-> u, link |-> k, ids |-> <<>>]

\* Every mode, the upload, and every kind of link; the long tests run beside
\* links that are rejected, three short ones overtake one another.
Mix(a, b, c) == [i \in Links |-> <<a, b, c>>[i + 1]]
MCJobs ==
  {Request("pingonly", FALSE, Mix("proxy", "direct", "direct")),
   Request("pingonly", FALSE, Mix("direct", "unparsable", "proxy")),
   Request("all", FALSE, Mix("proxy", "unparsable", "direct")),
   Request("speedonly", TRUE, Mix("unparsable", "proxy", "unparsable"))}
=============================================================================
