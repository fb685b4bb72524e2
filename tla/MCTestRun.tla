----------------------------- MODULE MCTestRun -----------------------------
(***************************************************************************)
(* Instances of TestRun for TLC: the batches of requests to consider.      *)
(***************************************************************************)
EXTENDS TestRun

Request(m, u, k, ids) == [mode |-> m, upload |-> u, link |-> k, ids |-> ids]

\* Three links, two at a time, so that tests overlap and end in any order:
\* every mode over a mix of links, and the upload after a download that no
\* ping precedes.
Mix(kinds) == [i \in Links |-> kinds[i + 1]]
MCModeJobs == {Request(m, FALSE, Mix(<<"proxy", "direct", "unparsable">>), <<>>) : m \in Modes}
              \cup {Request("speedonly", TRUE, Mix(<<"unparsable", "proxy", "unparsable">>), <<>>)}

\* Nodes tested again, under proper ids, ids that name rows beyond the list,
\* and too few ids.
MCRetestJobs == {Request("pingonly", FALSE, Mix(<<"proxy", "direct", "direct">>), ids) :
                   ids \in {<<1, 2, 0>>, <<0, 3, 1>>, <<0, 2>>}}

MCJobs == MCModeJobs \cup MCRetestJobs

\* What the violations need.
MCPingOnlyJobs == {Request("pingonly", TRUE, [i \in Links |-> "proxy"], <<>>)}
MCCommandLineJobs == {Request("pingonly", FALSE, k, <<>>) :
                        k \in [Links -> {"proxy", "unparsable"}]}
=============================================================================
