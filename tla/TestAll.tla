------------------------------ MODULE TestAll ------------------------------
(***************************************************************************)
(* ProfileTest.TestAll, the streaming counterpart of run, with the gRPC    *)
(* handler server.StartTest that consumes it.  TestAll returns at once and *)
(* leaves a dispatcher goroutine behind; the handler receives one Node per *)
(* link, in the order the tests end, and answers each with a TestReply.    *)
(* Nobody waits for the WaitGroup here.  The stream's context is done when *)
(* the client goes away or the handler returns.  The Go API's              *)
(* TestAsyncContext hands the same channel to its caller, who counts Nodes *)
(* as the handler does (examples/ping.go, pingAsync).                      *)
(***************************************************************************)
EXTENDS TestOne

\* TestAll does not read TestIDs, so requests are taken without.
ASSUME NoIdsAssumption == \A j \in Jobs : j.ids = <<>>

VARIABLES
  dpc,      \* where the dispatcher goroutine stands
  next,     \* next link to start
  hpc,      \* where the handler stands
  inHand,   \* the Node it has received and not yet replied
  replies   \* the replies sent on the stream

allVars == <<dpc, next, hpc, inHand, replies>>
vars == <<testVars, allVars>>

NoReply == [id |-> LinksCount, alive |-> FALSE, traffic |-> 0, success |-> FALSE]

Init ==
  /\ TestInit
  /\ dpc = "add" /\ next = 0
  /\ hpc = "receiving" /\ inHand = NoReply /\ replies = <<>>

-----------------------------------------------------------------------------
\* The dispatcher.  The ids are the positions of the links.

AddOne ==
  /\ dpc = "add" /\ next < LinksCount
  /\ wg' = wg + 1
  /\ dpc' = "select"
  /\ UNCHANGED <<job, ctxDone, guard, nodeChan, workerVars, next, hpc, inHand, replies>>

\* As Spawn, over a guard that has one place too many.
SpawnOneMore ==
  /\ dpc = "select" /\ guard <= Concurrency
  /\ guard' = guard + 1
  /\ pc' = [pc EXCEPT ![next] = "spawned"]
  /\ next' = next + 1 /\ dpc' = "add"
  /\ UNCHANGED <<job, ctxDone, wg, nodeChan, log, ping, traffic, hpc, inHand, replies>>

Spawn ==
  /\ dpc = "select" /\ guard < Concurrency
  /\ guard' = guard + 1
  /\ pc' = [pc EXCEPT ![next] = "spawned"]
  /\ next' = next + 1 /\ dpc' = "add"
  /\ UNCHANGED <<job, ctxDone, wg, nodeChan, log, ping, traffic, hpc, inHand, replies>>

\* The dispatcher leaves without a word to the handler.
GiveUp ==
  /\ dpc = "select" /\ ctxDone
  /\ dpc' = "cancelled"
  /\ UNCHANGED <<testVars, next, hpc, inHand, replies>>

Release(i) ==
  /\ Goto(i, "tested", "gone")
  /\ guard' = guard - 1
  /\ UNCHANGED <<job, ctxDone, wg, nodeChan, log, ping, traffic, allVars>>

-----------------------------------------------------------------------------
\* The handler.

Counting == Len(replies) < LinksCount

\* The receive has no case for the context.
Receive ==
  /\ hpc = "receiving" /\ Counting /\ nodeChan # <<>>
  /\ nodeChan' = Tail(nodeChan) /\ inHand' = Head(nodeChan)
  /\ hpc' = "sending"
  /\ UNCHANGED <<job, ctxDone, wg, guard, workerVars, dpc, next, replies>>

SendReply ==
  /\ hpc = "sending"
  /\ replies' = Append(replies, inHand)
  /\ hpc' = "receiving"
  /\ UNCHANGED <<testVars, dpc, next, inHand>>

\* As SendFails, with a handler that goes on to the next Node.
SendFailsAndGoesOn ==
  /\ hpc = "sending"
  /\ hpc' = "receiving"
  /\ UNCHANGED <<testVars, dpc, next, inHand, replies>>

\* stream.Send reports that the stream is broken.  As every return, this one
\* ends the stream's context.
SendFails ==
  /\ hpc = "sending"
  /\ hpc' = "failed" /\ ctxDone' = TRUE
  /\ UNCHANGED <<job, wg, guard, nodeChan, workerVars, dpc, next, inHand, replies>>

Return ==
  /\ hpc = "receiving" /\ ~Counting
  /\ hpc' = "returned" /\ ctxDone' = TRUE
  /\ UNCHANGED <<job, wg, guard, nodeChan, workerVars, dpc, next, inHand, replies>>

\* The client cancels the call or goes away.
Cancel ==
  /\ ~ctxDone
  /\ ctxDone' = TRUE
  /\ UNCHANGED <<job, wg, guard, nodeChan, workerVars, allVars>>

Goroutine(i) == (TestOneStep(i) /\ UNCHANGED allVars) \/ Release(i)
Dispatcher == AddOne \/ Spawn \/ GiveUp
Handler == Receive \/ SendReply \/ SendFails \/ Return

Next == Dispatcher \/ Handler \/ Cancel \/ \E i \in Links : Goroutine(i)

\* The Go scheduler runs what can run; probes and phases end by their timeouts.
Fairness ==
  /\ WF_vars(Dispatcher) /\ WF_vars(Handler)
  /\ \A i \in Links : WF_vars(Goroutine(i))

Spec == Init /\ [][Next]_vars
FairSpec == Spec /\ Fairness

-----------------------------------------------------------------------------
TypeOK ==
  /\ TestTypeOK
  /\ dpc \in {"add", "select", "cancelled"} /\ next \in 0 .. LinksCount
  /\ hpc \in {"receiving", "sending", "returned", "failed"}
  /\ inHand \in NodeType
  /\ replies \in Seq(NodeType) /\ Len(replies) <= LinksCount

\* Every goroutine that has sent its Node has it in the channel, in the
\* handler's hand, or in a reply.
StartedInOrder == \A i \in Links : pc[i] = "idle" <=> i >= next
NodesCounted ==
  Cardinality(Sent) = Len(nodeChan) + Len(replies)
                      + (IF hpc \in {"sending", "failed"} THEN 1 ELSE 0)
Selecting == dpc \in {"select", "cancelled"} => next < LinksCount
\* wg is raised before the goroutine starts: once more than tests are under
\* way while the dispatcher waits for a slot, and for good when it gives up.
AwaitedCounted ==
  wg = Cardinality(Testing) + (IF dpc \in {"select", "cancelled"} THEN 1 ELSE 0)
CountInv ==
  /\ TypeOK /\ SlotsCounted /\ StartedInOrder /\ NodesCounted /\ Selecting
  /\ AwaitedCounted /\ PastParser

\* The Nodes on their way to the client, from the first reply to the Node sent
\* last: each is the Node of a goroutine that has sent, no two of the same.
Hand == IF hpc \in {"sending", "failed"} THEN <<inHand>> ELSE <<>>
Flow == replies \o (Hand \o nodeChan)
FlowFaithful ==
  /\ \A k \in 1 .. Len(Flow) :
       \E i \in Sent : Flow[k] = NodeOf(i) /\ Flow[k].id = i
  /\ \A k, m \in 1 .. Len(Flow) : Flow[k].id = Flow[m].id => k = m

\* The conjunction is inductive.
IndInv == CountInv /\ Measured /\ FlowFaithful

\* The client gets at most one reply per link, and each tells what the link's
\* own goroutine has measured, in whatever order the tests end.
RepliesFaithful ==
  /\ \A k \in 1 .. Len(replies) :
       \E i \in Links : HasSent(i) /\ replies[k] = NodeOf(i) /\ replies[k].id = i
  /\ \A k, m \in 1 .. Len(replies) : replies[k].id = replies[m].id => k = m

\* TestAll and the handler keep the promise of Stream: the replies are the Nodes
\* in the order in which the tests have sent them, whoever overtakes whom, and
\* what is in the handler's hand or in the channel is told next.
streamStatus ==
  [i \in Links |-> IF pc[i] = "idle" THEN "queued"
                   ELSE IF pc[i] \in InTest THEN "running" ELSE "finished"]
streamCall == CASE hpc = "returned" -> "complete" [] hpc = "failed" -> "broken" [] OTHER -> "open"
Promise == INSTANCE Stream WITH
  Count <- LinksCount, Limit <- Concurrency,
  status <- streamStatus, results <- Flow, told <- Len(replies), call <- streamCall
StreamsAsPromised == Promise!Spec

\* The handler waits for a Node that nobody will send.
Stranded ==
  /\ hpc = "receiving" /\ Counting /\ nodeChan = <<>>
  /\ dpc = "cancelled" \/ next = LinksCount
  /\ \A i \in Links : pc[i] \in {"idle", "gone"}

\* The handler, which counts Nodes and does not look at the context, is
\* stranded only when the dispatcher gave up links or a link failed to parse.
StrandedOnlyByLoss ==
  Stranded => dpc = "cancelled" \/ \E i \in Links : ~Parses(i)

\* With links that parse, the call ends, also when the client goes away after
\* the last goroutine was started.
CallEnds ==
  (\A i \in Links : Parses(i)) ~> hpc \in {"returned", "failed"} \/ dpc = "cancelled"

\* Every goroutine ends, although a handler that failed receives no more.
GoroutinesEnd == \A i \in Links : pc[i] = "spawned" ~> pc[i] = "gone"
=============================================================================
