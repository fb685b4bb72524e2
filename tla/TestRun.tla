------------------------------ MODULE TestRun ------------------------------
(***************************************************************************)
(* ProfileTest.run: the dispatcher that starts one goroutine per link      *)
(* behind a semaphore, waits for all of them and collects their Nodes.     *)
(* The command line (TestFromCMD), the web server (testAll) and the Go API *)
(* (TestContext) call it; only the latter two can cancel the context.      *)
(***************************************************************************)
EXTENDS TestOne

VARIABLES
  dpc,      \* where run stands
  next,     \* next link to start
  nodes,    \* the array of results
  got,      \* results received so far
  summary   \* the sums of the TestSummary

runVars == <<dpc, next, nodes, got, summary>>
vars == <<testVars, runVars>>

NoNode == [id |-> LinksCount, alive |-> FALSE, traffic |-> 0, success |-> FALSE]

Init ==
  /\ TestInit
  /\ dpc = "add"
  /\ next = 0
  /\ nodes = [i \in Links |-> NoNode]
  /\ got = 0
  /\ summary = [traffic |-> 0, success |-> 0]

-----------------------------------------------------------------------------
\* The dispatcher.

\* wg.Add(1), then Options.TestIDs[i]: a list of ids shorter than the list of
\* links is an index out of range.
AddOne ==
  /\ dpc = "add" /\ next < LinksCount
  /\ wg' = wg + 1
  /\ dpc' = IF HasId(next) THEN "select" ELSE "panicked"
  /\ UNCHANGED <<job, ctxDone, guard, nodeChan, workerVars, next, nodes, got, summary>>

\* As Spawn, testing for a free token the wrong way round.
SpawnOneMore ==
  /\ dpc = "select" /\ guard <= Concurrency
  /\ guard' = guard + 1
  /\ pc' = [pc EXCEPT ![next] = "spawned"]
  /\ next' = next + 1
  /\ dpc' = "add"
  /\ UNCHANGED <<job, ctxDone, wg, nodeChan, log, ping, traffic, nodes, got, summary>>

\* The select: a free token of guard starts the goroutine.  When the context
\* is cancelled too, either case may be taken.
Spawn ==
  /\ dpc = "select" /\ guard < Concurrency
  /\ guard' = guard + 1
  /\ pc' = [pc EXCEPT ![next] = "spawned"]
  /\ next' = next + 1
  /\ dpc' = "add"
  /\ UNCHANGED <<job, ctxDone, wg, nodeChan, log, ping, traffic, nodes, got, summary>>

GiveUp ==
  /\ dpc = "select" /\ ctxDone
  /\ dpc' = "cancelled"
  /\ UNCHANGED <<testVars, next, nodes, got, summary>>

\* As WriteEof, without waiting for the goroutines.
WriteEofEarly ==
  /\ dpc = "add" /\ next = LinksCount
  /\ dpc' = "collect"
  /\ UNCHANGED <<testVars, next, nodes, got, summary>>

\* p.wg.Wait() returns and eof is written.
WriteEof ==
  /\ dpc = "add" /\ next = LinksCount /\ wg = 0
  /\ dpc' = "collect"
  /\ UNCHANGED <<testVars, next, nodes, got, summary>>

\* As Collect, filing the Nodes in the order they arrive in.
CollectInOrder ==
  /\ dpc = "collect" /\ got < LinksCount /\ nodeChan # <<>>
  /\ nodeChan' = Tail(nodeChan)
  /\ nodes' = [nodes EXCEPT ![got] = Head(nodeChan)]
  /\ got' = got + 1
  /\ summary' = [traffic |-> summary.traffic + Head(nodeChan).traffic,
                 success |-> summary.success + (IF Head(nodeChan).success THEN 1 ELSE 0)]
  /\ UNCHANGED <<job, ctxDone, wg, guard, workerVars, dpc, next>>

\* One Node is received, with no regard to the context, and filed under its id:
\* an id beyond the links is an index out of range.
Collect ==
  /\ dpc = "collect" /\ got < LinksCount /\ nodeChan # <<>>
  /\ nodeChan' = Tail(nodeChan)
  /\ LET node == Head(nodeChan) IN
       IF node.id \in Links
       THEN /\ nodes' = [nodes EXCEPT ![node.id] = node]
            /\ got' = got + 1
            /\ summary' = [traffic |-> summary.traffic + node.traffic,
                           success |-> summary.success + (IF node.success THEN 1 ELSE 0)]
            /\ dpc' = dpc
       ELSE /\ dpc' = "panicked"
            /\ UNCHANGED <<nodes, got, summary>>
  /\ UNCHANGED <<job, ctxDone, wg, guard, workerVars, next>>

\* As Return, one Node short.
ReturnShort ==
  /\ dpc = "collect" /\ got = LinksCount - 1
  /\ dpc' = "returned"
  /\ UNCHANGED <<testVars, next, nodes, got, summary>>

\* close(nodeChan) and return.
Return ==
  /\ dpc = "collect" /\ got = LinksCount
  /\ dpc' = "returned"
  /\ UNCHANGED <<testVars, next, nodes, got, summary>>

-----------------------------------------------------------------------------
\* What the goroutine does after testOne.

WriteEndone(i) ==
  /\ Goto(i, "tested", "ended")
  /\ Say(i, "endone")
  /\ UNCHANGED <<job, ctxDone, wg, guard, nodeChan, ping, traffic, runVars>>

Release(i) ==
  /\ Goto(i, "ended", "gone")
  /\ guard' = guard - 1
  /\ UNCHANGED <<job, ctxDone, wg, nodeChan, log, ping, traffic, runVars>>

\* The read loop of the WebSocket ends, or the caller's context is cancelled.
Cancel ==
  /\ ~ctxDone
  /\ ctxDone' = TRUE
  /\ UNCHANGED <<job, wg, guard, nodeChan, workerVars, runVars>>

Goroutine(i) ==
  \/ TestOneStep(i) /\ UNCHANGED runVars
  \/ WriteEndone(i)
  \/ Release(i)

Dispatcher == AddOne \/ Spawn \/ GiveUp \/ WriteEof \/ Collect \/ Return

\* A panic ends the process.
Next ==
  /\ dpc # "panicked"
  /\ Dispatcher \/ Cancel \/ \E i \in Links : Goroutine(i)

\* The Go scheduler runs every goroutine that can run.  Probes and phases end
\* by their own timeouts, and MaxSamples bounds the samples.
Fairness == WF_vars(Dispatcher /\ dpc # "panicked")
            /\ \A i \in Links : WF_vars(Goroutine(i) /\ dpc # "panicked")

Spec == Init /\ [][Next]_vars
FairSpec == Spec /\ Fairness

-----------------------------------------------------------------------------
TypeOK ==
  /\ TestTypeOK
  /\ dpc \in {"add", "select", "collect", "returned", "cancelled", "panicked"}
  /\ next \in 0 .. LinksCount
  /\ nodes \in [Links -> NodeType]
  /\ got \in 0 .. LinksCount
  /\ summary \in [traffic: Nat, success: Nat]

\* What ties the counters to the goroutines, and makes the invariants below
\* inductive, besides guard: wg counts the tests under way and the one
\* about to start, and every Node sent is in the channel or collected.  A
\* goroutine past the parser has a parsable link, and one started has an id.
StartedInOrder == \A i \in Links : pc[i] = "idle" <=> i >= next
AwaitedCounted ==
  dpc # "panicked" =>
    wg = Cardinality(Testing)
         + (IF dpc \in {"select", "cancelled"} THEN 1 ELSE 0)
NodesCounted ==
  IF dpc = "panicked" THEN Len(nodeChan) + got <= Cardinality(Sent)
                      ELSE Len(nodeChan) + got = Cardinality(Sent)
AfterEof ==
  /\ dpc \in {"collect", "returned"} =>
       next = LinksCount /\ \A i \in Links : pc[i] \notin InTest
  /\ dpc = "returned" => got = LinksCount
Selecting == dpc = "select" => next < LinksCount /\ HasId(next)
Admitted == \A i \in Links : pc[i] # "idle" => HasId(i)
CountInv ==
  /\ TypeOK /\ SlotsCounted /\ StartedInOrder /\ AwaitedCounted
  /\ NodesCounted /\ AfterEof /\ Selecting /\ Admitted /\ PastParser

\* The collecting loop of run, which ignores the context, never stands before
\* an empty channel unless some link failed to parse.
CollectNeverStarves ==
  (\A i \in Links : Parses(i)) /\ dpc = "collect" /\ got < LinksCount
    => nodeChan # <<>>

\* Once eof is written, the only messages that may still arrive for a node are
\* its endone: the front end stops its meters on eof.
QuietAfterEof ==
  [][\A i \in Links :
        dpc \in {"collect", "returned"} /\ log'[i] # log[i]
          => log'[i] = Append(log[i], "endone")]_vars

\* Ids as the front end sends them: none, or one distinct row for each link.
IdsValid ==
  job.ids = <<>> \/ /\ Len(job.ids) = LinksCount
                    /\ {IdOf(i) : i \in Links} = Links

\* No two links report under one id.
DistinctIds ==
  \A i, j \in Links : HasId(i) /\ HasId(j) /\ IdOf(i) = IdOf(j) => i = j

\* w names the senders of the Nodes in nodeChan, each the sender of one.
Senders(w) ==
  /\ \A k \in 1 .. Len(nodeChan) : HasSent(w[k]) /\ nodeChan[k] = NodeOf(w[k])
  /\ \A k, l \in 1 .. Len(nodeChan) : w[k] = w[l] => k = l
Succeeded(S) == {i \in S : NodeOf(i).success}

\* The report is right at every moment of collecting, about the goroutines
\* whose Nodes have been collected so far.
Filed(S) ==
  /\ summary.traffic = Cardinality(Bytes(S))
  /\ summary.success = Cardinality(Succeeded(S))
  /\ DistinctIds => \A i \in S : IdOf(i) \in Links /\ nodes[IdOf(i)] = NodeOf(i)
Ledger ==
  dpc # "panicked" =>
    \E w \in [1 .. Len(nodeChan) -> Links], done \in SUBSET Links :
      /\ Senders(w) /\ done = Sent \ {w[k] : k \in 1 .. Len(nodeChan)}
      /\ Filed(done)

IndInv == CountInv /\ Measured /\ Ledger

\* What the caller of run gets is what the goroutines measured: each Node in
\* the slot of its id, every byte downloaded in the traffic, and the number of
\* successes.  The sums hold for ids that name one row twice too.
ReportFaithful ==
  dpc = "returned" =>
    /\ summary.traffic = Cardinality(Bytes(Links))
    /\ summary.success = Cardinality({i \in Links : NodeOf(i).success})
    /\ DistinctIds => \A i \in Links : IdOf(i) \in Links /\ nodes[IdOf(i)] = NodeOf(i)

\* With links that parse and proper ids, run returns or reports cancellation:
\* waiting for the WaitGroup and for the Nodes both come to an end.
RunReturns ==
  (\A i \in Links : Parses(i)) /\ IdsValid ~> dpc \in {"returned", "cancelled"}

\* Every goroutine ends, also those a cancelled run leaves behind.
GoroutinesEnd == \A i \in Links : pc[i] = "spawned" ~> pc[i] = "gone" \/ dpc = "panicked"

\* run implements the promise of module Batch: a test is running until
\* testOne has counted it as done, its result is the Node it sent.  With one id
\* for two links the report holds one Node of the two, so the ids are distinct
\* wherever this is checked.
batchStatus ==
  [i \in Links |-> IF pc[i] = "idle" THEN "queued"
                   ELSE IF pc[i] \in InTest THEN "running" ELSE "finished"]
batchResult == [i \in Links |-> IF HasSent(i) THEN NodeOf(i) ELSE NoNode]
batchOutcome == CASE dpc = "returned" -> "complete"
                  [] dpc = "cancelled" -> "abandoned"
                  [] OTHER -> "open"
batchReport ==
  [i \in Links |-> IF dpc = "returned" /\ IdOf(i) \in Links THEN nodes[IdOf(i)] ELSE NoNode]
Promise == INSTANCE Batch WITH
  Count <- LinksCount, Limit <- Concurrency, NoResult <- NoNode,
  status <- batchStatus, result <- batchResult,
  outcome <- batchOutcome, report <- batchReport
KeepsPromise == Promise!Spec

-----------------------------------------------------------------------------
\* What comments and documents say of run and the code does not do.

\* "run ... returns the nodes, unsorted": also for a list with a link that
\* Link2Config rejects.
AlwaysReturns == IdsValid ~> dpc \in {"returned", "cancelled"}

\* "endone triggers printing that node's line": all lines are out when run
\* returns to TestFromCMD, which then emits the results and exits.
LinesPrinted == dpc = "returned" => \A i \in Links : pc[i] \in {"ended", "gone"}
=============================================================================
