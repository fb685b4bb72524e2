------------------------------- MODULE Tester -------------------------------
(***************************************************************************)
(* internal/tester: Tester.Test, which streams one Result per proxy over a *)
(* buffered channel and closes it, and TestSync, which ranges over that    *)
(* channel.  Unlike ProfileTest.run the workers' send has a case for the   *)
(* context, and the channel is closed by a defer of the dispatcher, also   *)
(* when the context ends it with workers under way.                        *)
(***************************************************************************)
EXTENDS Naturals, Sequences, FiniteSets

CONSTANTS
  Count,        \* number of proxy configs
  Concurrency,  \* Options.Concurrency, at least 1 after New
  Modes         \* the values of Options.Mode considered

ASSUME TesterAssumption ==
  /\ Count \in Nat /\ Concurrency \in Nat \ {0}
  /\ Modes \subseteq {"all", "pingonly", "speedonly"}

Proxies == 0 .. Count - 1

VARIABLES
  mode,
  ctxDone,     \* the caller's context is done
  dpc, next,   \* the dispatcher goroutine
  semaphore,   \* tokens in the channel semaphore
  wg,          \* counter of the WaitGroup
  pc,          \* per worker: control
  res,         \* per worker: what testOne returns
  resultChan, closed,
  rpc,         \* TestSync: "ranging" or "returned"
  results,     \* the slice TestSync fills
  panicked     \* what ended the process, if anything

workerVars == <<pc, res>>
chanVars == <<resultChan, closed>>
syncVars == <<rpc, results>>
vars == <<mode, ctxDone, dpc, next, semaphore, wg, workerVars, chanVars, syncVars, panicked>>

\* A Result is told apart by whether it holds a ping, a speed and an error.
ResultType == [ping: BOOLEAN, speed: BOOLEAN, error: BOOLEAN]
Empty == [ping |-> FALSE, speed |-> FALSE, error |-> FALSE]
Success(r) == r.ping \/ r.speed
\* The nil pointer, as a value that no test returns: an error excludes a speed.
Nil == [ping |-> TRUE, speed |-> TRUE, error |-> TRUE]

Init ==
  /\ mode \in Modes
  /\ ctxDone = FALSE
  /\ dpc = "select" /\ next = 0 /\ semaphore = 0 /\ wg = 0
  /\ pc = [i \in Proxies |-> "idle"] /\ res = [i \in Proxies |-> Empty]
  /\ resultChan = <<>> /\ closed = FALSE
  /\ rpc = "ranging" /\ results = [i \in Proxies |-> Nil]
  /\ panicked = "no"

-----------------------------------------------------------------------------
\* The dispatcher.  Its loop variable i is next.

Spawn ==
  /\ dpc = "select" /\ next < Count /\ semaphore < Concurrency
  /\ semaphore' = semaphore + 1 /\ wg' = wg + 1
  /\ pc' = [pc EXCEPT ![next] = "created"] /\ next' = next + 1
  /\ UNCHANGED <<mode, ctxDone, dpc, res, chanVars, syncVars, panicked>>

\* As CloseResults, without the defer.
LeaveOpen == dpc' = "closed" /\ UNCHANGED closed

\* The deferred close runs on both ways out.
CloseResults == dpc' = "closed" /\ closed' = TRUE

GiveUp ==
  /\ dpc = "select" /\ next < Count /\ ctxDone
  /\ CloseResults
  /\ UNCHANGED <<mode, ctxDone, next, semaphore, wg, workerVars, resultChan, syncVars, panicked>>

AllDone ==
  /\ dpc = "select" /\ next = Count /\ wg = 0
  /\ CloseResults
  /\ UNCHANGED <<mode, ctxDone, next, semaphore, wg, workerVars, resultChan, syncVars, panicked>>

-----------------------------------------------------------------------------
\* A worker.

Goto(i, from, to) == pc[i] = from /\ pc' = [pc EXCEPT ![i] = to]
Set(i, r) == res' = [res EXCEPT ![i] = r]
workerRest == <<mode, ctxDone, dpc, next, semaphore, wg, chanVars, syncVars, panicked>>

\* NewDialer fails, or the first test of the mode begins.
Create(i) ==
  /\ \/ Goto(i, "created", "sending") /\ Set(i, [Empty EXCEPT !.error = TRUE])
     \/ /\ Goto(i, "created", IF mode = "speedonly" THEN "speed" ELSE "ping")
        /\ UNCHANGED res
  /\ UNCHANGED workerRest

\* A failed ping ends the test, a ping sets Success; a ping below 1 ms counts.
Ping(i) ==
  /\ \/ Goto(i, "ping", "sending") /\ Set(i, [Empty EXCEPT !.error = TRUE])
     \/ /\ Goto(i, "ping", IF mode = "pingonly" THEN "sending" ELSE "speed")
        /\ Set(i, [Empty EXCEPT !.ping = TRUE])
  /\ UNCHANGED workerRest

\* A failed download is an error only after a successful ping.
Speed(i) ==
  /\ Goto(i, "speed", "sending")
  /\ \/ Set(i, [res[i] EXCEPT !.error = res[i].ping])
     \/ Set(i, [res[i] EXCEPT !.speed = TRUE])
  /\ UNCHANGED workerRest

\* The average is divided by whole milliseconds: a download that ends within
\* the first one divides by zero.
SpeedTooFast(i) ==
  /\ pc[i] = "speed"
  /\ panicked' = "division"
  /\ UNCHANGED <<mode, ctxDone, dpc, next, semaphore, wg, workerVars, chanVars, syncVars>>

\* As SendResult, in the order in which the tests end.
SendNextResult(i) ==
  /\ Goto(i, "sending", "released") /\ Len(resultChan) < Count
  /\ resultChan' = Append(resultChan, Len(resultChan))
  /\ semaphore' = semaphore - 1
  /\ UNCHANGED <<mode, ctxDone, dpc, next, wg, res, closed, syncVars, panicked>>

\* The select: a send on a closed channel panics when it is chosen.  The
\* semaphore is released before the WaitGroup.
SendResult(i) ==
  /\ pc[i] = "sending"
  /\ IF closed
     THEN panicked' = "send" /\ UNCHANGED <<pc, resultChan, semaphore>>
     ELSE /\ Len(resultChan) < Count
          /\ resultChan' = Append(resultChan, i)
          /\ Goto(i, "sending", "released") /\ semaphore' = semaphore - 1
          /\ UNCHANGED panicked
  /\ UNCHANGED <<mode, ctxDone, dpc, next, wg, res, closed, syncVars>>

DropResult(i) ==
  /\ ctxDone
  /\ Goto(i, "sending", "released") /\ semaphore' = semaphore - 1
  /\ UNCHANGED <<mode, ctxDone, dpc, next, wg, res, chanVars, syncVars, panicked>>

WgDone(i) ==
  /\ Goto(i, "released", "gone") /\ wg' = wg - 1
  /\ UNCHANGED <<mode, ctxDone, dpc, next, semaphore, res, chanVars, syncVars, panicked>>

Worker(i) ==
  \/ Create(i) \/ Ping(i) \/ Speed(i) \/ SpeedTooFast(i)
  \/ SendResult(i) \/ DropResult(i) \/ WgDone(i)

-----------------------------------------------------------------------------
\* TestSync and its caller.

RangeReceives ==
  /\ rpc = "ranging" /\ resultChan # <<>>
  /\ LET i == Head(resultChan) IN results' = [results EXCEPT ![i] = res[i]]
  /\ resultChan' = Tail(resultChan)
  /\ UNCHANGED <<mode, ctxDone, dpc, next, semaphore, wg, workerVars, closed, rpc, panicked>>

RangeEnds ==
  /\ rpc = "ranging" /\ closed /\ resultChan = <<>>
  /\ rpc' = "returned"
  /\ UNCHANGED <<mode, ctxDone, dpc, next, semaphore, wg, workerVars, chanVars, results, panicked>>

Cancel ==
  /\ ~ctxDone /\ ctxDone' = TRUE
  /\ UNCHANGED <<mode, dpc, next, semaphore, wg, workerVars, chanVars, syncVars, panicked>>

Dispatcher == Spawn \/ GiveUp \/ AllDone
Sync == RangeReceives \/ RangeEnds

Next ==
  /\ panicked = "no"
  /\ Dispatcher \/ Sync \/ Cancel \/ \E i \in Proxies : Worker(i)

\* Goroutines that can run do; ping and download end by their timeouts.
Running(A) == panicked = "no" /\ A
Fairness ==
  /\ WF_vars(Running(Dispatcher)) /\ WF_vars(Running(Sync))
  /\ \A i \in Proxies : WF_vars(Running(Worker(i)))

Spec == Init /\ [][Next]_vars
FairSpec == Spec /\ Fairness

-----------------------------------------------------------------------------
Busy == {i \in Proxies : pc[i] \notin {"idle", "released", "gone"}}

TypeOK ==
  /\ mode \in Modes /\ ctxDone \in BOOLEAN /\ closed \in BOOLEAN
  /\ dpc \in {"select", "closed"} /\ next \in 0 .. Count
  /\ semaphore \in 0 .. Concurrency /\ wg \in 0 .. Count
  /\ pc \in [Proxies -> {"idle", "created", "ping", "speed", "sending", "released", "gone"}]
  /\ res \in [Proxies -> ResultType]
  /\ resultChan \in Seq(Proxies) /\ Len(resultChan) <= Count
  /\ rpc \in {"ranging", "returned"}
  /\ results \in [Proxies -> ResultType]
  /\ panicked \in {"no", "division", "send"}

\* The semaphore counts the workers that test or deliver.
AtMostConcurrency == semaphore = Cardinality(Busy) /\ Cardinality(Busy) <= Concurrency

\* Without cancellation TestSync returns the Result of every proxy, in its
\* place, and none is sent after the channel is closed.
CompleteUnlessCancelled ==
  /\ rpc = "returned" /\ ~ctxDone => results = res
  /\ panicked = "send" => ctxDone

\* What a Result says is consistent with the mode, whatever failed.
Consistent(r) ==
  /\ r.ping => mode # "speedonly"
  /\ r.speed => mode # "pingonly" /\ (mode = "all" => r.ping)
  /\ r.error => ~r.speed
  /\ Success(r) \/ r.error \/ mode = "speedonly"

ResultsConsistent == \A i \in Proxies : results[i] # Nil => Consistent(results[i])

\* Results are complete, in place and consistent, under the limit.
TesterSafe == TypeOK /\ AtMostConcurrency /\ CompleteUnlessCancelled /\ ResultsConsistent

\* What makes them so.  The WaitGroup counts the workers started and not gone;
\* the dispatcher starts them in their order.
Waited == {i \in Proxies : pc[i] \notin {"idle", "gone"}}
Started ==
  /\ wg = Cardinality(Waited)
  /\ \A i \in Proxies : pc[i] = "idle" <=> i >= next
  /\ dpc = "closed" <=> closed

\* A Result is in the channel once, after its test; unless the context is done
\* each one sent is in the channel or in its place, and the channel is closed
\* after the last worker.
Over == {"released", "gone"}
Delivery ==
  /\ \A k, l \in DOMAIN resultChan : resultChan[k] = resultChan[l] => k = l
  /\ \A k \in DOMAIN resultChan : pc[resultChan[k]] \in Over
  /\ ~ctxDone => \A i \in Proxies :
       pc[i] \in Over => results[i] = res[i] \/ \E k \in DOMAIN resultChan : resultChan[k] = i
  /\ closed /\ ~ctxDone => \A i \in Proxies : pc[i] = "gone"
  /\ rpc = "returned" => closed /\ resultChan = <<>>

\* How far the Result of a worker is at each of its steps.
Progress ==
  \A i \in Proxies :
    /\ pc[i] \in {"idle", "created", "ping"} => res[i] = Empty
    /\ pc[i] = "ping" => mode # "speedonly"
    /\ pc[i] = "speed" =>
         /\ mode # "pingonly"
         /\ res[i] = IF mode = "all" THEN [Empty EXCEPT !.ping = TRUE] ELSE Empty
    /\ pc[i] \in {"sending"} \cup Over => Consistent(res[i])

TesterInv == TesterSafe /\ Started /\ Delivery /\ Progress

-----------------------------------------------------------------------------
\* What comments say of TestSync and the code does not do.

\* "TestSync runs tests synchronously and returns all results": it returns,
\* also when the context is cancelled while the last tests are under way.
NeverSendsOnClosed == panicked # "send"
=============================================================================
