---------------------------- MODULE LibraryProofs ----------------------------
(***************************************************************************)
(* Proofs about the library's tester (module Tester), the range download   *)
(* (module DownloadRange) and the address lookup (module IpInfo), for any  *)
(* numbers of proxies, parts, bytes and providers.                         *)
(***************************************************************************)
EXTENDS Tester, DownloadRange, IpInfo, FiniteSetTheorems, FunctionTheorems,
        SequenceTheorems, WellFoundedInduction, TLAPS

-----------------------------------------------------------------------------
\* Tester.

LEMMA SomeProxies ==
  ASSUME NEW S \in SUBSET Proxies
  PROVE  IsFiniteSet(S) /\ Cardinality(S) \in 0 .. Count
<1>1. 0 \in Int /\ Count - 1 \in Int /\ Count \in Nat
  BY TesterAssumption
<1>2. IsFiniteSet(Proxies) /\ Cardinality(Proxies) = Count
  BY <1>1, FS_Interval DEF Proxies
<1>. QED
  BY <1>1, <1>2, FS_Subset, FS_CardinalityType

LEMMA TesterInitInd == Init => TesterInv
<1>. SUFFICES ASSUME Init PROVE TesterInv
  OBVIOUS
<1>. USE DEF Init
<1>1. Busy = {} /\ Waited = {} /\ Cardinality({}) = 0
  BY FS_EmptySet DEF Busy, Waited
<1>2. TypeOK
  <2>1. Empty \in ResultType /\ Nil \in ResultType
    BY DEF Empty, Nil, ResultType
  <2>2. next \in 0 .. Count /\ semaphore \in 0 .. Concurrency /\ wg \in 0 .. Count
    BY TesterAssumption
  <2>3. resultChan \in Seq(Proxies) /\ Len(resultChan) <= Count
    BY TesterAssumption
  <2>4. ctxDone \in BOOLEAN /\ closed \in BOOLEAN
    OBVIOUS
  <2>. QED
    BY <2>1, <2>2, <2>3, <2>4, Zenon DEF TypeOK
<1>3. AtMostConcurrency /\ CompleteUnlessCancelled /\ ResultsConsistent
  BY <1>1, TesterAssumption DEF AtMostConcurrency, CompleteUnlessCancelled, ResultsConsistent
<1>4. Started
  BY <1>1 DEF Started, Proxies
<1>5. Delivery /\ Progress
  BY DEF Delivery, Progress, Over
<1>. QED
  BY <1>2, <1>3, <1>4, <1>5 DEF TesterInv, TesterSafe

\* A worker tests: it stays among those that hold a token and are waited for,
\* and its Result is not sent yet.
LEMMA TestingStep ==
  ASSUME TesterInv, NEW i \in Proxies, Create(i) \/ Ping(i) \/ Speed(i)
  PROVE  TesterInv'
<1>1. UNCHANGED workerRest
  BY DEF Create, Ping, Speed
<1>2. /\ pc[i] \in {"created", "ping", "speed"} /\ pc'[i] \in {"ping", "speed", "sending"}
      /\ pc' = [pc EXCEPT ![i] = pc'[i]]
  BY DEF TesterInv, TesterSafe, TypeOK, Create, Ping, Speed, Goto
<1>3. /\ res'[i] \in ResultType /\ res' = [res EXCEPT ![i] = res'[i]]
      /\ pc'[i] = "ping" => res'[i] = Empty /\ mode # "speedonly"
      /\ pc'[i] = "speed" =>
           /\ mode # "pingonly"
           /\ res'[i] = IF mode = "all" THEN [Empty EXCEPT !.ping = TRUE] ELSE Empty
      /\ pc'[i] = "sending" => Consistent(res'[i])
  <2>1. mode \in {"all", "pingonly", "speedonly"} /\ res \in [Proxies -> ResultType]
        /\ pc \in [Proxies -> {"idle", "created", "ping", "speed", "sending", "released", "gone"}]
    BY TesterAssumption DEF TesterInv, TesterSafe, TypeOK
  <2>2. /\ Empty \in ResultType /\ [Empty EXCEPT !.error = TRUE] \in ResultType
        /\ [Empty EXCEPT !.ping = TRUE] \in ResultType
        /\ [res[i] EXCEPT !.error = res[i].ping] \in ResultType
        /\ [res[i] EXCEPT !.speed = TRUE] \in ResultType
    BY <2>1, Zenon DEF Empty, ResultType
  <2>3. CASE Create(i)
    BY <2>1, <2>2, <2>3 DEF Create, Goto, Set, TesterInv, Progress, Consistent, Success, Empty
  <2>4. CASE Ping(i)
    <3>1. /\ pc[i] = "ping" /\ mode # "speedonly"
          /\ res' = [res EXCEPT ![i] = res'[i]]
          /\ \/ res'[i] = [Empty EXCEPT !.error = TRUE] /\ pc'[i] = "sending"
             \/ /\ res'[i] = [Empty EXCEPT !.ping = TRUE]
                /\ pc'[i] = IF mode = "pingonly" THEN "sending" ELSE "speed"
      BY <2>1, <2>2, <2>4 DEF Ping, Goto, Set, TesterInv, Progress
    <3>. QED
      BY <2>1, <2>2, <3>1 DEF Consistent, Success, Empty
  <2>5. CASE Speed(i)
    BY <2>1, <2>2, <2>5 DEF Speed, Goto, Set, TesterInv, Progress, Consistent, Success, Empty, ResultType
  <2>. QED
    BY <2>3, <2>4, <2>5
<1>. USE DEF workerRest, chanVars, syncVars
<1>4. Busy' = Busy /\ Waited' = Waited
  BY <1>1, <1>2, <1>3 DEF Busy, Waited, TesterInv, TesterSafe, TypeOK
<1>5. TypeOK'
  BY <1>1, <1>2, <1>3, Zenon DEF TesterInv, TesterSafe, TypeOK
<1>6. AtMostConcurrency' /\ Started'
  BY <1>1, <1>2, <1>3, <1>4 DEF TesterInv, TesterSafe, TypeOK, AtMostConcurrency, Started
<1>7. Delivery'
  BY <1>1, <1>2, <1>3 DEF TesterInv, TesterSafe, TypeOK, Delivery, Over
<1>8. CompleteUnlessCancelled' /\ ResultsConsistent'
  BY <1>1, <1>2, <1>3 DEF TesterInv, TesterSafe, TypeOK, CompleteUnlessCancelled, Delivery, ResultsConsistent,
                    Consistent, Success
<1>9. Progress'
  BY <1>1, <1>2, <1>3 DEF TesterInv, TesterSafe, TypeOK, Progress, Over, Consistent, Success
<1>. QED
  BY <1>5, <1>6, <1>7, <1>8, <1>9 DEF TesterInv, TesterSafe

\* The dispatcher starts the next worker under the limit.
LEMMA SpawnStep ==
  ASSUME TesterInv, Spawn
  PROVE  TesterInv'
<1>. USE DEF Spawn, chanVars, syncVars
<1>1. /\ next \in Proxies /\ pc[next] = "idle" /\ ~closed
      /\ pc \in [Proxies -> {"idle", "created", "ping", "speed", "sending", "released", "gone"}]
      /\ next \in Nat /\ Count \in Nat /\ Concurrency \in Nat /\ semaphore \in Nat
  BY TesterAssumption DEF TesterInv, TesterSafe, TypeOK, Started, Proxies
<1>2. Busy' = Busy \cup {next} /\ next \notin Busy
  BY <1>1 DEF Busy
<1>3. Waited' = Waited \cup {next} /\ next \notin Waited
  BY <1>1 DEF Waited
<1>4. /\ IsFiniteSet(Busy) /\ IsFiniteSet(Waited)
      /\ Cardinality(Busy') = Cardinality(Busy) + 1 /\ Cardinality(Waited') = Cardinality(Waited) + 1
  BY <1>2, <1>3, SomeProxies, FS_AddElement DEF Busy, Waited
<1>5. wg' = Cardinality(Waited') /\ wg' \in 0 .. Count
  <2>1. Waited' \in SUBSET Proxies
    BY DEF Waited
  <2>2. wg' = Cardinality(Waited')
    BY <1>4 DEF TesterInv, Started
  <2>. QED
    BY <2>1, <2>2, SomeProxies
<1>6. semaphore' = Cardinality(Busy') /\ semaphore' \in 0 .. Concurrency
  BY <1>1, <1>4 DEF TesterInv, TesterSafe, AtMostConcurrency
<1>7. TypeOK'
  <2>1. next' \in 0 .. Count
    BY <1>1
  <2>2. pc' \in [Proxies -> {"idle", "created", "ping", "speed", "sending", "released", "gone"}]
    BY <1>1
  <2>. QED
    BY <1>5, <1>6, <2>1, <2>2, Zenon DEF TesterInv, TesterSafe, TypeOK
<1>8. AtMostConcurrency'
  BY <1>1, <1>6 DEF AtMostConcurrency
<1>9. Started'
  BY <1>1, <1>5 DEF TesterInv, Started, Proxies
<1>10. Delivery'
  BY <1>1 DEF TesterInv, TesterSafe, TypeOK, Delivery, Over
<1>11. CompleteUnlessCancelled' /\ ResultsConsistent'
  BY <1>1 DEF TesterInv, TesterSafe, CompleteUnlessCancelled, ResultsConsistent, Consistent
<1>12. Progress'
  BY <1>1 DEF TesterInv, Progress, Over, Consistent
<1>. QED
  BY <1>7, <1>8, <1>9, <1>10, <1>11, <1>12 DEF TesterInv, TesterSafe

\* The channel is closed when the context is done or the last worker is gone.
LEMMA CloseStep ==
  ASSUME TesterInv, GiveUp \/ AllDone
  PROVE  TesterInv'
<1>. USE DEF workerVars, chanVars, syncVars
<1>1. /\ dpc' = "closed" /\ closed' = TRUE
      /\ UNCHANGED <<mode, ctxDone, next, semaphore, wg, workerVars, resultChan, syncVars, panicked>>
  BY DEF GiveUp, AllDone, CloseResults
<1>2. ~ctxDone => \A i \in Proxies : pc[i] = "gone"
  <2>. SUFFICES ASSUME ~ctxDone, NEW i \in Proxies PROVE pc[i] = "gone"
    OBVIOUS
  <2>1. IsFiniteSet(Waited) /\ Cardinality(Waited) = 0 /\ next = Count
    BY SomeProxies DEF GiveUp, AllDone, TesterInv, Started, Waited
  <2>2. Waited = {}
    BY <2>1, FS_EmptySet
  <2>3. pc[i] \in {"idle", "gone"}
    BY <2>2 DEF Waited
  <2>4. i \in Int /\ ~(i >= next)
    BY <2>1, TesterAssumption DEF Proxies
  <2>. QED
    BY <2>3, <2>4 DEF TesterInv, Started
<1>3. TypeOK'
  BY <1>1, Zenon DEF TesterInv, TesterSafe, TypeOK
<1>4. AtMostConcurrency' /\ CompleteUnlessCancelled' /\ ResultsConsistent'
  BY <1>1 DEF TesterInv, TesterSafe, AtMostConcurrency, Busy, CompleteUnlessCancelled,
              ResultsConsistent, Consistent
<1>5. Started' /\ Delivery' /\ Progress'
  BY <1>1, <1>2 DEF TesterInv, Started, Waited, Delivery, Progress, Consistent
<1>. QED
  BY <1>3, <1>4, <1>5 DEF TesterInv, TesterSafe

\* A worker sends its Result or, when the context is done, drops it; then it
\* returns its token.
LEMMA ReleaseStep ==
  ASSUME TesterInv, NEW i \in Proxies,
         \/ SendResult(i) /\ ~closed
         \/ DropResult(i)
  PROVE  TesterInv'
<1>. USE DEF chanVars, syncVars
<1>1. /\ pc[i] = "sending" /\ pc' = [pc EXCEPT ![i] = "released"] /\ semaphore' = semaphore - 1
      /\ UNCHANGED <<mode, ctxDone, dpc, next, wg, res, closed, syncVars, panicked>>
  BY DEF SendResult, DropResult, Goto
<1>2. /\ pc \in [Proxies -> {"idle", "created", "ping", "speed", "sending", "released", "gone"}]
      /\ resultChan \in Seq(Proxies) /\ Len(resultChan) \in Nat
      /\ \A k \in DOMAIN resultChan : pc[resultChan[k]] \in Over
  BY DEF TesterInv, TesterSafe, TypeOK, Delivery
<1>3. \/ resultChan' = resultChan /\ ctxDone
      \/ resultChan' = Append(resultChan, i) /\ Len(resultChan) < Count /\ ~closed
  BY DEF SendResult, DropResult
<1>4. Busy' = Busy \ {i} /\ i \in Busy /\ Waited' = Waited
  BY <1>1, <1>2 DEF Busy, Waited
<1>5. semaphore' = Cardinality(Busy') /\ semaphore' \in 0 .. Concurrency
  <2>1. IsFiniteSet(Busy) /\ Cardinality(Busy) \in Nat /\ Cardinality(Busy') \in Nat
    BY SomeProxies DEF Busy
  <2>2. Cardinality(Busy') = Cardinality(Busy) - 1
    BY <1>4, <2>1, FS_RemoveElement
  <2>. QED
    BY <1>1, <2>1, <2>2, TesterAssumption DEF TesterInv, TesterSafe, AtMostConcurrency
<1>6. TypeOK'
  <2>1. pc' \in [Proxies -> {"idle", "created", "ping", "speed", "sending", "released", "gone"}]
    BY <1>1, <1>2
  <2>2. resultChan' \in Seq(Proxies) /\ Len(resultChan') <= Count
    BY <1>2, <1>3, TesterAssumption DEF TesterInv, TesterSafe, TypeOK
  <2>. QED
    BY <1>1, <1>5, <2>1, <2>2, Zenon DEF TesterInv, TesterSafe, TypeOK
<1>7. AtMostConcurrency' /\ Started'
  <2>1. Cardinality(Busy') <= Concurrency
    BY <1>5, TesterAssumption
  <2>. QED
    BY <1>1, <1>2, <1>4, <1>5, <2>1 DEF AtMostConcurrency, TesterInv, Started
<1>8. Delivery'
  <2>1. CASE resultChan' = resultChan /\ ctxDone
    BY <1>1, <1>2, <2>1 DEF TesterInv, Delivery, Over
  <2>2. CASE resultChan' = Append(resultChan, i) /\ ~closed
    <3>1. /\ DOMAIN resultChan = 1 .. Len(resultChan) /\ DOMAIN resultChan' = 1 .. Len(resultChan) + 1
          /\ \A k \in DOMAIN resultChan : resultChan'[k] = resultChan[k] /\ resultChan[k] # i
          /\ resultChan'[Len(resultChan) + 1] = i
      BY <1>1, <1>2, <2>2 DEF Over
    <3>2. \A k \in DOMAIN resultChan' : k \in DOMAIN resultChan \/ k = Len(resultChan) + 1
      BY <1>2, <3>1
    <3>3. \A k, l \in DOMAIN resultChan' : resultChan'[k] = resultChan'[l] => k = l
      BY <3>1, <3>2 DEF TesterInv, Delivery
    <3>4. \A k \in DOMAIN resultChan' : pc'[resultChan'[k]] \in Over
      <4>1. pc'[i] \in Over /\ \A j \in Proxies : pc[j] \in Over => pc'[j] \in Over
        BY <1>1, <1>2 DEF Over
      <4>. QED
        BY <1>2, <3>1, <3>2, <4>1
    <3>5. ~ctxDone => \A j \in Proxies :
            pc'[j] \in Over => results[j] = res[j] \/ \E k \in DOMAIN resultChan' : resultChan'[k] = j
      <4>. SUFFICES ASSUME ~ctxDone, NEW j \in Proxies, pc'[j] \in Over, results[j] # res[j]
                    PROVE  \E k \in DOMAIN resultChan' : resultChan'[k] = j
        OBVIOUS
      <4>1. CASE j = i
        BY <1>2, <3>1, <4>1
      <4>2. CASE j # i
        <5>1. PICK k \in DOMAIN resultChan : resultChan[k] = j
          BY <1>1, <1>2, <4>2 DEF TesterInv, Delivery
        <5>. QED
          BY <1>2, <3>1, <5>1
      <4>. QED
        BY <4>1, <4>2
    <3>. QED
      BY <1>1, <2>2, <3>3, <3>4, <3>5 DEF TesterInv, Delivery
  <2>. QED
    BY <1>3, <2>1, <2>2
<1>9. CompleteUnlessCancelled' /\ ResultsConsistent' /\ Progress'
  BY <1>1, <1>2 DEF TesterInv, TesterSafe, CompleteUnlessCancelled, ResultsConsistent, Consistent,
                    Progress, Over
<1>. QED
  BY <1>6, <1>7, <1>8, <1>9 DEF TesterInv, TesterSafe

\* A worker that has returned its token leaves the WaitGroup.
LEMMA WgDoneStep ==
  ASSUME TesterInv, NEW i \in Proxies, WgDone(i)
  PROVE  TesterInv'
<1>. USE DEF WgDone, Goto, chanVars, syncVars
<1>1. pc \in [Proxies -> {"idle", "created", "ping", "speed", "sending", "released", "gone"}]
  BY DEF TesterInv, TesterSafe, TypeOK
<1>2. Busy' = Busy /\ Waited' = Waited \ {i} /\ i \in Waited
  BY <1>1 DEF Busy, Waited
<1>3. wg' = Cardinality(Waited') /\ wg' \in 0 .. Count
  <2>1. IsFiniteSet(Waited) /\ Cardinality(Waited) \in Nat /\ Cardinality(Waited') \in 0 .. Count
    BY SomeProxies DEF Waited
  <2>2. Cardinality(Waited') = Cardinality(Waited) - 1
    BY <1>2, <2>1, FS_RemoveElement
  <2>. QED
    BY <2>1, <2>2 DEF TesterInv, Started
<1>4. TypeOK'
  <2>1. pc' \in [Proxies -> {"idle", "created", "ping", "speed", "sending", "released", "gone"}]
    BY <1>1
  <2>. QED
    BY <1>3, <2>1, Zenon DEF TesterInv, TesterSafe, TypeOK
<1>5. AtMostConcurrency' /\ Started'
  BY <1>1, <1>2, <1>3 DEF TesterInv, TesterSafe, AtMostConcurrency, Started
<1>6. Delivery'
  BY <1>1 DEF TesterInv, TesterSafe, TypeOK, Delivery, Over
<1>7. CompleteUnlessCancelled' /\ ResultsConsistent' /\ Progress'
  BY <1>1 DEF TesterInv, TesterSafe, CompleteUnlessCancelled, ResultsConsistent, Consistent,
              Progress, Over
<1>. QED
  BY <1>4, <1>5, <1>6, <1>7 DEF TesterInv, TesterSafe

\* TestSync puts a Result in its place.
LEMMA RangeReceivesStep ==
  ASSUME TesterInv, RangeReceives
  PROVE  TesterInv'
<1>. USE DEF workerVars
<1>1. /\ resultChan \in Seq(Proxies) /\ resultChan # <<>> /\ Len(resultChan) \in Nat \ {0}
      /\ results \in [Proxies -> ResultType] /\ res \in [Proxies -> ResultType]
  BY DEF RangeReceives, TesterInv, TesterSafe, TypeOK
<1>2. PICK i \in Proxies : i = Head(resultChan)
  BY <1>1
<1>3. /\ results' = [results EXCEPT ![i] = res[i]] /\ resultChan' = Tail(resultChan) /\ rpc = "ranging"
      /\ UNCHANGED <<mode, ctxDone, dpc, next, semaphore, wg, workerVars, closed, rpc, panicked>>
  BY <1>2 DEF RangeReceives
<1>4. /\ i = resultChan[1] /\ 1 \in DOMAIN resultChan
      /\ \A k \in DOMAIN resultChan' : k + 1 \in DOMAIN resultChan /\ resultChan'[k] = resultChan[k + 1]
      /\ \A k \in DOMAIN resultChan : k # 1 => k - 1 \in DOMAIN resultChan' /\ resultChan'[k - 1] = resultChan[k]
      /\ DOMAIN resultChan' \subseteq Nat /\ DOMAIN resultChan \subseteq Nat
  BY <1>1, <1>2, <1>3
<1>5. pc[i] \in Over
  BY <1>4 DEF TesterInv, Delivery
<1>6. TypeOK'
  <2>1. resultChan' \in Seq(Proxies) /\ Len(resultChan') <= Count
    BY <1>1, <1>3, TesterAssumption DEF TesterInv, TesterSafe, TypeOK
  <2>2. results' \in [Proxies -> ResultType]
    BY <1>1, <1>3
  <2>. QED
    BY <1>3, <2>1, <2>2, Zenon DEF TesterInv, TesterSafe, TypeOK
<1>7. AtMostConcurrency' /\ Started' /\ Progress'
  BY <1>3 DEF TesterInv, TesterSafe, AtMostConcurrency, Busy, Started, Waited, Progress, Consistent
<1>8. CompleteUnlessCancelled' /\ ResultsConsistent'
  BY <1>1, <1>3, <1>5 DEF TesterInv, TesterSafe, CompleteUnlessCancelled, ResultsConsistent, Consistent,
                          Progress
<1>9. Delivery'
  <2>1. \A k, l \in DOMAIN resultChan' : resultChan'[k] = resultChan'[l] => k = l
    BY <1>4 DEF TesterInv, Delivery
  <2>2. \A k \in DOMAIN resultChan' : pc[resultChan'[k]] \in Over
    BY <1>4 DEF TesterInv, Delivery
  <2>3. ~ctxDone => \A j \in Proxies :
          pc[j] \in Over => results'[j] = res[j] \/ \E k \in DOMAIN resultChan' : resultChan'[k] = j
    <3>. SUFFICES ASSUME ~ctxDone, NEW j \in Proxies, pc[j] \in Over, results'[j] # res[j]
                  PROVE  \E k \in DOMAIN resultChan' : resultChan'[k] = j
      OBVIOUS
    <3>1. j # i /\ results[j] # res[j]
      BY <1>1, <1>3
    <3>2. PICK k \in DOMAIN resultChan : resultChan[k] = j
      BY <3>1 DEF TesterInv, Delivery
    <3>. QED
      BY <1>4, <3>1, <3>2
  <2>4. rpc # "returned"
    BY <1>3
  <2>. QED
    BY <1>3, <2>1, <2>2, <2>3, <2>4 DEF TesterInv, Delivery
<1>. QED
  BY <1>6, <1>7, <1>8, <1>9 DEF TesterInv, TesterSafe

\* TestSync returns when the channel is closed and empty: unless the context is
\* done every worker is gone and its Result is in its place.
LEMMA RangeEndsStep ==
  ASSUME TesterInv, RangeEnds
  PROVE  TesterInv'
<1>. USE DEF RangeEnds, workerVars, chanVars
<1>1. TypeOK'
  BY Zenon DEF TesterInv, TesterSafe, TypeOK
<1>2. ~ctxDone => results = res
  <2>1. ~ctxDone => \A i \in Proxies : results[i] = res[i]
    BY DEF TesterInv, Delivery, Over
  <2>. QED
    BY <2>1 DEF TesterInv, TesterSafe, TypeOK
<1>3. AtMostConcurrency' /\ CompleteUnlessCancelled' /\ ResultsConsistent'
  BY <1>2 DEF TesterInv, TesterSafe, AtMostConcurrency, Busy, CompleteUnlessCancelled,
              ResultsConsistent, Consistent
<1>4. Started' /\ Delivery' /\ Progress'
  BY DEF TesterInv, Started, Waited, Delivery, Progress, Consistent
<1>. QED
  BY <1>1, <1>3, <1>4 DEF TesterInv, TesterSafe

\* The caller cancels, or the process dies: on a send to a closed channel only
\* after the context is done.
LEMMA OutsideStep ==
  ASSUME TesterInv,
         \/ Cancel
         \/ \E i \in Proxies : SpeedTooFast(i) \/ (SendResult(i) /\ closed)
  PROVE  TesterInv'
<1>. USE DEF workerVars, chanVars, syncVars
<1>1. UNCHANGED <<mode, dpc, next, semaphore, wg, workerVars, chanVars, syncVars>>
  BY DEF Cancel, SpeedTooFast, SendResult
<1>2. /\ ctxDone' \in BOOLEAN /\ (ctxDone => ctxDone') /\ (~ctxDone' => UNCHANGED ctxDone)
      /\ panicked' \in {"no", "division", "send"} /\ (panicked' = "send" => ctxDone')
  <2>1. CASE Cancel
    BY <2>1 DEF Cancel, TesterInv, TesterSafe, TypeOK, CompleteUnlessCancelled
  <2>2. CASE \E i \in Proxies : SpeedTooFast(i)
    <3>1. UNCHANGED ctxDone /\ panicked' = "division"
      BY <2>2 DEF SpeedTooFast
    <3>. QED
      BY <3>1, Zenon DEF TesterInv, TesterSafe, TypeOK
  <2>3. CASE \E i \in Proxies : SendResult(i) /\ closed
    <3>1. UNCHANGED ctxDone /\ panicked' = "send" /\ ctxDone
      BY <2>3 DEF SendResult, TesterInv, Delivery
    <3>. QED
      BY <3>1, Zenon DEF TesterInv, TesterSafe, TypeOK
  <2>. QED
    BY <2>1, <2>2, <2>3
<1>3. TypeOK'
  BY <1>1, <1>2, Zenon DEF TesterInv, TesterSafe, TypeOK
<1>4. AtMostConcurrency' /\ CompleteUnlessCancelled' /\ ResultsConsistent'
  BY <1>1, <1>2 DEF TesterInv, TesterSafe, AtMostConcurrency, Busy, CompleteUnlessCancelled,
                    ResultsConsistent, Consistent
<1>5. Started' /\ Delivery' /\ Progress'
  BY <1>1, <1>2 DEF TesterInv, Started, Waited, Delivery, Progress, Consistent
<1>. QED
  BY <1>3, <1>4, <1>5 DEF TesterInv, TesterSafe

\* TestSync of the library, for any number of proxies and any limit: whatever
\* fails or is cancelled, the results are of the mode and in their places, they
\* are complete unless the context is done, and nothing is sent on the closed
\* channel before that.
THEOREM TesterIsSafe == Spec => []TesterSafe
<1>1. Init => TesterInv
  BY TesterInitInd
<1>2. TesterInv /\ [Next]_vars => TesterInv'
  <2>. SUFFICES ASSUME TesterInv, [Next]_vars PROVE TesterInv'
    OBVIOUS
  <2>1. CASE Next
    BY <2>1, TestingStep, SpawnStep, CloseStep, ReleaseStep, WgDoneStep, RangeReceivesStep,
       RangeEndsStep, OutsideStep, Zenon DEF Next, Dispatcher, Sync, Worker
  <2>2. CASE UNCHANGED vars
    <3>. USE <2>2 DEF vars, workerVars, chanVars, syncVars
    <3>1. TypeOK'
      BY Zenon DEF TesterInv, TesterSafe, TypeOK
    <3>. QED
      BY <3>1 DEF TesterInv, TesterSafe, AtMostConcurrency, Busy, CompleteUnlessCancelled,
                  ResultsConsistent, Consistent, Started, Waited, Delivery, Progress
  <2>. QED
    BY <2>1, <2>2
<1>3. TesterInv => TesterSafe
  BY DEF TesterInv
<1>. QED
  BY <1>1, <1>2, <1>3, PTL DEF Spec

-----------------------------------------------------------------------------
\* IpInfo.

LEMMA LeastOfNumbers ==
  ASSUME NEW S \in SUBSET Nat, S # {}
  PROVE  Min(S) \in S /\ \A y \in S : Min(S) <= y
<1>1. PICK x \in S : \A y \in S : ~ (<<y, x>> \in OpToRel(<, Nat))
  BY NatLessThanWellFounded, WFMin, Zenon
<1>2. \A y \in S : <<y, x>> \in Nat \X Nat /\ <<y, x>>[1] = y /\ <<y, x>>[2] = x
  OBVIOUS
<1>3. \A y \in S : ~ (y < x)
  BY <1>1, <1>2, Zenon DEF OpToRel
<1>4. \A y \in S : x <= y
  BY <1>3
<1>. QED
  BY <1>4 DEF Min

\* merge takes each field from the first provider that has it.
LEMMA MergeTakesTheFirst ==
  ASSUME NEW r, NEW f \in Fields \cup {"ip"}
  PROVE  /\ Merge(r)[f] \in Providers \cup {Unknown}
         /\ Merge(r)[f] # Unknown =>
              Has(r[Merge(r)[f]], f) /\ \A j \in Providers : j < Merge(r)[f] => ~Has(r[j], f)
         /\ Merge(r)[f] = Unknown => \A j \in Providers : ~Has(r[j], f)
<1>. DEFINE having == {i \in Providers : Has(r[i], f)}
<1>1. Merge(r)[f] = IF having = {} THEN Unknown ELSE Min(having)
  BY DEF Merge
<1>2. having \in SUBSET Nat /\ Unknown \notin having
  BY ProvidersAssumption
<1>3. CASE having = {}
  BY <1>1, <1>3
<1>4. CASE having # {}
  <2>1. Min(having) \in having /\ \A y \in having : Min(having) <= y
    BY <1>2, <1>4, LeastOfNumbers
  <2>2. \A j \in Providers : j < Min(having) => j \notin having
    BY <1>2, <2>1, ProvidersAssumption
  <2>. QED
    BY <1>1, <1>2, <1>4, <2>1, <2>2
<1>. QED
  BY <1>3, <1>4

LEMMA MergeType ==
  ASSUME NEW r
  PROVE  Merge(r) \in [Fields \cup {"ip"} -> Providers \cup {Unknown}]
<1>1. \A f \in Fields \cup {"ip"} : Merge(r)[f] \in Providers \cup {Unknown}
  BY MergeTakesTheFirst
<1>. QED
  BY <1>1 DEF Merge

LEMMA IpInitInd == IpInit => IpInv
<1>. SUFFICES ASSUME IpInit PROVE IpInv
  OBVIOUS
<1>. USE DEF IpInit
<1>1. Pending \in Fetched \cup {Pending} /\ Nothing \in [Fields \cup {"ip"} -> Providers \cup {Unknown}]
  BY DEF Nothing
<1>2. IpTypeOK
  BY <1>1 DEF IpTypeOK
<1>3. Merged
  <2>1. ASSUME NEW n \in Networks, \A i \in Providers : ipResult[n][i] # Pending
        PROVE  ipMerged[n] = Merge(ipResult[n])
    BY <2>1 DEF Merge, Nothing
  <2>. QED
    BY <2>1 DEF Merged
<1>4. Told
  BY DEF Told
<1>. QED
  BY <1>2, <1>3, <1>4 DEF IpInv

\* The last provider of a family merges what all have said.
LEMMA ProviderStep ==
  ASSUME IpInv, NEW n \in Networks, NEW i \in Providers, NEW info \in Fetched, ProviderFetched(n, i, info)
  PROVE  IpInv'
<1>. USE DEF ProviderFetched
<1>1. IpTypeOK'
  <2>1. ipResult' \in [Networks -> [Providers -> Fetched \cup {Pending}]]
    BY DEF IpInv, IpTypeOK
  <2>2. ipMerged' \in [Networks -> [Fields \cup {"ip"} -> Providers \cup {Unknown}]]
    BY MergeType DEF IpInv, IpTypeOK
  <2>. QED
    BY <2>1, <2>2, Zenon DEF IpInv, IpTypeOK
<1>2. Merged'
  <2>. SUFFICES ASSUME NEW m \in Networks
                PROVE  /\ ipKnown[m] = Nothing
                       /\ (\A j \in Providers : ipResult'[m][j] # Pending) => ipMerged'[m] = Merge(ipResult'[m])
    BY DEF Merged
  <2>1. ipKnown[m] = Nothing
    BY DEF IpInv, Merged
  <2>2. CASE m = n
    BY <2>1, <2>2 DEF IpInv, IpTypeOK
  <2>3. CASE m # n
    BY <2>1, <2>3 DEF IpInv, IpTypeOK, Merged
  <2>. QED
    BY <2>2, <2>3
<1>3. Told'
  BY DEF IpInv, Told, Known
<1>. QED
  BY <1>1, <1>2, <1>3 DEF IpInv

LEMMA LookupStep ==
  ASSUME IpInv, startIPFetch \/ SetKnown \/ WriteIpInfo
  PROVE  IpInv'
<1>1. CASE startIPFetch
  <2>1. IpTypeOK'
    BY <1>1, Zenon DEF startIPFetch, IpInv, IpTypeOK
  <2>. QED
    BY <1>1, <2>1 DEF startIPFetch, IpInv, Merged, Told, Known
<1>2. CASE SetKnown
  <2>. USE <1>2 DEF SetKnown
  <2>1. IpTypeOK'
    BY Zenon DEF IpInv, IpTypeOK
  <2>2. \A n \in Networks : ipKnown[n] = Nothing /\ ipMerged[n] = Merge(ipResult[n])
    BY DEF IpInv, Merged
  <2>3. Merged'
    BY <2>2 DEF Merged
  <2>4. Known(ipKnown) = {}
    BY <2>2 DEF Known, Nothing
  <2>5. Told'
    BY <2>4 DEF IpInv, Told
  <2>. QED
    BY <2>1, <2>3, <2>5 DEF IpInv
<1>3. CASE WriteIpInfo
  <2>. USE <1>3 DEF WriteIpInfo
  <2>1. Known(ipKnown) \subseteq Networks
    BY DEF Known
  <2>2. [written |-> TRUE, families |-> Known(ipKnown)] \in [written : BOOLEAN, families : SUBSET Networks]
    BY <2>1, Zenon
  <2>3. IpTypeOK'
    BY <2>2, Zenon DEF IpInv, IpTypeOK
  <2>4. Merged'
    BY DEF IpInv, Merged
  <2>5. Told'
    BY DEF IpInv, Told, Known
  <2>. QED
    BY <2>3, <2>4, <2>5 DEF IpInv
<1>. QED
  BY <1>1, <1>2, <1>3

LEMMA PictureStep ==
  ASSUME IpInv, RenderPic \/ IpInfoLines
  PROVE  IpInv'
<1>1. UNCHANGED <<ipFetch, ipResult, ipMerged, ipKnown, ipMessage>>
  BY DEF RenderPic, IpInfoLines
<1>2. CASE RenderPic
  <2>1. ipPicture' \in [pc : {"none", "waiting", "drawn"}, timeout : BOOLEAN, lines : SUBSET Networks]
        /\ ipPicture'.pc = "waiting"
    BY <1>2, Zenon DEF RenderPic, IpInv, IpTypeOK
  <2>2. IpTypeOK'
    BY <1>1, <2>1, Zenon DEF IpInv, IpTypeOK
  <2>. QED
    BY <1>1, <2>1, <2>2 DEF IpInv, Merged, Told, Known
<1>3. CASE IpInfoLines
  <2>1. PICK timeout \in BOOLEAN :
          /\ timeout \/ ipFetch = "closed"
          /\ ipPicture' = [pc |-> "drawn", timeout |-> timeout, lines |-> Known(ipKnown)]
    BY <1>3, Zenon DEF IpInfoLines
  <2>2. Known(ipKnown) \subseteq Networks
    BY DEF Known
  <2>3. IpTypeOK'
    BY <1>1, <2>1, <2>2, Zenon DEF IpInv, IpTypeOK
  <2>4. Merged' /\ Told'
    BY <1>1, <2>1 DEF IpInv, Merged, Told, Known
  <2>. QED
    BY <2>3, <2>4 DEF IpInv
<1>. QED
  BY <1>2, <1>3

\* The address lookup, for any list of providers: every known field is that of
\* the first provider of the list that has it, in whatever order they answer,
\* and the picture shows what the page was told, or nothing if it gave up.
THEOREM AddressesAreSafe == IpSpec => []IpSafe
<1>1. IpInit => IpInv
  BY IpInitInd
<1>2. IpInv /\ [IpNext]_ipVars => IpInv'
  <2>. SUFFICES ASSUME IpInv, [IpNext]_ipVars PROVE IpInv'
    OBVIOUS
  <2>1. CASE IpNext
    BY <2>1, ProviderStep, LookupStep, PictureStep, Zenon DEF IpNext
  <2>2. CASE UNCHANGED ipVars
    BY <2>2, Zenon DEF ipVars, IpInv, IpTypeOK, Merged, Told, Known
  <2>. QED
    BY <2>1, <2>2
<1>3. IpInv => IpSafe
  <2>. SUFFICES ASSUME IpInv PROVE IpSafe
    OBVIOUS
  <2>1. MergedByPriority
    BY MergeTakesTheFirst DEF MergedByPriority, IpInv, Merged
  <2>2. PictureAgrees
    BY DEF PictureAgrees, IpInv, Told
  <2>. QED
    BY <2>1, <2>2 DEF IpSafe
<1>. QED
  BY <1>1, <1>2, <1>3, PTL DEF IpSpec

-----------------------------------------------------------------------------
\* DownloadRange: the arithmetic of calcRange.

LEMMA Division ==
  ASSUME NEW a \in Nat, NEW d \in Nat \ {0}
  PROVE  a \div d \in Nat /\ d * (a \div d) <= a /\ a < d * (a \div d) + d
OBVIOUS

LEMMA Multiples ==
  ASSUME NEW q \in Nat, NEW i \in Nat, NEW j \in Nat, i <= j
  PROVE  q * i \in Nat /\ q * i <= q * j /\ q * (i + 1) = q * i + q
OBVIOUS

\* The multiples of q up to b are counted by b \div q.
LEMMA MultiplesUpTo ==
  ASSUME NEW q \in Nat \ {0}, NEW b \in Nat, NEW j \in Nat
  PROVE  q * j <= b <=> j <= b \div q
<1>. DEFINE k == b \div q
<1>1. k \in Nat /\ q * k <= b /\ b < q * k + q
  BY Division
<1>. HIDE DEF k
<1>2. CASE j <= k
  BY <1>1, <1>2, Multiples
<1>3. CASE k + 1 <= j
  BY <1>1, <1>3, Multiples
<1>. QED
  BY <1>1, <1>2, <1>3 DEF k

\* The end of the j-th range, its last byte included.
UpTo(part, len, j) == IF j < part - 1 THEN (len \div part) * (j + 1) - 1 ELSE len - 1

LEMMA RangeOf ==
  ASSUME NEW part \in Nat \ {0}, NEW len \in Nat, NEW j \in 0 .. (part - 1)
  PROVE  /\ (len \div part) * j \in 0 .. len
         /\ UpTo(part, len, j) \in -1 .. len - 1
         /\ Requested(calcRange(part, len)[j], len) = (len \div part) * j .. UpTo(part, len, j)
<1>1. PICK q \in Nat : q = len \div part /\ part * q <= len
  BY Division
<1>2. /\ j \in Nat /\ j + 1 \in Nat /\ part \in Nat
      /\ q * j \in Nat /\ q * j <= q * part /\ q * (j + 1) = q * j + q /\ q * part = part * q
  BY Multiples
<1>3. q * (j + 1) \in Nat /\ q * (j + 1) <= q * part
  BY <1>2, Multiples
<1>4. CASE j < part - 1
  <2>1. /\ calcRange(part, len)[j].from = q * j /\ calcRange(part, len)[j].to = q * (j + 1) - 1
        /\ UpTo(part, len, j) = q * (j + 1) - 1
    BY <1>1, <1>4 DEF calcRange, UpTo
  <2>2. q * (j + 1) - 1 # len
    BY <1>1, <1>2, <1>3
  <2>. QED
    BY <1>1, <1>2, <1>3, <2>1, <2>2 DEF Requested
<1>5. CASE ~ (j < part - 1)
  <2>1. /\ calcRange(part, len)[j].from = q * j /\ calcRange(part, len)[j].to = len
        /\ UpTo(part, len, j) = len - 1
    BY <1>1, <1>5 DEF calcRange, UpTo
  <2>. QED
    BY <1>1, <1>2, <1>3, <2>1 DEF Requested
<1>. QED
  BY <1>4, <1>5

\* Each byte of a file with at least as many bytes as parts is in one range.
LEMMA Owner ==
  ASSUME NEW part \in Nat \ {0}, NEW len \in Nat, part <= len, NEW b \in 0 .. (len - 1)
  PROVE  \E w \in 0 .. (part - 1) : \A j \in 0 .. (part - 1) :
           b \in Requested(calcRange(part, len)[j], len) <=> j = w
<1>1. PICK q \in Nat \ {0} : q = len \div part
  <2>1. len \div part # 0
    BY Division
  <2>. QED
    BY <2>1, Division
<1>2. PICK k \in Nat : k = b \div q
  BY <1>1, Division
<1>3. PICK w \in 0 .. (part - 1) : w = IF k < part - 1 THEN k ELSE part - 1
  BY <1>2
<1>4. ASSUME NEW j \in 0 .. (part - 1)
      PROVE  b \in Requested(calcRange(part, len)[j], len) <=> j = w
  <2>1. (q * j <= b <=> j <= k) /\ (q * (j + 1) <= b <=> j + 1 <= k)
    BY <1>2, MultiplesUpTo
  <2>2. Requested(calcRange(part, len)[j], len) = q * j .. UpTo(part, len, j)
    BY <1>1, RangeOf
  <2>3. CASE j < part - 1
    <3>1. UpTo(part, len, j) = q * (j + 1) - 1
      BY <1>1, <2>3 DEF UpTo
    <3>2. q * j \in Int /\ q * (j + 1) \in Int
      OBVIOUS
    <3>3. b \in Requested(calcRange(part, len)[j], len) <=> q * j <= b /\ ~ (q * (j + 1) <= b)
      BY <2>2, <3>1, <3>2
    <3>. QED
      BY <1>2, <1>3, <2>1, <2>3, <3>3
  <2>4. CASE ~ (j < part - 1)
    <3>1. UpTo(part, len, j) = len - 1
      BY <2>4 DEF UpTo
    <3>2. q * j \in Int
      OBVIOUS
    <3>3. b \in Requested(calcRange(part, len)[j], len) <=> q * j <= b
      BY <2>2, <3>1, <3>2
    <3>. QED
      BY <1>2, <1>3, <2>1, <2>4, <3>3
  <2>. QED
    BY <2>3, <2>4
<1>. QED
  BY <1>4

\* How many bytes a range has.
LEMMA RangeSize ==
  ASSUME NEW part \in Nat \ {0}, NEW len \in Nat, NEW j \in 0 .. (part - 1)
  PROVE  LET n == Cardinality(Requested(calcRange(part, len)[j], len)) IN
         /\ n \in 0 .. len
         /\ n = IF (len \div part) * j > UpTo(part, len, j) THEN 0
                ELSE UpTo(part, len, j) - (len \div part) * j + 1
<1>1. PICK lo, hi : lo = (len \div part) * j /\ hi = UpTo(part, len, j)
  OBVIOUS
<1>a. /\ lo \in 0 .. len /\ hi \in -1 .. len - 1
      /\ Requested(calcRange(part, len)[j], len) = lo .. hi
  BY <1>1, RangeOf, Zenon
<1>2. Cardinality(lo .. hi) = IF lo > hi THEN 0 ELSE hi - lo + 1
  <2>1. lo \in Int /\ hi \in Int
    BY <1>a
  <2>. QED
    BY <2>1, FS_Interval
<1>. QED
  BY <1>1, <1>2, <1>a

\* The bytes of the file, one by one, are those of the parts.
LEMMA BytesOfTheParts ==
  ASSUME NEW part \in Nat \ {0}, NEW len \in Nat, part <= len, NEW R,
         R = {b \in (0 .. (part - 1)) \X (1 .. len) :
                b[2] <= Cardinality(Requested(calcRange(part, len)[b[1]], len))}
  PROVE  IsFiniteSet(R) /\ Cardinality(R) = len
<1>. DEFINE lo(w) == (len \div part) * w
            req(w) == Requested(calcRange(part, len)[w], len)
            g == [b \in R |-> lo(b[1]) + b[2] - 1]
<1>1. ASSUME NEW w \in 0 .. (part - 1)
      PROVE  /\ lo(w) \in Nat
             /\ \A k \in 1 .. len : k <= Cardinality(req(w)) => lo(w) + k - 1 \in req(w)
             /\ \A b \in req(w) : b \in 0 .. (len - 1) /\ b - lo(w) + 1 \in 1 .. Cardinality(req(w))
             /\ Cardinality(req(w)) \in 0 .. len
  <2>1. PICK l, hi : l = lo(w) /\ hi = UpTo(part, len, w)
    OBVIOUS
  <2>2. l \in 0 .. len /\ hi \in -1 .. len - 1 /\ req(w) = l .. hi
    BY <2>1, RangeOf, Zenon
  <2>3. PICK n \in 0 .. len : n = Cardinality(req(w)) /\ n = IF l > hi THEN 0 ELSE hi - l + 1
    BY <2>1, RangeSize
  <2>. HIDE DEF lo, req
  <2>4. lo(w) \in Nat /\ Cardinality(req(w)) \in 0 .. len
    BY <2>1, <2>2, <2>3
  <2>5. ASSUME NEW k \in 1 .. len, k <= Cardinality(req(w)) PROVE lo(w) + k - 1 \in req(w)
    <3>1. k <= n
      BY <2>3, <2>5
    <3>2. l + k - 1 \in l .. hi
      BY <2>2, <2>3, <3>1
    <3>. QED
      BY <2>1, <2>2, <3>2
  <2>6. ASSUME NEW b \in req(w)
        PROVE  b \in 0 .. (len - 1) /\ b - lo(w) + 1 \in 1 .. Cardinality(req(w))
    <3>1. b \in l .. hi
      BY <2>2, <2>6
    <3>2. b \in 0 .. (len - 1) /\ b - l + 1 \in 1 .. n
      BY <2>2, <2>3, <3>1
    <3>. QED
      BY <2>1, <2>3, <3>2
  <2>. QED
    BY <2>4, <2>5, <2>6
<1>2. \A b \in R : b[1] \in 0 .. (part - 1) /\ b[2] \in 1 .. len /\ b = <<b[1], b[2]>>
                   /\ b[2] <= Cardinality(req(b[1]))
  OBVIOUS
<1>3. \A b \in R : g[b] \in req(b[1]) /\ g[b] \in 0 .. (len - 1)
  BY <1>1, <1>2
<1>. HIDE DEF req
<1>4. ASSUME NEW a \in R, NEW b \in R, g[a] = g[b] PROVE a = b
  <2>1. a[1] = b[1]
    <3>1. PICK o \in 0 .. (part - 1) : \A j \in 0 .. (part - 1) :
            g[a] \in Requested(calcRange(part, len)[j], len) <=> j = o
      BY <1>3, Owner
    <3>. QED
      BY <1>2, <1>3, <1>4, <3>1 DEF req
  <2>2. lo(a[1]) \in Nat
    BY <1>1, <1>2
  <2>. QED
    BY <1>2, <1>4, <2>1, <2>2
<1>5. ASSUME NEW t \in 0 .. (len - 1) PROVE \E b \in R : g[b] = t
  <2>1. PICK w \in 0 .. (part - 1) : t \in req(w)
    BY Owner DEF req
  <2>2. PICK k \in 1 .. Cardinality(req(w)) : k = t - lo(w) + 1
    BY <1>1, <2>1
  <2>3. k \in 1 .. len
    BY <1>1, <2>2
  <2>4. <<w, k>> \in R
    <3>1. <<w, k>> \in (0 .. (part - 1)) \X (1 .. len) /\ <<w, k>>[1] = w /\ <<w, k>>[2] = k
      BY <2>3
    <3>2. k <= Cardinality(req(w))
      BY <1>1, <2>2
    <3>. QED
      BY <3>1, <3>2, Zenon DEF req
  <2>5. g[<<w, k>>] = lo(w) + k - 1
    BY <2>4
  <2>6. lo(w) + k - 1 = t
    <3>1. lo(w) \in Nat
      BY <1>1
    <3>. HIDE DEF lo
    <3>. QED
      BY <2>2, <3>1
  <2>. QED
    BY <2>4, <2>5, <2>6
<1>6. g \in Bijection(R, 0 .. (len - 1))
  <2>1. g \in [R -> 0 .. (len - 1)]
    BY <1>3
  <2>2. \A a, b \in R : g[a] = g[b] => a = b
    BY <1>4
  <2>3. \A t \in 0 .. (len - 1) : \E b \in R : g[b] = t
    BY <1>5
  <2>. HIDE DEF g
  <2>. QED
    BY <2>1, <2>2, <2>3 DEF Bijection, Injection, Surjection, IsInjective
<1>7. IsFiniteSet(0 .. (len - 1)) /\ Cardinality(0 .. (len - 1)) = len
  BY FS_Interval
<1>8. ExistsBijection(0 .. (len - 1), R)
  BY <1>6, Fun_BijInverse DEF ExistsBijection
<1>. QED
  BY <1>7, <1>8, FS_Bijection

\* Reporting moves the bytes from lo + 1 to hi of a range.
LEMMA BytesOfOneReport ==
  ASSUME NEW w, NEW lo \in Nat, NEW hi \in Nat, lo <= hi
  PROVE  IsFiniteSet({w} \X ((lo + 1) .. hi)) /\ Cardinality({w} \X ((lo + 1) .. hi)) = hi - lo
<1>. DEFINE g == [k \in (lo + 1) .. hi |-> <<w, k>>]
<1>1. g \in Bijection((lo + 1) .. hi, {w} \X ((lo + 1) .. hi))
  BY Fun_IsBij
<1>2. IsFiniteSet((lo + 1) .. hi) /\ Cardinality((lo + 1) .. hi) = hi - lo
  <2>1. lo + 1 \in Int /\ hi \in Int
    OBVIOUS
  <2>2. /\ IsFiniteSet((lo + 1) .. hi)
        /\ Cardinality((lo + 1) .. hi) = IF lo + 1 > hi THEN 0 ELSE hi - (lo + 1) + 1
    BY <2>1, FS_Interval, Zenon
  <2>. QED
    BY <2>2
<1>. QED
  BY <1>1, <1>2, FS_Bijection DEF ExistsBijection

\* What the invariant says of the ranges and of a worker.
WorkerType ==
  [pc : {"off", "request", "begin", "read", "report", "error", "ended"},
   read : Nat, total : Nat, er : {"none", "EOF", "failed"}]

LEMMA RangesKnown ==
  ASSUME DrInv, drRanges # << >>
  PROVE  \E part \in 1 .. DrMaxParts :
           /\ drRanges = calcRange(part, drLength) /\ DOMAIN drRanges = 0 .. (part - 1)
           /\ DOMAIN drRanges \subseteq Parts
<1>1. PICK part \in 1 .. DrMaxParts : drRanges = calcRange(part, drLength)
  BY DEF DrInv, Ranges
<1>2. DOMAIN drRanges = 0 .. (part - 1)
  BY <1>1 DEF calcRange
<1>3. 0 .. (part - 1) \subseteq Parts
  BY DrAssumption DEF Parts
<1>. QED
  BY <1>1, <1>2, <1>3

LEMMA WorkerFacts ==
  ASSUME DrInv, NEW w \in Parts
  PROVE  /\ drWorker[w] \in WorkerType /\ drLength \in Nat /\ drLength <= DrMaxLength
         /\ w \in DOMAIN drRanges => Size(w) \in 0 .. drLength
         /\ drWorker[w].total <= drWorker[w].read /\ drWorker[w].read <= drLength
         /\ drWorker[w].pc # "off" => w \in DOMAIN drRanges /\ Worked(w)
<1>1. drWorker[w] \in WorkerType /\ drLength \in Nat /\ drLength <= DrMaxLength
  BY DrAssumption DEF DrInv, DrTypeOK, WorkerType
<1>2. w \in DOMAIN drRanges => Size(w) \in 0 .. drLength
  <2>. SUFFICES ASSUME w \in DOMAIN drRanges PROVE Size(w) \in 0 .. drLength
    OBVIOUS
  <2>1. PICK part \in 1 .. DrMaxParts :
          drRanges = calcRange(part, drLength) /\ DOMAIN drRanges = 0 .. (part - 1)
    BY RangesKnown
  <2>. QED
    <3>1. part \in Nat \ {0} /\ w \in 0 .. (part - 1)
      BY <2>1, DrAssumption
    <3>2. Cardinality(Requested(calcRange(part, drLength)[w], drLength)) \in 0 .. drLength
      BY <1>1, <3>1, RangeSize, Zenon
    <3>. QED
      BY <2>1, <3>2 DEF Size
<1>3. CASE w \in DOMAIN drRanges
  BY <1>1, <1>2, <1>3 DEF DrInv, Worked, WorkerType
<1>4. CASE w \notin DOMAIN drRanges
  BY <1>1, <1>4 DEF DrInv, WorkerOff
<1>. QED
  BY <1>1, <1>2, <1>3, <1>4

LEMMA ReportedFinite == IsFiniteSet(Reported) /\ Cardinality(Reported) \in Nat
<1>1. 0 \in Int /\ DrMaxParts - 1 \in Int /\ 1 \in Int /\ DrMaxLength \in Int
  BY DrAssumption
<1>2. IsFiniteSet(Parts) /\ IsFiniteSet(1 .. DrMaxLength)
  BY <1>1, FS_Interval DEF Parts
<1>3. IsFiniteSet(Parts \X (1 .. DrMaxLength))
  BY <1>2, FS_Product
<1>. QED
  BY <1>3, FS_Subset, FS_CardinalityType DEF Reported

\* A worker goes on without reporting.
LEMMA WorkerGoesOn ==
  ASSUME DrInv, NEW w \in Parts, NEW v \in WorkerType,
         drWorker[w].pc \notin {"off", "ended"}, drWorker' = [drWorker EXCEPT ![w] = v],
         v.read - v.total = drWorker[w].read - drWorker[w].total,
         UNCHANGED <<drLength, drRanges, drCtxDone>>, drStart' \in BOOLEAN,
         drCaller' = drCaller \/ (drCaller.pc = "loop" /\ drCaller' = [drCaller EXCEPT !.error = TRUE]),
         w \in DOMAIN drRanges => Worked(w)'
  PROVE  DrInv'
<1>1. w \in DOMAIN drRanges /\ drCaller.pc # "done"
  BY WorkerFacts DEF DrInv
<1>2. /\ drWorker \in [Parts -> WorkerType]
      /\ drCaller \in [pc : {"idle", "loop", "done", "timeout"}, started : BOOLEAN, sum : Nat, sent : Nat,
                       max : Nat, error : BOOLEAN]
  BY Zenon DEF DrInv, DrTypeOK, WorkerType
<1>3. /\ drCaller' \in [pc : {"idle", "loop", "done", "timeout"}, started : BOOLEAN, sum : Nat, sent : Nat,
                        max : Nat, error : BOOLEAN]
      /\ drCaller'.pc = drCaller.pc /\ drCaller'.sum = drCaller.sum /\ drCaller'.sent = drCaller.sent
      /\ drCaller.error => drCaller'.error
  BY <1>2
<1>4. DrTypeOK'
  <2>1. drWorker' \in [Parts -> WorkerType]
    BY <1>2
  <2>. QED
    BY <1>3, <2>1, Zenon DEF DrInv, DrTypeOK, WorkerType
<1>5. Reported' = Reported
  BY <1>2 DEF Reported
<1>6. BytesAccounted'
  BY <1>3, <1>5 DEF DrInv, BytesAccounted
<1>7. \A u \in Parts : IF u \in DOMAIN drRanges THEN Worked(u)' ELSE drWorker'[u] = WorkerOff
  BY <1>1, <1>2, <1>3 DEF DrInv, Worked, Size
<1>8. /\ drCaller'.pc = "done" => \A u \in DOMAIN drRanges' : drWorker'[u].pc = "ended"
      /\ drCaller'.pc = "timeout" => drCtxDone'
  BY <1>1, <1>3 DEF DrInv
<1>9. Ranges'
  BY <1>3 DEF DrInv, Ranges
<1>. QED
  BY <1>4, <1>6, <1>7, <1>8, <1>9 DEF DrInv

LEMMA WorkerStep ==
  ASSUME DrInv, NEW w \in Parts, DrRequest(w) \/ DrBegin(w) \/ DrRead(w) \/ DrReceiveError(w)
  PROVE  DrInv'
<1>1. /\ drWorker \in [Parts -> WorkerType] /\ drStart \in BOOLEAN
      /\ drWorker[w] \in WorkerType /\ drWorker[w].pc \notin {"off", "ended"}
      /\ w \in DOMAIN drRanges /\ Worked(w) /\ Size(w) \in Nat
      /\ drWorker[w].total <= drWorker[w].read
  <2>1. drWorker[w].pc \notin {"off", "ended"}
    BY DEF DrRequest, DrBegin, DrRead, DrReceiveError
  <2>2. drWorker \in [Parts -> WorkerType] /\ drStart \in BOOLEAN
    BY Zenon DEF DrInv, DrTypeOK, WorkerType
  <2>. QED
    BY <2>1, <2>2, WorkerFacts
<1>2. UNCHANGED <<drLength, drRanges, drCtxDone>>
  BY DEF DrRequest, DrBegin, DrRead, DrReceiveError
<1>3. CASE DrRequest(w)
  <2>1. PICK to \in {"begin", "error"} : drWorker' = [drWorker EXCEPT ![w].pc = to]
    BY <1>3 DEF DrRequest
  <2>2. PICK v \in WorkerType : v = [drWorker[w] EXCEPT !.pc = to]
    BY <1>1 DEF WorkerType
  <2>3. /\ v.read = drWorker[w].read /\ v.total = drWorker[w].total /\ v.er = drWorker[w].er
        /\ v.pc \in {"begin", "error"}
    BY <1>1, <2>2 DEF WorkerType
  <2>4. drWorker' = [drWorker EXCEPT ![w] = v]
    BY <1>1, <2>1, <2>2
  <2>5. Worked(w)'
    <3>1. drWorker'[w] = v /\ Size(w)' = Size(w)
      BY <1>1, <1>2, <2>4 DEF Size
    <3>. QED
      BY <1>1, <1>3, <2>3, <3>1 DEF Worked, DrRequest
  <2>. QED
    BY <1>1, <1>2, <1>3, <2>3, <2>4, <2>5, WorkerGoesOn DEF DrRequest
<1>4. CASE DrBegin(w)
  <2>1. PICK v \in WorkerType : v = [drWorker[w] EXCEPT !.pc = "read"]
    BY <1>1 DEF WorkerType
  <2>2. /\ v.read = drWorker[w].read /\ v.total = drWorker[w].total /\ v.er = drWorker[w].er
        /\ v.pc = "read"
    BY <1>1, <2>1 DEF WorkerType
  <2>3. drWorker' = [drWorker EXCEPT ![w] = v]
    BY <1>1, <1>4, <2>1 DEF DrBegin
  <2>4. Worked(w)'
    <3>1. drWorker'[w] = v /\ Size(w)' = Size(w)
      BY <1>1, <1>2, <2>3 DEF Size
    <3>. QED
      BY <1>1, <1>4, <2>2, <3>1 DEF Worked, DrBegin
  <2>. QED
    BY <1>1, <1>2, <1>4, <2>2, <2>3, <2>4, WorkerGoesOn DEF DrBegin
<1>5. CASE DrRead(w)
  <2>1. drWorker[w].pc = "read" /\ UNCHANGED <<drStart, drCaller>> /\ drWorker[w].er = "none"
    BY <1>1, <1>5 DEF DrRead, Worked
  <2>2. CASE drCtxDone /\ drWorker' = [drWorker EXCEPT ![w].pc = "ended"]
    <3>1. PICK v \in WorkerType : v = [drWorker[w] EXCEPT !.pc = "ended"]
      BY <1>1 DEF WorkerType
    <3>2. /\ v.read = drWorker[w].read /\ v.total = drWorker[w].total /\ v.er = drWorker[w].er
          /\ v.pc = "ended"
      BY <1>1, <3>1 DEF WorkerType
    <3>3. drWorker' = [drWorker EXCEPT ![w] = v]
      BY <1>1, <2>2, <3>1
    <3>4. Worked(w)'
      BY <1>1, <1>2, <2>1, <2>2, <3>2, <3>3 DEF Worked, Size
    <3>. QED
      BY <1>1, <1>2, <2>1, <3>2, <3>3, <3>4, WorkerGoesOn
  <2>3. CASE /\ Size(w) - drWorker[w].read > 0
             /\ \E report \in BOOLEAN :
                  drWorker' = [drWorker EXCEPT ![w].read = @ + 1, ![w].total = @ + 1,
                                               ![w].pc = IF report THEN "report" ELSE "read"]
    <3>1. PICK to \in {"report", "read"} :
            drWorker' = [drWorker EXCEPT ![w].read = @ + 1, ![w].total = @ + 1, ![w].pc = to]
      BY <2>3
    <3>a. drWorker[w].read + 1 \in Nat /\ drWorker[w].total + 1 \in Nat
      BY <1>1 DEF WorkerType
    <3>2. PICK v \in WorkerType : v = [drWorker[w] EXCEPT !.read = @ + 1, !.total = @ + 1, !.pc = to]
      BY <1>1, <3>a DEF WorkerType
    <3>3. /\ v.read = drWorker[w].read + 1 /\ v.total = drWorker[w].total + 1
          /\ v.er = drWorker[w].er /\ v.pc \in {"report", "read"}
      BY <1>1, <3>2 DEF WorkerType
    <3>4. drWorker' = [drWorker EXCEPT ![w] = v]
      BY <1>1, <3>1, <3>2
    <3>5. drWorker[w].read \in Nat /\ drWorker[w].total \in Nat
      BY <1>1 DEF WorkerType
    <3>6. Worked(w)'
      <4>1. drWorker'[w] = v /\ Size(w)' = Size(w)
        BY <1>1, <1>2, <3>4 DEF Size
      <4>. QED
        BY <1>1, <2>1, <2>3, <3>3, <3>5, <4>1 DEF Worked
    <3>7. v.read - v.total = drWorker[w].read - drWorker[w].total
      BY <3>3, <3>5
    <3>. QED
      BY <1>1, <1>2, <2>1, <3>4, <3>6, <3>7, WorkerGoesOn
  <2>4. CASE \E er \in IF Size(w) - drWorker[w].read = 0 THEN {"EOF"} ELSE {"failed"} :
               drWorker' = [drWorker EXCEPT ![w].er = er, ![w].pc = "report"]
    <3>1. PICK er \in {"EOF", "failed"} :
            /\ drWorker' = [drWorker EXCEPT ![w].er = er, ![w].pc = "report"]
            /\ er = "EOF" => Size(w) - drWorker[w].read = 0
      BY <2>4
    <3>2. PICK v \in WorkerType : v = [drWorker[w] EXCEPT !.er = er, !.pc = "report"]
      BY <1>1 DEF WorkerType
    <3>3. /\ v.read = drWorker[w].read /\ v.total = drWorker[w].total
          /\ v.er = er /\ v.pc = "report"
      BY <1>1, <3>2 DEF WorkerType
    <3>4. drWorker' = [drWorker EXCEPT ![w] = v]
      BY <1>1, <3>1, <3>2
    <3>5. drWorker[w].read \in Nat
      BY <1>1 DEF WorkerType
    <3>6. Worked(w)'
      <4>1. drWorker'[w] = v /\ Size(w)' = Size(w)
        BY <1>1, <1>2, <3>4 DEF Size
      <4>. QED
        BY <1>1, <2>1, <3>1, <3>3, <3>5, <4>1 DEF Worked
    <3>. QED
      BY <1>1, <1>2, <2>1, <3>3, <3>4, <3>6, WorkerGoesOn
  <2>. QED
    BY <1>5, <2>2, <2>3, <2>4 DEF DrRead, Size
<1>6. CASE DrReceiveError(w)
  <2>. USE <1>6 DEF DrReceiveError, InLoop
  <2>1. PICK v \in WorkerType : v = [drWorker[w] EXCEPT !.pc = "ended"]
    BY <1>1 DEF WorkerType
  <2>2. /\ v.read = drWorker[w].read /\ v.total = drWorker[w].total /\ v.er = drWorker[w].er
        /\ v.pc = "ended"
    BY <1>1, <2>1 DEF WorkerType
  <2>3. drWorker' = [drWorker EXCEPT ![w] = v]
    BY <1>1, <2>1
  <2>4. drCaller'.error
    BY DEF DrInv, DrTypeOK
  <2>5. Worked(w)'
    BY <1>1, <1>2, <2>2, <2>3, <2>4 DEF Worked, Size
  <2>. QED
    BY <1>1, <1>2, <2>2, <2>3, <2>5, WorkerGoesOn
<1>. QED
  BY <1>3, <1>4, <1>5, <1>6

\* The caller receives what a worker has read since its last report.
LEMMA ReceiveTotalStep ==
  ASSUME DrInv, NEW w \in Parts, DrReceiveTotal(w)
  PROVE  DrInv'
<1>. USE DEF DrReceiveTotal, InLoop
<1>1. /\ drWorker \in [Parts -> WorkerType] /\ drWorker[w] \in WorkerType
      /\ w \in DOMAIN drRanges /\ Worked(w) /\ Size(w) \in 0 .. drLength
      /\ drLength \in Nat /\ drLength <= DrMaxLength
  <2>1. drWorker \in [Parts -> WorkerType]
    BY Zenon DEF DrInv, DrTypeOK, WorkerType
  <2>. QED
    BY <2>1, WorkerFacts
<1>2. PICK lo \in Nat, hi \in Nat :
        /\ hi = drWorker[w].read /\ lo = hi - drWorker[w].total /\ lo <= hi /\ hi <= DrMaxLength
  BY <1>1, DrAssumption DEF Worked, WorkerType
<1>3. PICK v \in WorkerType :
        /\ drWorker' = [drWorker EXCEPT ![w] = v]
        /\ v.read = drWorker[w].read /\ v.total = 0 /\ v.er = drWorker[w].er
        /\ v.pc \in {"ended", "error", "read"}
        /\ v.pc = "ended" => v.er = "EOF"
        /\ v.pc = "read" => v.er = "none"
  <2>1. PICK to : to = CASE drWorker[w].er = "EOF" -> "ended" [] drWorker[w].er = "failed" -> "error"
                         [] OTHER -> "read"
    OBVIOUS
  <2>2. drWorker' = [drWorker EXCEPT ![w] = [drWorker[w] EXCEPT !.total = 0, !.pc = to]]
    BY <1>1, <2>1
  <2>3. to \in {"ended", "error", "read"} /\ (to = "ended" => drWorker[w].er = "EOF")
        /\ (to = "read" => drWorker[w].er = "none")
    BY <1>1, <2>1 DEF WorkerType
  <2>4. PICK v \in WorkerType : v = [drWorker[w] EXCEPT !.total = 0, !.pc = to]
    BY <1>1, <2>3 DEF WorkerType
  <2>5. v.read = drWorker[w].read /\ v.total = 0 /\ v.er = drWorker[w].er /\ v.pc = to
    BY <1>1, <2>4 DEF WorkerType
  <2>. QED
    BY <2>2, <2>3, <2>4, <2>5
<1>4. /\ drCaller' \in [pc : {"idle", "loop", "done", "timeout"}, started : BOOLEAN, sum : Nat, sent : Nat,
                        max : Nat, error : BOOLEAN]
      /\ drCaller'.pc = "loop" /\ drCaller.pc = "loop" /\ drCaller'.sent = drCaller.sent
      /\ drCaller'.sum = drCaller.sum + (hi - lo) /\ drCaller'.error = drCaller.error
  <2>1. drCaller' = [drCaller EXCEPT !.sum = @ + drWorker[w].total] /\ drWorker[w].total \in Nat
        /\ drWorker[w].total = hi - lo
    BY <1>1, <1>2 DEF WorkerType
  <2>. QED
    BY <2>1 DEF DrInv, DrTypeOK
<1>5. Reported' = Reported \cup ({w} \X ((lo + 1) .. hi)) /\ Reported \cap ({w} \X ((lo + 1) .. hi)) = {}
  <2>1. \A u \in Parts : u # w => drWorker'[u] = drWorker[u]
    BY <1>1, <1>3
  <2>2. drWorker'[w] = v /\ v.read - v.total = hi /\ drWorker[w].read - drWorker[w].total = lo
    BY <1>1, <1>2, <1>3 DEF WorkerType
  <2>3. \A b \in Parts \X (1 .. DrMaxLength) :
          b \in Reported' <=> IF b[1] = w THEN b[2] <= hi ELSE b \in Reported
    BY <2>1, <2>2 DEF Reported
  <2>4. \A b \in Parts \X (1 .. DrMaxLength) : b[1] = w => (b \in Reported <=> b[2] <= lo)
    BY <2>2 DEF Reported
  <2>5. {w} \X ((lo + 1) .. hi) = {b \in Parts \X (1 .. DrMaxLength) : b[1] = w /\ lo < b[2] /\ b[2] <= hi}
    BY <1>2, DrAssumption
  <2>6. Reported \subseteq Parts \X (1 .. DrMaxLength) /\ Reported' \subseteq Parts \X (1 .. DrMaxLength)
    BY DEF Reported
  <2>7. \A b \in Parts \X (1 .. DrMaxLength) : b[2] \in Nat
    BY DrAssumption
  <2>. QED
    BY <1>2, <2>3, <2>4, <2>5, <2>6, <2>7
<1>6. BytesAccounted'
  <2>1. /\ IsFiniteSet({w} \X ((lo + 1) .. hi)) /\ Cardinality({w} \X ((lo + 1) .. hi)) = hi - lo
    BY <1>2, BytesOfOneReport
  <2>2. Cardinality(Reported') = Cardinality(Reported) + (hi - lo)
    <3>1. Cardinality(Reported') = Cardinality(Reported) + Cardinality({w} \X ((lo + 1) .. hi)) - Cardinality({})
      BY <1>5, <2>1, ReportedFinite, FS_Union
    <3>. QED
      BY <2>1, <3>1, ReportedFinite, FS_EmptySet
  <2>3. drCaller.sum \in Nat /\ drCaller.sent \in Nat
    BY DEF DrInv, DrTypeOK
  <2>. QED
    BY <1>4, <2>2, <2>3, ReportedFinite DEF DrInv, BytesAccounted
<1>7. DrTypeOK'
  <2>1. drWorker' \in [Parts -> WorkerType]
    BY <1>1, <1>3
  <2>. QED
    BY <1>4, <2>1, Zenon DEF DrInv, DrTypeOK, WorkerType
<1>8. \A u \in Parts : IF u \in DOMAIN drRanges THEN Worked(u)' ELSE drWorker'[u] = WorkerOff
  <2>1. Worked(w)'
    BY <1>1, <1>3, <1>4 DEF Worked, Size, WorkerType
  <2>. QED
    BY <1>1, <1>3, <1>4, <2>1 DEF DrInv, Worked, Size
<1>9. Ranges'
  BY <1>4 DEF DrInv, Ranges
<1>. QED
  BY <1>4, <1>6, <1>7, <1>8, <1>9 DEF DrInv

CallerType ==
  [pc : {"idle", "loop", "done", "timeout"}, started : BOOLEAN, sum : Nat, sent : Nat, max : Nat,
   error : BOOLEAN]

LEMMA DrInitInd == DrInit => DrInv
<1>. SUFFICES ASSUME DrInit PROVE DrInv
  OBVIOUS
<1>. USE DEF DrInit
<1>1. DrTypeOK
  <2>1. drLength \in 0 .. DrMaxLength
    BY DrAssumption
  <2>2. WorkerOff \in WorkerType /\ Caller0 \in CallerType
    BY DEF WorkerOff, WorkerType, Caller0, CallerType
  <2>. QED
    BY <2>1, <2>2, Zenon DEF DrTypeOK, WorkerType, CallerType
<1>2. Reported = {}
  BY DEF Reported, WorkerOff
<1>3. BytesAccounted /\ Ranges
  BY <1>2, FS_EmptySet DEF BytesAccounted, Ranges, Caller0
<1>. QED
  BY <1>1, <1>3 DEF DrInv, Caller0

\* A call makes the ranges of its parts and starts their workers.
LEMMA CallStep ==
  ASSUME DrInv, NEW part \in 1 .. DrMaxParts, NEW len \in 0 .. DrMaxLength, DrCall(part, len)
  PROVE  DrInv'
<1>. USE DEF DrCall
<1>1. /\ drRanges = << >> /\ drCaller \in CallerType /\ drCaller.pc = "idle"
      /\ drCaller' = [drCaller EXCEPT !.pc = "loop"]
      /\ part \in Nat \ {0} /\ len \in Nat
  BY DrAssumption DEF DrInv, DrTypeOK, Ranges, CallerType
<1>2. /\ drCaller' \in CallerType /\ drCaller'.pc = "loop"
      /\ drCaller'.sum = drCaller.sum /\ drCaller'.sent = drCaller.sent
  BY <1>1 DEF CallerType
<1>3. \A w \in Parts : drWorker[w] = WorkerOff
  BY <1>1 DEF DrInv
<1>4. \A w \in Parts :
        /\ drWorker'[w] \in WorkerType
        /\ drWorker'[w].read = 0 /\ drWorker'[w].total = 0 /\ drWorker'[w].er = "none"
        /\ IF w < part THEN drWorker'[w].pc = "request" ELSE drWorker'[w] = WorkerOff
  BY DEF WorkerOff, WorkerType
<1>5. DrTypeOK'
  <2>1. drWorker' \in [Parts -> WorkerType]
    BY <1>4
  <2>. QED
    BY <1>2, <2>1, Zenon DEF DrInv, DrTypeOK, WorkerType, CallerType
<1>6. Reported = {} /\ Reported' = {}
  <2>1. \A w \in Parts : drWorker[w].read = 0 /\ drWorker[w].total = 0
    BY <1>3 DEF WorkerOff
  <2>. QED
    BY <1>4, <2>1, DrAssumption DEF Reported
<1>7. BytesAccounted'
  BY <1>2, <1>6 DEF DrInv, BytesAccounted
<1>8. Ranges'
  BY <1>2 DEF Ranges
<1>9. \A w \in Parts : IF w \in DOMAIN drRanges' THEN Worked(w)' ELSE drWorker'[w] = WorkerOff
  <2>. SUFFICES ASSUME NEW w \in Parts
                PROVE  IF w \in DOMAIN drRanges' THEN Worked(w)' ELSE drWorker'[w] = WorkerOff
    OBVIOUS
  <2>1. DOMAIN drRanges' = 0 .. (part - 1)
    BY DEF calcRange
  <2>2. w \in DOMAIN drRanges' <=> w < part
    BY <1>1, <2>1, DrAssumption DEF Parts
  <2>3. CASE w < part
    <3>1. Cardinality(Requested(calcRange(part, len)[w], len)) \in 0 .. len
      BY <1>1, <2>1, <2>2, <2>3, RangeSize, Zenon
    <3>2. Size(w)' \in Nat
      BY <3>1 DEF Size
    <3>3. /\ drWorker'[w].read = 0 /\ drWorker'[w].total = 0 /\ drWorker'[w].er = "none"
          /\ drWorker'[w].pc = "request"
      BY <1>4, <2>3
    <3>4. Worked(w)'
      BY <3>2, <3>3 DEF Worked
    <3>. QED
      BY <2>2, <2>3, <3>4
  <2>4. CASE ~ (w < part)
    <3>1. drWorker'[w] = WorkerOff
      BY <1>4, <2>4
    <3>. QED
      BY <2>2, <2>4, <3>1
  <2>. QED
    BY <2>3, <2>4
<1>. QED
  BY <1>2, <1>5, <1>7, <1>8, <1>9 DEF DrInv

LEMMA LargerOfTwo ==
  ASSUME NEW a \in Nat, NEW b \in Nat
  PROVE  Max({a, b}) \in Nat
<1>1. \E x \in {a, b} : \A y \in {a, b} : x >= y
  OBVIOUS
<1>2. Max({a, b}) \in {a, b}
  BY <1>1, Zenon DEF Max
<1>. QED
  BY <1>2

\* What the caller takes besides, and the end of the context.
LEMMA CallerStep ==
  ASSUME DrInv, DrCtxEnds \/ DrReceiveStart \/ DrReport \/ DrDone \/ DrTimeout
  PROVE  DrInv'
<1>. USE DEF InLoop
<1>1. UNCHANGED <<drLength, drRanges, drWorker>> /\ drCaller.pc = "loop" /\ drCaller \in CallerType
  BY DEF DrCtxEnds, DrReceiveStart, DrReport, DrDone, DrTimeout, DrInv, DrTypeOK, CallerType
<1>2. drCtxDone' \in BOOLEAN /\ (drCtxDone => drCtxDone') /\ drStart' \in BOOLEAN
  BY Zenon DEF DrCtxEnds, DrReceiveStart, DrReport, DrDone, DrTimeout, DrInv, DrTypeOK
<1>3. /\ drCaller' \in CallerType /\ drCaller'.pc # "idle"
      /\ drCaller'.sum + drCaller'.sent = drCaller.sum + drCaller.sent
      /\ drCaller'.error = drCaller.error \/ drCtxDone
      /\ drCaller'.pc = "done" => \A w \in DOMAIN drRanges : drWorker[w].pc = "ended"
      /\ drCaller'.pc = "timeout" => drCtxDone
  <2>1. CASE DrCtxEnds
    BY <1>1, <2>1 DEF DrCtxEnds
  <2>2. CASE DrReceiveStart
    BY <1>1, <2>2 DEF DrReceiveStart, CallerType
  <2>3. CASE DrReport
    <3>1. drCaller.sum \in Nat /\ drCaller.sent \in Nat /\ drCaller.max \in Nat
      BY <1>1 DEF CallerType
    <3>2. drCaller.sent + drCaller.sum \in Nat /\ Max({drCaller.max, drCaller.sum}) \in Nat
      BY <3>1, LargerOfTwo
    <3>3. drCaller' = [drCaller EXCEPT !.sent = drCaller.sent + drCaller.sum, !.sum = 0,
                                       !.max = Max({drCaller.max, drCaller.sum})]
      BY <2>3 DEF DrReport
    <3>4. drCaller' \in CallerType
      BY <1>1, <3>2, <3>3 DEF CallerType
    <3>5. /\ drCaller'.sent = drCaller.sent + drCaller.sum /\ drCaller'.sum = 0
          /\ drCaller'.pc = "loop" /\ drCaller'.error = drCaller.error
      BY <1>1, <3>3 DEF CallerType
    <3>. QED
      BY <3>1, <3>4, <3>5
  <2>4. CASE DrDone
    BY <1>1, <2>4 DEF DrDone, CallerType
  <2>5. CASE DrTimeout
    BY <1>1, <2>5 DEF DrTimeout, CallerType
  <2>. QED
    BY <2>1, <2>2, <2>3, <2>4, <2>5
<1>4. DrTypeOK'
  BY <1>1, <1>2, <1>3, Zenon DEF DrInv, DrTypeOK, CallerType
<1>5. BytesAccounted'
  BY <1>1, <1>3 DEF DrInv, BytesAccounted, Reported
<1>6. Ranges'
  BY <1>1, <1>3 DEF DrInv, Ranges
<1>7. \A w \in Parts : IF w \in DOMAIN drRanges' THEN Worked(w)' ELSE drWorker'[w] = WorkerOff
  BY <1>1, <1>2, <1>3 DEF DrInv, Worked, Size
<1>. QED
  BY <1>1, <1>2, <1>3, <1>4, <1>5, <1>6, <1>7 DEF DrInv

\* The invariant gives the promises of a range download.
LEMMA DrInvIsEnough ==
  ASSUME DrInv
  PROVE  DrSafe
<1>1. EachByteOnce
  <2>. SUFFICES ASSUME Cardinality(DOMAIN drRanges) <= drLength, NEW b \in 0 .. (drLength - 1)
                PROVE  Cardinality({w \in DOMAIN drRanges : b \in Requested(drRanges[w], drLength)}) = 1
    BY DEF EachByteOnce
  <2>1. drLength \in Nat /\ drLength > 0
    BY DrAssumption DEF DrInv, DrTypeOK
  <2>2. drRanges # << >>
    <3>1. drRanges = << >> => drLength = 0
      <4>1. ASSUME NEW part \in 1 .. DrMaxParts, drRanges = calcRange(part, drLength)
            PROVE  0 \in DOMAIN drRanges
        BY <4>1, DrAssumption DEF calcRange
      <4>2. 0 \notin DOMAIN << >>
        OBVIOUS
      <4>. QED
        BY <4>1, <4>2 DEF DrInv, Ranges
    <3>. QED
      BY <2>1, <3>1
  <2>3. PICK part \in 1 .. DrMaxParts :
          drRanges = calcRange(part, drLength) /\ DOMAIN drRanges = 0 .. (part - 1)
    BY <2>2, RangesKnown
  <2>4. part \in Nat \ {0} /\ part <= drLength
    <3>1. part \in Nat \ {0} /\ 0 \in Int /\ part - 1 \in Int
      BY DrAssumption
    <3>2. Cardinality(0 .. (part - 1)) = part
      BY <3>1, FS_Interval
    <3>. QED
      BY <2>3, <3>1, <3>2
  <2>5. PICK o \in 0 .. (part - 1) : \A j \in 0 .. (part - 1) :
          b \in Requested(calcRange(part, drLength)[j], drLength) <=> j = o
    BY <2>1, <2>4, Owner
  <2>6. {w \in DOMAIN drRanges : b \in Requested(drRanges[w], drLength)} = {o}
    BY <2>3, <2>5
  <2>. QED
    BY <2>6, FS_Singleton
<1>2. BytesAccounted
  BY DEF DrInv
<1>3. DoneMeansAll
  <2>. SUFFICES ASSUME drCaller.pc = "done"
                PROVE  /\ \A w \in DOMAIN drRanges : drWorker[w].pc = "ended"
                       /\ ~drCaller.error /\ ~drCtxDone /\ drLength >= Cardinality(DOMAIN drRanges) =>
                            drCaller.sum + drCaller.sent = drLength
    BY DEF DoneMeansAll
  <2>1. \A w \in DOMAIN drRanges : drWorker[w].pc = "ended"
    BY DEF DrInv
  <2>2. ASSUME ~drCaller.error, ~drCtxDone, drLength >= Cardinality(DOMAIN drRanges)
        PROVE  drCaller.sum + drCaller.sent = drLength
    <3>1. PICK part \in 1 .. DrMaxParts : drRanges = calcRange(part, drLength)
      BY DEF DrInv, Ranges
    <3>2. DOMAIN drRanges = 0 .. (part - 1) /\ 0 .. (part - 1) \subseteq Parts
      BY <3>1, DrAssumption DEF calcRange, Parts
    <3>3. drLength \in Nat /\ drLength <= DrMaxLength /\ part \in Nat \ {0} /\ part <= drLength
      <4>1. part \in Nat \ {0} /\ 0 \in Int /\ part - 1 \in Int /\ drLength \in Nat /\ drLength <= DrMaxLength
        BY DrAssumption DEF DrInv, DrTypeOK
      <4>2. Cardinality(0 .. (part - 1)) = part
        BY <4>1, FS_Interval
      <4>. QED
        BY <2>2, <3>2, <4>1, <4>2
    <3>4. \A w \in 0 .. (part - 1) :
            drWorker[w].read - drWorker[w].total = Cardinality(Requested(calcRange(part, drLength)[w], drLength))
      <4>. SUFFICES ASSUME NEW w \in 0 .. (part - 1)
                    PROVE  drWorker[w].read - drWorker[w].total = Size(w)
        BY <3>1 DEF Size
      <4>1. drWorker[w].read = Size(w) /\ drWorker[w].total = 0 /\ Size(w) \in Nat
        BY <2>1, <2>2, <3>2, WorkerFacts DEF DrInv, Worked
      <4>. QED
        BY <4>1
    <3>5. \A w \in Parts : w \notin 0 .. (part - 1) => drWorker[w].read - drWorker[w].total = 0
      BY <3>2 DEF DrInv, WorkerOff
    <3>6. \A w \in 0 .. (part - 1) :
            Cardinality(Requested(calcRange(part, drLength)[w], drLength)) \in 0 .. drLength
      BY <3>3, RangeSize, Zenon
    <3>7. Reported = {b \in (0 .. (part - 1)) \X (1 .. drLength) :
                        b[2] <= Cardinality(Requested(calcRange(part, drLength)[b[1]], drLength))}
      <4>1. \A w \in Parts, k \in 1 .. DrMaxLength :
              <<w, k>> \in Reported <=>
                /\ w \in 0 .. (part - 1) /\ k \in 1 .. drLength
                /\ k <= Cardinality(Requested(calcRange(part, drLength)[w], drLength))
        BY <3>3, <3>4, <3>5, <3>6, DrAssumption DEF Reported
      <4>2. 1 .. drLength \subseteq 1 .. DrMaxLength
        BY <3>3, DrAssumption
      <4>. QED
        BY <3>2, <4>1, <4>2 DEF Reported
    <3>. QED
      BY <3>3, <3>7, BytesOfTheParts DEF DrInv, BytesAccounted
  <2>. QED
    BY <2>1, <2>2
<1>4. LeftBehindByTimeout
  <2>. SUFFICES ASSUME NEW w \in Parts, drWorker[w].pc \in {"begin", "report", "error"}, ~InLoop
                PROVE  drCaller.pc = "timeout"
    BY DEF LeftBehindByTimeout
  <2>1. w \in DOMAIN drRanges
    BY WorkerFacts
  <2>2. drCaller.pc # "done" /\ drCaller.pc # "idle"
    BY <2>1 DEF DrInv, Ranges
  <2>. QED
    BY <2>2 DEF InLoop, DrInv, DrTypeOK
<1>. QED
  BY <1>1, <1>2, <1>3, <1>4 DEF DrSafe

\* A range download, for any number of parts and any length: every byte is
\* requested once, none that a worker reports is lost, a download that ends with
\* all its workers and no error has the whole file, and a worker is left waiting
\* only by a timeout.
THEOREM RangeDownloadIsSafe == DrSpec => []DrSafe
<1>1. DrInit => DrInv
  BY DrInitInd
<1>2. DrInv /\ [DrNext]_drVars => DrInv'
  <2>. SUFFICES ASSUME DrInv, [DrNext]_drVars PROVE DrInv'
    OBVIOUS
  <2>1. CASE DrNext
    BY <2>1, CallStep, WorkerStep, ReceiveTotalStep, CallerStep, Zenon DEF DrNext, DrRuns
  <2>2. CASE UNCHANGED drVars
    <3>. USE <2>2 DEF drVars
    <3>1. DrTypeOK'
      BY Zenon DEF DrInv, DrTypeOK
    <3>. QED
      BY <3>1 DEF DrInv, BytesAccounted, Reported, Ranges, Worked, Size
  <2>. QED
    BY <2>1, <2>2
<1>3. DrInv => DrSafe
  BY DrInvIsEnough
<1>. QED
  BY <1>1, <1>2, <1>3, PTL DEF DrSpec
=============================================================================
