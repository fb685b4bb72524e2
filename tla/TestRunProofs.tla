--------------------------- MODULE TestRunProofs ---------------------------
(***************************************************************************)
(* Proofs about module TestRun for every number of links, every            *)
(* concurrency and every set of requests.  The argument is one inductive   *)
(* invariant, CountInv: the two counters wg and guard and the channel        *)
(* nodeChan each count a set of goroutines, so the bound on tests, the     *)
(* room in the channel and the end of the collecting loop follow from      *)
(* cardinalities of sets of goroutines.                                    *)
(***************************************************************************)
EXTENDS TestRun, TestOneProofs

-----------------------------------------------------------------------------
LEMMA InitCount == Init => CountInv
<1>. SUFFICES ASSUME Init PROVE CountInv
  OBVIOUS
<1>. USE DEF Init, TestInit
<1>1. Holding = {} /\ Testing = {} /\ Sent = {}
  BY DEF Holding, Testing, Sent, HasSent, InTest, BeforeSend
<1>2. Cardinality({}) = 0
  BY FS_EmptySet
<1>3. TypeOK
  <2>1. NoNode \in NodeType
    BY CountsAssumption DEF NodeType, NoNode
  <2>2. nodes \in [Links -> NodeType] /\ summary \in [traffic: Nat, success: Nat]
    BY <2>1
  <2>3. pc \in [Links -> Places] /\ traffic \in [Links -> Nat]
        /\ ping \in [Links -> PingOutcomes \cup {"none"}]
    BY DEF Places, InTest, BeforeSend
  <2>4. log \in [Links -> Seq(Messages)] /\ nodeChan \in Seq(NodeType)
    <3>1. <<>> \in Seq(Messages) /\ <<>> \in Seq(NodeType)
      OBVIOUS
    <3>. QED
      BY <3>1
  <2>5. next \in 0 .. LinksCount /\ got \in 0 .. LinksCount
    BY CountsAssumption
  <2>6. TestTypeOK
    BY <2>3, <2>4 DEF TestTypeOK
  <2>. QED
    BY <2>2, <2>5, <2>6 DEF TypeOK
<1>4. SlotsCounted
  BY <1>1, <1>2, CountsAssumption DEF SlotsCounted
<1>5. AwaitedCounted
  BY <1>1, <1>2 DEF AwaitedCounted
<1>6. NodesCounted
  BY <1>1, <1>2 DEF NodesCounted
<1>7. StartedInOrder /\ AfterEof /\ Selecting
  BY CountsAssumption DEF StartedInOrder, AfterEof, Selecting, Links
<1>8. Admitted /\ PastParser
  BY DEF Admitted, PastParser, BeforeSend
<1>. QED
  BY <1>3, <1>4, <1>5, <1>6, <1>7, <1>8 DEF CountInv

\* The invariant gives a step of testOne what it relies on: an id to report
\* under, and a WaitGroup that still counts it.
LEMMA InTestFacts ==
  ASSUME CountInv, dpc # "panicked", NEW i \in Links, pc[i] \in InTest
  PROVE  IdOf(i) \in Nat /\ wg > 0 /\ dpc \notin {"collect", "returned"}
<1>1. IdOf(i) \in Nat
  <2>1. job.ids \in Seq(Nat) /\ HasId(i)
    BY JobsAssumption DEF CountInv, TypeOK, TestTypeOK, JobType, Admitted, InTest, BeforeSend
  <2>2. i \in Nat
    BY CountsAssumption DEF Links
  <2>. QED
    BY <2>1, <2>2 DEF IdOf, HasId
<1>2. Cardinality(Testing) > 0 /\ Cardinality(Testing) \in Nat
  BY Member, SetsOfLinks DEF Testing
<1>3. wg > 0
  BY <1>2 DEF CountInv, AwaitedCounted
<1>4. dpc \notin {"collect", "returned"}
  BY DEF CountInv, AfterEof
<1>. QED
  BY <1>1, <1>3, <1>4

\* A step of goroutine i inside testOne.
LEMMA TestSteps ==
  ASSUME CountInv, dpc # "panicked", NEW i \in Links, TestOneStep(i), UNCHANGED runVars
  PROVE  CountInv'
<1>. USE DEF runVars
<1>1. IdOf(i) \in Nat /\ wg > 0 /\ dpc \notin {"collect", "returned"}
  BY StepInTest, InTestFacts
<1>2. Kept
  BY <1>1, WorkerStep DEF CountInv, TypeOK
<1>3. TypeOK' /\ PastParser'
  BY <1>2 DEF Kept, CountInv, TypeOK
<1>4. SlotsCounted'
  BY <1>2 DEF Kept, Balanced, CountInv, SlotsCounted
<1>5. /\ Cardinality(Testing) \in Nat /\ Cardinality(Testing') \in Nat
      /\ Cardinality(Sent) \in Nat /\ Cardinality(Sent') \in Nat
  BY SetsOfLinks DEF Testing, Sent
<1>6. /\ wg \in Nat /\ wg' \in Nat /\ got \in Nat
      /\ Len(nodeChan) \in Nat /\ Len(nodeChan') \in Nat
  BY <1>3 DEF CountInv, TypeOK, TestTypeOK
<1>7. AwaitedCounted'
  <2>1. wg' - Cardinality(Testing') = wg - Cardinality(Testing) /\ dpc' = dpc
    BY <1>2 DEF Kept, Balanced
  <2>2. wg = Cardinality(Testing) + (IF dpc \in {"select", "cancelled"} THEN 1 ELSE 0)
    BY DEF CountInv, AwaitedCounted
  <2>3. wg' = Cardinality(Testing') + (IF dpc \in {"select", "cancelled"} THEN 1 ELSE 0)
    BY <1>5, <1>6, <2>1, <2>2
  <2>. QED
    BY <2>1, <2>3 DEF AwaitedCounted
<1>8. NodesCounted'
  <2>1. /\ Len(nodeChan') - Cardinality(Sent') = Len(nodeChan) - Cardinality(Sent)
        /\ got' = got /\ dpc' = dpc
    BY <1>2 DEF Kept, Balanced
  <2>2. Len(nodeChan) + got = Cardinality(Sent)
    BY DEF CountInv, NodesCounted
  <2>3. Len(nodeChan') + got = Cardinality(Sent')
    BY <1>5, <1>6, <2>1, <2>2
  <2>. QED
    BY <2>1, <2>3 DEF NodesCounted
<1>9. StartedInOrder' /\ Selecting' /\ Admitted'
  BY <1>2 DEF Kept, Balanced, CountInv, StartedInOrder, Selecting, Admitted, HasId
<1>10. AfterEof'
  BY <1>1 DEF AfterEof
<1>. QED
  BY <1>3, <1>4, <1>7, <1>8, <1>9, <1>10 DEF CountInv

\* The two statements after testOne: endone is written, then the token of the
\* semaphore is taken back.
LEMMA EndSteps ==
  ASSUME CountInv, dpc # "panicked", NEW i \in Links, WriteEndone(i) \/ Release(i)
  PROVE  CountInv'
<1>. USE DEF runVars, Goto
<1>1. CASE WriteEndone(i)
  <2>. USE <1>1 DEF WriteEndone
  <2>1. pc' \in [Links -> Places] /\ log' \in [Links -> Seq(Messages)]
    BY SayType DEF CountInv, TypeOK, TestTypeOK, Places, Messages
  <2>2. TypeOK'
    BY <2>1 DEF CountInv, TypeOK, TestTypeOK
  <2>3. Holding' = Holding /\ Testing' = Testing /\ Sent' = Sent
    BY DEF CountInv, TypeOK, TestTypeOK, Holding, Testing, Sent, HasSent, Parses, InTest, BeforeSend
  <2>4. SlotsCounted' /\ AwaitedCounted' /\ NodesCounted'
    BY <2>3 DEF CountInv, SlotsCounted, AwaitedCounted, NodesCounted
  <2>5. StartedInOrder' /\ AfterEof' /\ Selecting' /\ Admitted' /\ PastParser'
    BY DEF CountInv, TypeOK, TestTypeOK, StartedInOrder, AfterEof, Selecting, Admitted,
           PastParser, HasId, Parses, InTest, BeforeSend
  <2>. QED
    BY <2>2, <2>4, <2>5 DEF CountInv
<1>2. CASE Release(i)
  <2>. USE <1>2 DEF Release
  <2>1. pc' \in [Links -> Places]
    BY DEF CountInv, TypeOK, TestTypeOK, Places
  <2>2. Holding' = Holding \ {i} /\ i \in Holding
    BY DEF CountInv, TypeOK, TestTypeOK, Holding
  <2>3. Cardinality(Holding') = Cardinality(Holding) - 1
    BY <2>2, Leaves DEF Holding
  <2>4. SlotsCounted' /\ guard' \in Nat
    <3>1. Cardinality(Holding) \in Nat /\ Cardinality(Holding') \in Nat
      BY SetsOfLinks DEF Holding
    <3>. QED
      BY <2>3, <3>1, CountsAssumption DEF CountInv, TypeOK, TestTypeOK, SlotsCounted
  <2>5. TypeOK'
    BY <2>1, <2>4 DEF CountInv, TypeOK, TestTypeOK
  <2>6. Testing' = Testing /\ Sent' = Sent
    BY DEF CountInv, TypeOK, TestTypeOK, Testing, Sent, HasSent, Parses, InTest, BeforeSend
  <2>7. AwaitedCounted' /\ NodesCounted'
    BY <2>6 DEF CountInv, AwaitedCounted, NodesCounted
  <2>8. StartedInOrder' /\ AfterEof' /\ Selecting' /\ Admitted' /\ PastParser'
    BY DEF CountInv, TypeOK, TestTypeOK, StartedInOrder, AfterEof, Selecting, Admitted,
           PastParser, HasId, Parses, InTest, BeforeSend
  <2>. QED
    BY <2>4, <2>5, <2>7, <2>8 DEF CountInv
<1>. QED
  BY <1>1, <1>2

-----------------------------------------------------------------------------
\* The dispatcher's own steps, and cancellation.
LEMMA DispatcherSteps ==
  ASSUME CountInv, dpc # "panicked", Dispatcher \/ Cancel
  PROVE  CountInv'
<1>. USE DEF testVars, workerVars, runVars
<1>0. /\ TypeOK /\ SlotsCounted /\ StartedInOrder /\ AwaitedCounted
      /\ NodesCounted /\ AfterEof /\ Selecting /\ Admitted /\ PastParser
  BY DEF CountInv
<1>1. CASE AddOne
  <2>. USE <1>0, <1>1 DEF AddOne
  <2>1. TypeOK'
    BY DEF TypeOK, TestTypeOK
  <2>2. Holding' = Holding /\ Testing' = Testing /\ Sent' = Sent
    BY DEF Holding, Testing, Sent, HasSent, Parses
  <2>3. Cardinality(Testing) \in Nat /\ Cardinality(Sent) \in Nat
    BY SetsOfLinks DEF Testing, Sent
  <2>4. SlotsCounted' /\ AwaitedCounted'
    BY <2>2, <2>3 DEF SlotsCounted, AwaitedCounted
  <2>6. NodesCounted'
    BY <2>2, <2>3 DEF NodesCounted, TypeOK, TestTypeOK
  <2>5. StartedInOrder' /\ AfterEof' /\ Selecting' /\ Admitted' /\ PastParser'
    BY DEF StartedInOrder, AfterEof, Selecting, Admitted, PastParser, HasId, Parses, TypeOK
  <2>. QED
    BY <2>1, <2>4, <2>5, <2>6 DEF CountInv
<1>2. CASE Spawn
  <2>. USE <1>0, <1>2 DEF Spawn
  <2>0. next \in Links /\ pc[next] = "idle" /\ next' \in 0 .. LinksCount
    BY CountsAssumption DEF Selecting, StartedInOrder, TypeOK, Links
  <2>1. pc' \in [Links -> Places]
    BY <2>0 DEF TypeOK, TestTypeOK, Places, InTest, BeforeSend
  <2>2. TypeOK'
    BY <2>0, <2>1 DEF TypeOK, TestTypeOK
  <2>3. /\ Holding' = Holding \cup {next} /\ next \notin Holding
        /\ Testing' = Testing \cup {next} /\ next \notin Testing
        /\ Sent' = Sent
    BY <2>0 DEF TypeOK, TestTypeOK, Holding, Testing, Sent, HasSent, Parses, InTest, BeforeSend
  <2>4. /\ Cardinality(Holding') = Cardinality(Holding) + 1
        /\ Cardinality(Testing') = Cardinality(Testing) + 1
        /\ Cardinality(Testing) \in Nat
    BY <2>0, <2>3, Joins, SetsOfLinks DEF Holding, Testing
  <2>5. SlotsCounted'
    BY <2>4, CountsAssumption DEF SlotsCounted, TypeOK, TestTypeOK
  <2>6. AwaitedCounted'
    BY <2>4 DEF AwaitedCounted
  <2>7. NodesCounted'
    BY <2>3 DEF NodesCounted
  <2>8. StartedInOrder'
    BY <2>0 DEF StartedInOrder, TypeOK, TestTypeOK, Links
  <2>9. AfterEof' /\ Selecting' /\ Admitted' /\ PastParser'
    BY <2>0 DEF AfterEof, Selecting, Admitted, PastParser, HasId, Parses, TypeOK, TestTypeOK,
                BeforeSend
  <2>. QED
    BY <2>2, <2>5, <2>6, <2>7, <2>8, <2>9 DEF CountInv
<1>3. CASE GiveUp
  <2>. USE <1>0, <1>3 DEF GiveUp
  <2>1. TypeOK'
    BY DEF TypeOK, TestTypeOK
  <2>2. SlotsCounted' /\ AwaitedCounted' /\ NodesCounted'
    BY DEF SlotsCounted, AwaitedCounted, NodesCounted, Holding, Testing, Sent, HasSent, Parses
  <2>3. StartedInOrder' /\ AfterEof' /\ Selecting' /\ Admitted' /\ PastParser'
    BY DEF StartedInOrder, AfterEof, Selecting, Admitted, PastParser, HasId, Parses
  <2>. QED
    BY <2>1, <2>2, <2>3 DEF CountInv
<1>4. CASE WriteEof
  <2>. USE <1>0, <1>4 DEF WriteEof
  <2>1. TypeOK'
    BY DEF TypeOK, TestTypeOK
  <2>2. SlotsCounted' /\ AwaitedCounted' /\ NodesCounted'
    BY DEF SlotsCounted, AwaitedCounted, NodesCounted, Holding, Testing, Sent, HasSent, Parses
  <2>3. Testing = {}
    <3>1. Cardinality(Testing) = 0 /\ IsFiniteSet(Testing)
      BY SetsOfLinks DEF AwaitedCounted, Testing
    <3>. QED
      BY <3>1, FS_EmptySet
  <2>4. AfterEof'
    BY <2>3 DEF AfterEof, Testing
  <2>5. StartedInOrder' /\ Selecting' /\ Admitted' /\ PastParser'
    BY DEF StartedInOrder, Selecting, Admitted, PastParser, HasId, Parses
  <2>. QED
    BY <2>1, <2>2, <2>4, <2>5 DEF CountInv
<1>5. CASE Collect
  <2>. USE <1>0, <1>5 DEF Collect
  <2>0. /\ Head(nodeChan) \in NodeType /\ Tail(nodeChan) \in Seq(NodeType)
        /\ Len(nodeChan') = Len(nodeChan) - 1 /\ Len(nodeChan) \in Nat
    BY DEF TypeOK, TestTypeOK
  <2>1. TypeOK'
    <3>1. nodeChan' \in Seq(NodeType)
      BY <2>0
    <3>2. got' \in 0 .. LinksCount
      BY CountsAssumption DEF TypeOK
    <3>3. nodes' \in [Links -> NodeType]
      BY <2>0 DEF TypeOK
    <3>4. summary' \in [traffic: Nat, success: Nat]
      BY <2>0 DEF TypeOK, NodeType
    <3>5. dpc' \in {"collect", "panicked"}
      OBVIOUS
    <3>. QED
      BY <3>1, <3>2, <3>3, <3>4, <3>5 DEF TypeOK, TestTypeOK
  <2>2. Holding' = Holding /\ Testing' = Testing /\ Sent' = Sent
    BY DEF Holding, Testing, Sent, HasSent, Parses
  <2>3. SlotsCounted'
    BY <2>2 DEF SlotsCounted
  <2>4. AwaitedCounted'
    BY <2>2 DEF AwaitedCounted
  <2>5. NodesCounted'
    BY <2>0, <2>2 DEF NodesCounted, TypeOK
  <2>6. StartedInOrder' /\ AfterEof' /\ Selecting' /\ Admitted' /\ PastParser'
    BY DEF StartedInOrder, AfterEof, Selecting, Admitted, PastParser, HasId, Parses
  <2>. QED
    BY <2>1, <2>3, <2>4, <2>5, <2>6 DEF CountInv
<1>6. CASE Return
  <2>. USE <1>0, <1>6 DEF Return
  <2>1. TypeOK'
    BY DEF TypeOK, TestTypeOK
  <2>2. SlotsCounted' /\ AwaitedCounted' /\ NodesCounted'
    BY DEF SlotsCounted, AwaitedCounted, NodesCounted, Holding, Testing, Sent, HasSent, Parses
  <2>3. StartedInOrder' /\ AfterEof' /\ Selecting' /\ Admitted' /\ PastParser'
    BY DEF StartedInOrder, AfterEof, Selecting, Admitted, PastParser, HasId, Parses
  <2>. QED
    BY <2>1, <2>2, <2>3 DEF CountInv
<1>7. CASE Cancel
  <2>. USE <1>0, <1>7 DEF Cancel
  <2>1. TypeOK'
    BY DEF TypeOK, TestTypeOK
  <2>2. SlotsCounted' /\ AwaitedCounted' /\ NodesCounted'
    BY DEF SlotsCounted, AwaitedCounted, NodesCounted, Holding, Testing, Sent, HasSent, Parses
  <2>3. StartedInOrder' /\ AfterEof' /\ Selecting' /\ Admitted' /\ PastParser'
    BY DEF StartedInOrder, AfterEof, Selecting, Admitted, PastParser, HasId, Parses
  <2>. QED
    BY <2>1, <2>2, <2>3 DEF CountInv
<1>. QED
  BY <1>1, <1>2, <1>3, <1>4, <1>5, <1>6, <1>7 DEF Dispatcher

LEMMA StepCount == CountInv /\ [Next]_vars => CountInv'
<1>. SUFFICES ASSUME CountInv, [Next]_vars PROVE CountInv'
  OBVIOUS
<1>1. CASE UNCHANGED vars
  BY <1>1 DEF vars, testVars, workerVars, runVars, CountInv, TypeOK, TestTypeOK, SlotsCounted,
              StartedInOrder, AwaitedCounted, NodesCounted, AfterEof, Selecting, Admitted,
              PastParser, Holding, Testing, Sent, HasSent, HasId, Parses
<1>2. CASE Next
  <2>1. dpc # "panicked"
    BY <1>2 DEF Next
  <2>2. CASE Dispatcher \/ Cancel
    BY <2>1, <2>2, DispatcherSteps
  <2>3. ASSUME NEW i \in Links, Goroutine(i)
        PROVE  CountInv'
    BY <2>1, <2>3, TestSteps, EndSteps DEF Goroutine
  <2>. QED
    BY <1>2, <2>2, <2>3 DEF Next
<1>. QED
  BY <1>1, <1>2


-----------------------------------------------------------------------------
\* The ledger.  The Nodes in the channel have distinct senders, and the report
\* is right about all other goroutines that have sent.

\* What is filed stays right while no goroutine of S changes its measurement.
LEMMA FiledStays ==
  ASSUME NEW S, S \subseteq Sent, Filed(S), SentStays,
         UNCHANGED <<job, nodes, summary>>
  PROVE  Filed(S)'
<1>1. Bytes(S)' = Bytes(S)
  BY DEF Bytes, SentStays
<1>2. Succeeded(S)' = Succeeded(S)
  BY DEF Succeeded, SentStays
<1>3. DistinctIds' = DistinctIds /\ \A i \in Links : IdOf(i)' = IdOf(i)
  BY DEF DistinctIds, HasId, IdOf
<1>4. \A i \in S : NodeOf(i)' = NodeOf(i) /\ i \in Links
  BY DEF SentStays, Sent
<1>. QED
  BY <1>1, <1>2, <1>3, <1>4 DEF Filed

LEMMA LedgerStays ==
  ASSUME Ledger, dpc # "panicked", SentStays, Sent' = Sent,
         UNCHANGED <<job, nodeChan, nodes, summary>>
  PROVE  Ledger'
<1>1. PICK w \in [1 .. Len(nodeChan) -> Links], done \in SUBSET Links :
        /\ Senders(w) /\ done = Sent \ {w[k] : k \in 1 .. Len(nodeChan)}
        /\ Filed(done)
  BY DEF Ledger
<1>2. Filed(done)'
  BY <1>1, FiledStays
<1>3. \A k \in 1 .. Len(nodeChan) : w[k] \in Sent
  BY <1>1 DEF Senders, Sent
<1>4. Senders(w)'
  BY <1>1, <1>3 DEF Senders, SentStays
<1>. QED
  BY <1>1, <1>2, <1>4 DEF Ledger

\* A Node is sent: its sender joins the senders.
LEMMA LedgerSend ==
  ASSUME TypeOK, Ledger, dpc # "panicked", SentStays, NEW i \in Links, SendsOwnNode(i),
         NodeOf(i)' = NodeOf(i), UNCHANGED <<job, nodes, summary>>
  PROVE  Ledger'
<1>0. PICK n \in Nat : n = Len(nodeChan)
  BY DEF TypeOK, TestTypeOK
<1>1. Len(nodeChan') = n + 1 /\ nodeChan'[n + 1] = NodeOf(i)
      /\ \A k \in 1 .. n : nodeChan'[k] = nodeChan[k]
  BY <1>0 DEF TypeOK, TestTypeOK, SendsOwnNode
<1>2. PICK w \in [1 .. n -> Links], done \in SUBSET Links :
        /\ Senders(w) /\ done = Sent \ {w[k] : k \in 1 .. n}
        /\ Filed(done)
  BY <1>0 DEF Ledger
<1>3. PICK v \in [1 .. n + 1 -> Links] : v[n + 1] = i /\ \A k \in 1 .. n : v[k] = w[k]
  <2>. DEFINE u == [k \in 1 .. n + 1 |-> IF k = n + 1 THEN i ELSE w[k]]
  <2>1. u \in [1 .. n + 1 -> Links] /\ u[n + 1] = i /\ \A k \in 1 .. n : u[k] = w[k]
    BY <1>0
  <2>. QED
    BY <2>1
<1>4. \A k \in 1 .. n : w[k] \in Sent /\ w[k] # i
  BY <1>0, <1>2 DEF Senders, Sent, SendsOwnNode
<1>5. Sent' = Sent \cup {i} /\ i \notin Sent /\ HasSent(i)'
  BY DEF SendsOwnNode, Sent
<1>6. \A k \in 1 .. n + 1 : k \in 1 .. n \/ k = n + 1
  OBVIOUS
<1>7. Senders(v)'
  <2>1. \A k \in 1 .. n : HasSent(v[k])' /\ nodeChan'[k] = NodeOf(v[k])'
    BY <1>0, <1>1, <1>2, <1>3, <1>4 DEF Senders, SentStays
  <2>2. HasSent(v[n + 1])' /\ nodeChan'[n + 1] = NodeOf(v[n + 1])'
    BY <1>1, <1>3, <1>5
  <2>3. \A k, l \in 1 .. n + 1 : v[k] = v[l] => k = l
    BY <1>0, <1>2, <1>3, <1>4, <1>6 DEF Senders
  <2>. QED
    BY <1>1, <1>6, <2>1, <2>2, <2>3 DEF Senders
<1>8. done = Sent' \ {v[k] : k \in 1 .. n + 1}
  BY <1>2, <1>3, <1>4, <1>5, <1>6
<1>9. Filed(done)'
  BY <1>2, FiledStays
<1>. QED
  BY <1>1, <1>7, <1>8, <1>9 DEF Ledger

\* Filing the Node of one more goroutine.
LEMMA NodeTraffic ==
  ASSUME TypeOK, Measured, NEW i \in Links, HasSent(i)
  PROVE  NodeOf(i).traffic = traffic[i] /\ traffic[i] <= MaxSamples /\ NodeOf(i).id = IdOf(i)
BY DEF Measured, MeasuredAt, NodeOf, PingNode, SpeedNode

LEMMA SuccessOfOneMore ==
  ASSUME NEW S, S \subseteq Links, NEW i \in Links, i \notin S
  PROVE  Cardinality(Succeeded(S \cup {i}))
           = Cardinality(Succeeded(S)) + (IF NodeOf(i).success THEN 1 ELSE 0)
<1>1. Succeeded(S) \subseteq Links /\ i \notin Succeeded(S)
  BY DEF Succeeded
<1>2. CASE NodeOf(i).success
  <2>1. Succeeded(S \cup {i}) = Succeeded(S) \cup {i}
    BY <1>2 DEF Succeeded
  <2>. QED
    BY <1>1, <1>2, <2>1, Joins DEF Succeeded
<1>3. CASE ~NodeOf(i).success
  <2>1. Succeeded(S \cup {i}) = Succeeded(S)
    BY <1>3 DEF Succeeded
  <2>2. Cardinality(Succeeded(S)) \in Nat
    BY <1>1, SetsOfLinks
  <2>. QED
    BY <1>3, <2>1, <2>2
<1>. QED
  BY <1>2, <1>3

LEMMA FiledOneMore ==
  ASSUME CountInv, Measured, NEW S, S \subseteq Sent, Filed(S), NEW i \in Sent, i \notin S,
         Collect, Head(nodeChan) = NodeOf(i), IdOf(i) \in Links
  PROVE  Filed(S \cup {i})'
<1>0. S \subseteq Links /\ i \in Links /\ HasSent(i) /\ \A j \in S : HasSent(j)
  BY DEF Sent
<1>1. NodeOf(i).traffic = traffic[i] /\ traffic[i] <= MaxSamples /\ NodeOf(i).id = IdOf(i)
  BY <1>0, NodeTraffic DEF CountInv
<1>2. /\ UNCHANGED <<job, ping, traffic>>
      /\ nodes' = [nodes EXCEPT ![IdOf(i)] = NodeOf(i)]
      /\ summary' = [traffic |-> summary.traffic + traffic[i],
                     success |-> summary.success + (IF NodeOf(i).success THEN 1 ELSE 0)]
  BY <1>1 DEF Collect, workerVars
<1>3. \A j \in Links : NodeOf(j)' = NodeOf(j) /\ IdOf(j)' = IdOf(j)
  BY <1>2, SameNode DEF IdOf
<1>4. summary'.traffic = Cardinality(Bytes(S \cup {i})')
  <2>1. Bytes(S \cup {i})' = Bytes(S \cup {i})
    BY <1>2 DEF Bytes
  <2>2. Cardinality(Bytes(S \cup {i})) = Cardinality(Bytes(S)) + traffic[i]
    BY <1>0, <1>1, BytesOfOneMore DEF CountInv, TypeOK, TestTypeOK
  <2>. QED
    BY <1>2, <2>1, <2>2 DEF Filed
<1>5. summary'.success = Cardinality(Succeeded(S \cup {i})')
  <2>1. Succeeded(S \cup {i})' = Succeeded(S \cup {i})
    BY <1>0, <1>3 DEF Succeeded
  <2>. QED
    BY <1>0, <1>2, <2>1, SuccessOfOneMore DEF Filed
<1>6. ASSUME DistinctIds', NEW j \in S \cup {i}
      PROVE  IdOf(j)' \in Links /\ nodes'[IdOf(j)'] = NodeOf(j)'
  <2>1. DistinctIds
    BY <1>2, <1>3, <1>6 DEF DistinctIds, HasId
  <2>2. nodes \in [Links -> NodeType]
    BY DEF CountInv, TypeOK
  <2>3. CASE j = i
    BY <1>0, <1>2, <1>3, <2>2, <2>3
  <2>4. CASE j \in S
    <3>1. IdOf(j) \in Links /\ nodes[IdOf(j)] = NodeOf(j)
      BY <2>1, <2>4 DEF Filed
    <3>2. IdOf(j) # IdOf(i)
      <4>1. HasId(i) /\ HasId(j)
        BY <1>0, <2>4 DEF CountInv, Admitted, HasSent
      <4>. QED
        BY <1>0, <2>1, <2>4, <4>1 DEF DistinctIds
    <3>. QED
      BY <1>0, <1>2, <1>3, <2>2, <2>4, <3>1, <3>2
  <2>. QED
    BY <1>6, <2>3, <2>4
<1>. QED
  BY <1>4, <1>5, <1>6 DEF Filed

\* Collect: the first sender becomes one of those collected.
LEMMA LedgerCollect ==
  ASSUME CountInv, Measured, Ledger, dpc # "panicked", Collect
  PROVE  Ledger'
<1>. SUFFICES ASSUME dpc' # "panicked"
              PROVE  \E w \in [1 .. Len(nodeChan') -> Links], done \in SUBSET Links :
                       /\ Senders(w)' /\ done = Sent' \ {w[k] : k \in 1 .. Len(nodeChan')}
                       /\ Filed(done)'
  BY DEF Ledger
<1>0. PICK n \in Nat : n + 1 = Len(nodeChan)
  <2>1. Len(nodeChan) \in Nat /\ Len(nodeChan) # 0
    BY DEF CountInv, TypeOK, TestTypeOK, Collect
  <2>2. Len(nodeChan) - 1 \in Nat /\ (Len(nodeChan) - 1) + 1 = Len(nodeChan)
    BY <2>1
  <2>. QED
    BY <2>2
<1>1. /\ Len(nodeChan') = n /\ \A k \in 1 .. n : nodeChan'[k] = nodeChan[k + 1]
      /\ Head(nodeChan) = nodeChan[1] /\ Head(nodeChan).id \in Links
  BY <1>0 DEF CountInv, TypeOK, TestTypeOK, Collect
<1>2. PICK w \in [1 .. n + 1 -> Links], done \in SUBSET Links :
        /\ Senders(w) /\ done = Sent \ {w[k] : k \in 1 .. n + 1}
        /\ Filed(done)
  BY <1>0 DEF Ledger
<1>3. PICK i \in Links : i = w[1]
  OBVIOUS
<1>4. i \in Sent /\ i \notin done /\ Head(nodeChan) = NodeOf(i)
  BY <1>0, <1>1, <1>2, <1>3 DEF Senders, Sent
<1>5. IdOf(i) \in Links
  BY <1>1, <1>4, NodeTraffic DEF CountInv, Sent
<1>6. Filed(done \cup {i})'
  BY <1>2, <1>4, <1>5, FiledOneMore
<1>7. PICK v \in [1 .. n -> Links] : \A k \in 1 .. n : v[k] = w[k + 1]
  <2>. DEFINE u == [k \in 1 .. n |-> w[k + 1]]
  <2>1. u \in [1 .. n -> Links] /\ \A k \in 1 .. n : u[k] = w[k + 1]
    OBVIOUS
  <2>. QED
    BY <2>1
<1>8. Sent' = Sent /\ SentStays
  BY RestStep DEF Collect, workerVars
<1>9. Senders(v)'
  <2>1. \A k \in 1 .. n : HasSent(v[k])' /\ nodeChan'[k] = NodeOf(v[k])'
    BY <1>0, <1>1, <1>2, <1>7, <1>8 DEF Senders, SentStays, Sent
  <2>2. \A k, l \in 1 .. n : v[k] = v[l] => k = l
    BY <1>0, <1>2, <1>7 DEF Senders
  <2>. QED
    BY <1>1, <2>1, <2>2 DEF Senders
<1>10. done \cup {i} = Sent' \ {v[k] : k \in 1 .. n}
  <2>1. \A k \in 1 .. n : v[k] # i
    BY <1>0, <1>2, <1>3, <1>7 DEF Senders
  <2>2. \A x \in Links : (\E k \in 1 .. n + 1 : x = w[k]) <=> (x = i \/ \E k \in 1 .. n : x = v[k])
    <3>1. \A k \in 1 .. n + 1 : k = 1 \/ (k - 1 \in 1 .. n /\ (k - 1) + 1 = k)
      OBVIOUS
    <3>. QED
      BY <1>3, <1>7, <3>1
  <2>. QED
    BY <1>2, <1>4, <1>8, <2>1, <2>2
<1>. QED
  BY <1>1, <1>6, <1>9, <1>10

-----------------------------------------------------------------------------
LEMMA InitInd == Init => IndInv
<1>. SUFFICES ASSUME Init PROVE IndInv
  OBVIOUS
<1>. USE DEF Init, TestInit
<1>1. CountInv
  BY InitCount
<1>2. Measured
  BY CountsAssumption DEF Measured, MeasuredAt, HasSent, InSpeed, BeforeSend, BeforeSpeed
<1>3. Sent = {} /\ Bytes({}) = {} /\ Succeeded({}) = {}
  BY DEF Sent, HasSent, Bytes, Succeeded
<1>4. Filed({})
  BY <1>3, FS_EmptySet DEF Filed
<1>5. PICK w \in [1 .. 0 -> Links] : TRUE
  <2>1. [k \in 1 .. 0 |-> 0] \in [1 .. 0 -> Links]
    OBVIOUS
  <2>. QED
    BY <2>1
<1>6. Senders(w) /\ Len(nodeChan) = 0
  BY DEF Senders
<1>7. Ledger
  BY <1>3, <1>4, <1>6 DEF Ledger
<1>. QED
  BY <1>1, <1>2, <1>7 DEF IndInv

LEMMA StepInd == IndInv /\ [Next]_vars => IndInv'
<1>. SUFFICES ASSUME IndInv, [Next]_vars PROVE IndInv'
  OBVIOUS
<1>1. CountInv'
  BY StepCount DEF IndInv
<1>2. /\ CountInv /\ TypeOK /\ TestTypeOK /\ PastParser /\ Measured
      /\ Ledger /\ Selecting /\ StartedInOrder
  BY DEF IndInv, CountInv, TypeOK
<1>3. CASE UNCHANGED vars
  <2>1. UNCHANGED <<job, pc, ping, traffic, nodeChan, nodes, summary, dpc>>
    BY <1>3 DEF vars, testVars, workerVars, runVars
  <2>2. Measured' /\ Sent' = Sent /\ SentStays
    BY <1>2, <2>1, RestStep
  <2>3. Ledger'
    <3>1. CASE dpc = "panicked"
      BY <2>1, <3>1 DEF Ledger
    <3>2. CASE dpc # "panicked"
      BY <1>2, <2>1, <2>2, <3>2, LedgerStays
    <3>. QED
      BY <3>1, <3>2
  <2>. QED
    BY <1>1, <2>2, <2>3 DEF IndInv
<1>4. CASE dpc # "panicked" /\ Collect
  <2>1. Measured'
    BY <1>2, <1>4, RestStep DEF Collect, workerVars
  <2>. QED
    BY <1>1, <1>2, <1>4, <2>1, LedgerCollect DEF IndInv
<1>5. CASE dpc # "panicked" /\ Spawn
  <2>1. next \in Links /\ pc[next] = "idle"
    BY <1>2, <1>5, CountsAssumption DEF Spawn, Selecting, StartedInOrder, CountInv, TypeOK, Links
  <2>2. Measured' /\ Sent' = Sent /\ SentStays
    BY <1>2, <1>5, <2>1, OutsideStep DEF Spawn
  <2>3. Ledger'
    BY <1>2, <1>5, <2>2, LedgerStays DEF Spawn
  <2>. QED
    BY <1>1, <2>2, <2>3 DEF IndInv
<1>6. CASE dpc # "panicked" /\ (AddOne \/ GiveUp \/ WriteEof \/ Return \/ Cancel)
  <2>1. UNCHANGED <<job, pc, ping, traffic, nodeChan, nodes, summary>>
    BY <1>6 DEF AddOne, GiveUp, WriteEof, Return, Cancel, testVars, workerVars, runVars
  <2>2. Measured' /\ Sent' = Sent /\ SentStays
    BY <1>2, <2>1, RestStep
  <2>. QED
    BY <1>1, <1>2, <1>6, <2>1, <2>2, LedgerStays DEF IndInv
<1>7. ASSUME dpc # "panicked", NEW i \in Links, TestOneStep(i), UNCHANGED runVars
      PROVE  IndInv'
  <2>1. Measured' /\ SentStays /\ job' = job
    <3>1. job' = job
      BY <1>7 DEF TestOneStep, RejectLink, SkipPing, StartPing, GotPing, DeadVerdict,
         PingOnlyVerdict, PingPassed, SendPingNode, StartSpeed, DownloadSample, EndDownload,
         DecideUpload, StartUpload, UploadSample, EndUpload, SendSpeedNode, WgDone
    <3>. QED
      BY <1>2, <1>7, <3>1, MeasuringStep, SentStep
  <2>2. SendsNothing \/ (SendsOwnNode(i) /\ NodeOf(i)' = NodeOf(i))
    BY <1>2, <1>7, SendingStep
  <2>3. Ledger'
    BY <1>2, <1>7, <2>1, <2>2, LedgerStays, LedgerSend DEF SendsNothing, runVars
  <2>. QED
    BY <1>1, <2>1, <2>3 DEF IndInv
<1>8. ASSUME dpc # "panicked", NEW i \in Links, WriteEndone(i) \/ Release(i)
      PROVE  IndInv'
  <2>1. Measured' /\ Sent' = Sent /\ SentStays
    BY <1>2, <1>8, OutsideStep DEF WriteEndone, Release, Goto
  <2>2. UNCHANGED <<job, nodeChan, nodes, summary>>
    BY <1>8 DEF WriteEndone, Release, runVars
  <2>3. Ledger'
    BY <1>2, <1>8, <2>1, <2>2, LedgerStays
  <2>. QED
    BY <1>1, <2>1, <2>3 DEF IndInv
<1>. QED
  BY <1>3, <1>4, <1>5, <1>6, <1>7, <1>8 DEF Next, Dispatcher, Goroutine

\* The inductive invariant holds throughout: the counters of run always agree
\* with the goroutines they stand for, and the report with what the goroutines
\* whose Nodes it holds have measured.
THEOREM ReportSound == Spec => []IndInv
BY InitInd, StepInd, PTL DEF Spec

\* The type invariant of TestRun.
THEOREM TypeCorrect == Spec => []TypeOK
<1>1. IndInv => TypeOK
  BY DEF IndInv, CountInv
<1>. QED
  BY <1>1, ReportSound, PTL

\* For any number of links and any concurrency, however starts, ends and
\* cancellation interleave, the semaphore of run admits no more than
\* Concurrency goroutines.
THEOREM ConcurrencyBounded == Spec => []AtMostConcurrency
<1>1. IndInv => AtMostConcurrency
  BY DEF IndInv, CountInv, SlotsCounted, AtMostConcurrency
<1>. QED
  BY <1>1, ReportSound, PTL

\* The buffer of nodeChan, sized by the number of links, always has room: no
\* goroutine of a batch, given up or not, blocks on its result.
THEOREM RoomForEveryNode == Spec => []SendNeverBlocks
<1>1. ASSUME IndInv PROVE SendNeverBlocks
  <2>. SUFFICES ASSUME NEW i \in Links, pc[i] \in {"failed", "passed"}
                PROVE  Len(nodeChan) < LinksCount
    BY DEF SendNeverBlocks, NodeChanCap
  <2>1. Sent \subseteq Links /\ i \notin Sent
    BY DEF Sent, HasSent
  <2>2. Cardinality(Sent) \in Nat /\ Cardinality(Sent) < LinksCount
    BY <2>1, SetsOfLinks, CountsAssumption
  <2>. QED
    BY <1>1, <2>2, CountsAssumption DEF IndInv, CountInv, NodesCounted, TypeOK, TestTypeOK
<1>. QED
  BY <1>1, ReportSound, PTL

\* When every link parses, the collecting loop never waits on an empty channel:
\* all its Nodes are there when the WaitGroup reaches zero.
THEOREM CollectingNeverStarves == Spec => []CollectNeverStarves
<1>1. ASSUME IndInv PROVE CollectNeverStarves
  <2>. SUFFICES ASSUME \A i \in Links : Parses(i), dpc = "collect", got < LinksCount
                PROVE  nodeChan # <<>>
    BY DEF CollectNeverStarves
  <2>1. Sent = Links
    BY <1>1 DEF IndInv, CountInv, AfterEof, StartedInOrder, TypeOK, TestTypeOK, Sent, HasSent, Places,
                Links
  <2>2. Cardinality(Sent) = LinksCount
    BY <2>1, FS_Interval, CountsAssumption DEF Links
  <2>. QED
    BY <1>1, <2>2, CountsAssumption DEF IndInv, CountInv, NodesCounted, TypeOK, TestTypeOK
<1>. QED
  BY <1>1, ReportSound, PTL

\* After eof, endone is the only message still to come for a node.
THEOREM EofIsLast == Spec => QuietAfterEof
<1>1. IndInv /\ [Next]_vars =>
        [\A i \in Links :
           dpc \in {"collect", "returned"} /\ log'[i] # log[i]
             => log'[i] = Append(log[i], "endone")]_vars
  <2>. SUFFICES ASSUME IndInv, Next, NEW i \in Links,
                       dpc \in {"collect", "returned"}, log'[i] # log[i]
                PROVE  log'[i] = Append(log[i], "endone")
    BY DEF vars, testVars, workerVars
  <2>1. PICK j \in Links : Goroutine(j)
    BY DEF Next, Dispatcher, AddOne, Spawn, GiveUp, WriteEof, Collect, Return, Cancel,
           testVars, workerVars
  <2>2. ~TestOneStep(j)
    <3>1. pc[j] \notin InTest
      BY DEF IndInv, CountInv, AfterEof
    <3>. QED
      BY <3>1, StepInTest
  <2>3. WriteEndone(j)
    BY <2>1, <2>2 DEF Goroutine, Release
  <2>. QED
    BY <2>3 DEF WriteEndone, Say, IndInv, CountInv, TypeOK, TestTypeOK
<1>. QED
  BY <1>1, ReportSound, PTL DEF Spec, QuietAfterEof

\* When run returns, nothing is left in the channel and everybody has sent.
LEMMA FaithfulOnReturn == IndInv => ReportFaithful
<1>. SUFFICES ASSUME IndInv PROVE ReportFaithful
  OBVIOUS
<1>. SUFFICES ASSUME dpc = "returned" PROVE Filed(Links)
  BY DEF ReportFaithful, Filed, Succeeded
<1>1. PICK w \in [1 .. Len(nodeChan) -> Links], done \in SUBSET Links :
        /\ Senders(w) /\ done = Sent \ {w[k] : k \in 1 .. Len(nodeChan)}
        /\ Filed(done)
  BY DEF IndInv, Ledger
<1>2. got = LinksCount
  BY DEF IndInv, CountInv, AfterEof
<1>3. Len(nodeChan) = 0 /\ Cardinality(Sent) = LinksCount
  <2>1. Len(nodeChan) + got = Cardinality(Sent) /\ Len(nodeChan) \in Nat
    BY DEF IndInv, CountInv, NodesCounted, TypeOK, TestTypeOK
  <2>2. Cardinality(Sent) <= LinksCount /\ Cardinality(Sent) \in Nat
    BY SetsOfLinks DEF Sent
  <2>. QED
    BY <1>2, <2>1, <2>2, CountsAssumption
<1>4. done = Links
  BY <1>1, <1>3, SetsOfLinks DEF Sent
<1>. QED
  BY <1>1, <1>4

\* What run returns is what its goroutines measured, whatever the order they
\* ended in: each Node under its id if the ids are distinct, and in any case
\* the traffic and the successes of all.
THEOREM ReportIsFaithful == Spec => []ReportFaithful
BY ReportSound, FaithfulOnReturn, PTL

-----------------------------------------------------------------------------
\* run implements Batch.  What a step does to the four views of the batch.
LEMMA SameViews ==
  ASSUME \A i \in Links : (pc'[i] = "idle" <=> pc[i] = "idle")
                          /\ (pc'[i] \in InTest <=> pc[i] \in InTest)
  PROVE  batchStatus' = batchStatus
BY DEF batchStatus

LEMMA SameResults ==
  ASSUME Sent' = Sent, SentStays
  PROVE  batchResult' = batchResult
<1>1. \A i \in Links : HasSent(i)' = HasSent(i)
  BY DEF Sent, HasSent
<1>2. \A i \in Links : HasSent(i) => NodeOf(i)' = NodeOf(i)
  BY DEF SentStays, Sent
<1>3. \A i \in Links : (IF HasSent(i) THEN NodeOf(i) ELSE NoNode)'
                        = IF HasSent(i) THEN NodeOf(i) ELSE NoNode
  BY <1>1, <1>2 DEF NoNode
<1>. QED
  BY <1>3 DEF batchResult, Links

LEMMA SameReport ==
  ASSUME job' = job, dpc' = dpc \/ (dpc # "returned" /\ dpc' # "returned"),
         dpc = "returned" => nodes' = nodes
  PROVE  batchReport' = batchReport
<1>1. \A i \in Links : IdOf(i)' = IdOf(i)
  BY DEF IdOf
<1>2. \A i \in Links :
        (IF dpc = "returned" /\ IdOf(i) \in Links THEN nodes[IdOf(i)] ELSE NoNode)'
          = IF dpc = "returned" /\ IdOf(i) \in Links THEN nodes[IdOf(i)] ELSE NoNode
  BY <1>1 DEF NoNode, Links
<1>. QED
  BY <1>2 DEF batchReport, Links

LEMMA BatchInit == Init => Promise!Init
<1>. SUFFICES ASSUME Init PROVE Promise!Init
  OBVIOUS
<1>. USE DEF Init, TestInit
<1>1. batchStatus = [i \in Links |-> "queued"] /\ batchOutcome = "open"
  BY DEF batchStatus, batchOutcome
<1>2. batchResult = [i \in Links |-> NoNode] /\ batchReport = [i \in Links |-> NoNode]
  BY DEF batchResult, batchReport, HasSent
<1>. QED
  BY <1>1, <1>2 DEF Promise!Init, Promise!Tests, Links

\* Steps that Batch does not see.
LEMMA BatchStutter ==
  ASSUME batchStatus' = batchStatus, batchResult' = batchResult,
         batchOutcome' = batchOutcome, batchReport' = batchReport
  PROVE  UNCHANGED Promise!vars
BY DEF Promise!vars

\* A step of goroutine i in testOne is nothing to the batch, or finds its
\* result, or finishes it.
LEMMA BatchTest ==
  ASSUME IndInv, dpc # "panicked", NEW i \in Links, TestOneStep(i), UNCHANGED runVars
  PROVE  [Promise!Next]_(Promise!vars)
<1>0. /\ TypeOK /\ TestTypeOK /\ PastParser /\ Measured /\ pc \in [Links -> Places]
      /\ pc[i] \in InTest
  BY StepInTest DEF IndInv, CountInv, TypeOK, TestTypeOK
<1>1. job' = job /\ nodes' = nodes /\ dpc' = dpc
  BY DEF TestOneStep, RejectLink, SkipPing, StartPing, GotPing, DeadVerdict,
     PingOnlyVerdict, PingPassed, SendPingNode, StartSpeed, DownloadSample, EndDownload,
     DecideUpload, StartUpload, UploadSample, EndUpload, SendSpeedNode, WgDone, runVars
<1>2. batchOutcome' = batchOutcome /\ batchReport' = batchReport
  BY <1>1, SameReport DEF batchOutcome
<1>3. SentStays /\ (SendsNothing \/ (SendsOwnNode(i) /\ NodeOf(i)' = NodeOf(i)))
  BY <1>0, SentStep, SendingStep
<1>4. CASE WgDone(i)
  <2>1. pc' = [pc EXCEPT ![i] = "tested"] /\ pc[i] = "returning"
    BY <1>4 DEF WgDone, Goto
  <2>2. batchStatus' = [batchStatus EXCEPT ![i] = "finished"] /\ batchStatus[i] = "running"
    BY <1>0, <2>1 DEF batchStatus, InTest, BeforeSend
  <2>3. Sent' = Sent
    BY <1>0, <1>1, <2>1 DEF Sent, HasSent, Parses
  <2>4. batchResult' = batchResult
    BY <1>3, <2>3, SameResults
  <2>. QED
    BY <1>2, <2>2, <2>4 DEF Promise!Next, Promise!Finish, Promise!Tests, Links
<1>5. CASE ~WgDone(i)
  <2>1. \A j \in Links : (pc'[j] = "idle" <=> pc[j] = "idle")
                         /\ (pc'[j] \in InTest <=> pc[j] \in InTest)
    <3>1. \A j \in Links \ {i} : pc'[j] = pc[j]
      BY <1>0, OthersKeep
    <3>2. pc[i] # "idle" /\ pc[i] \in InTest /\ pc'[i] # "idle" /\ pc'[i] \in InTest
      BY <1>0, <1>5 DEF TestOneStep, RejectLink, SkipPing, StartPing, GotPing, DeadVerdict,
         PingOnlyVerdict, PingPassed, SendPingNode, StartSpeed, DownloadSample, EndDownload,
         DecideUpload, StartUpload, UploadSample, EndUpload, SendSpeedNode, Goto,
         InTest, BeforeSend
    <3>. QED
      BY <3>1, <3>2
  <2>2. batchStatus' = batchStatus
    BY <2>1, SameViews
  <2>3. CASE SendsNothing
    BY <1>2, <1>3, <2>2, <2>3, SameResults, BatchStutter DEF SendsNothing
  <2>4. CASE SendsOwnNode(i) /\ NodeOf(i)' = NodeOf(i)
    <3>1. batchStatus[i] = "running" /\ batchResult[i] = NoNode
      BY <1>0, <2>4 DEF batchStatus, batchResult, SendsOwnNode, Sent, InTest, BeforeSend
    <3>2. batchResult' = [batchResult EXCEPT ![i] = NodeOf(i)]
      <4>1. \A j \in Links : HasSent(j)' <=> (HasSent(j) \/ j = i)
        BY <2>4 DEF SendsOwnNode, Sent, HasSent
      <4>2. \A j \in Links : HasSent(j) => NodeOf(j)' = NodeOf(j)
        BY <1>3 DEF SentStays, Sent
      <4>3. NoNode' = NoNode /\ Links' = Links
        BY DEF NoNode, Links
      <4>. QED
        BY <2>4, <4>1, <4>2, <4>3 DEF batchResult
    <3>3. CASE NodeOf(i) = NoNode
      <4>1. batchResult' = batchResult
        BY <3>1, <3>2, <3>3 DEF batchResult
      <4>. QED
        BY <1>2, <2>2, <4>1, BatchStutter
    <3>4. CASE NodeOf(i) # NoNode
      <4>1. batchResult'[i] = NodeOf(i)
        BY <3>2 DEF batchResult
      <4>. QED
        BY <1>2, <2>2, <3>1, <3>2, <3>4, <4>1
           DEF Promise!Next, Promise!Obtain, Promise!Tests, Links
    <3>. QED
      BY <3>3, <3>4
  <2>. QED
    BY <1>3, <2>3, <2>4
<1>. QED
  BY <1>4, <1>5

\* The two ends of a batch, and its starts.
LEMMA BatchStart ==
  ASSUME IndInv, Spawn
  PROVE  Promise!Next
<1>. USE DEF Spawn
<1>0. /\ TypeOK /\ TestTypeOK /\ Measured /\ SlotsCounted /\ Selecting /\ StartedInOrder
      /\ pc \in [Links -> Places]
  BY DEF IndInv, CountInv, TypeOK, TestTypeOK
<1>1. next \in Links /\ pc[next] = "idle" /\ \A u \in 0 .. next - 1 : u \in Links /\ pc[u] # "idle"
  BY <1>0, CountsAssumption DEF Selecting, StartedInOrder, TypeOK, Links
<1>2. batchStatus' = [batchStatus EXCEPT ![next] = "running"]
      /\ batchStatus[next] = "queued" /\ \A u \in 0 .. next - 1 : batchStatus[u] # "queued"
  BY <1>0, <1>1 DEF batchStatus, InTest, BeforeSend
<1>3. batchResult' = batchResult
  <2>1. Sent' = Sent /\ SentStays
    BY <1>0, <1>1, OutsideStep
  <2>. QED
    BY <2>1, SameResults
<1>4. batchOutcome = "open" /\ batchOutcome' = batchOutcome /\ batchReport' = batchReport
  BY SameReport DEF batchOutcome
<1>5. Promise!Cardinality(Promise!Running) < Concurrency
  <2>1. Promise!Running = Testing
    BY DEF Promise!Running, Promise!Tests, batchStatus, Testing, Links, InTest, BeforeSend
  <2>2. Testing \subseteq Holding /\ Holding \subseteq Links
    BY DEF Testing, Holding, InTest, BeforeSend
  <2>3. Cardinality(Testing) <= Cardinality(Holding)
    BY <2>2, SetsOfLinks, FS_Subset
  <2>4. Cardinality(Testing) \in Nat /\ Cardinality(Holding) \in Nat
    BY <2>2, SetsOfLinks
  <2>5. Promise!Cardinality(Testing) = Cardinality(Testing)
    BY DEF Promise!Cardinality, Cardinality
  <2>. QED
    BY <1>0, <2>1, <2>3, <2>4, <2>5, CountsAssumption DEF SlotsCounted
<1>. QED
  BY <1>1, <1>2, <1>3, <1>4, <1>5 DEF Promise!Next, Promise!Start, Promise!Tests, Links

LEMMA BatchAbandon ==
  ASSUME IndInv, GiveUp
  PROVE  Promise!Next
<1>. USE DEF GiveUp, testVars, workerVars
<1>1. next \in Links /\ pc[next] = "idle"
  BY CountsAssumption DEF IndInv, CountInv, Selecting, StartedInOrder, TypeOK, Links
<1>2. batchStatus[next] = "queued" /\ batchStatus' = batchStatus
  BY <1>1 DEF batchStatus
<1>3. Sent' = Sent /\ SentStays
  BY RestStep DEF IndInv
<1>4. batchResult' = batchResult /\ batchReport' = batchReport
  BY <1>3, SameResults, SameReport
<1>5. batchOutcome = "open" /\ batchOutcome' = "abandoned"
  BY DEF batchOutcome
<1>. QED
  BY <1>1, <1>2, <1>4, <1>5 DEF Promise!Next, Promise!Abandon, Promise!Tests, Links

LEMMA BatchComplete ==
  ASSUME IndInv, IndInv', DistinctIds, Return
  PROVE  Promise!Next
<1>. USE DEF Return, testVars, workerVars
<1>1. ReportFaithful'
  BY FaithfulOnReturn, PTL
<1>2. Sent' = Sent /\ SentStays
  BY RestStep DEF IndInv
<1>3. batchStatus' = batchStatus /\ batchResult' = batchResult
  BY <1>2, SameResults DEF batchStatus
<1>4. \A i \in Links : IdOf(i) \in Links /\ nodes[IdOf(i)] = NodeOf(i)
  <2>1. \A i \in Links : IdOf(i)' = IdOf(i) /\ NodeOf(i)' = NodeOf(i) /\ HasId(i)' = HasId(i)
    BY SameNode DEF IdOf, HasId
  <2>2. DistinctIds'
    BY <2>1 DEF DistinctIds
  <2>. QED
    BY <1>1, <2>1, <2>2 DEF ReportFaithful
<1>5. \A i \in Links : HasSent(i) /\ pc[i] # "idle" /\ pc[i] \notin InTest
  <2>1. Cardinality(Sent) = LinksCount
    <3>1. Len(nodeChan) + got = Cardinality(Sent) /\ Len(nodeChan) \in Nat /\ got = LinksCount
      BY DEF IndInv, CountInv, NodesCounted, TypeOK, TestTypeOK
    <3>2. Cardinality(Sent) <= LinksCount /\ Cardinality(Sent) \in Nat
      BY SetsOfLinks DEF Sent
    <3>. QED
      BY <3>1, <3>2, CountsAssumption
  <2>2. Sent = Links
    BY <2>1, SetsOfLinks DEF Sent
  <2>. QED
    BY <2>2 DEF Sent, HasSent, IndInv, CountInv, AfterEof
<1>6. \A i \in Links : batchStatus[i] = "finished" /\ batchResult[i] = NodeOf(i)
  BY <1>5 DEF batchStatus, batchResult
<1>7. \A i \in Links : NodeOf(i) # NoNode
  <2>1. NoNode.id \notin Links
    BY CountsAssumption DEF NoNode, Links
  <2>2. \A i \in Links : NodeOf(i).id = IdOf(i)
    BY DEF NodeOf, PingNode, SpeedNode
  <2>. QED
    BY <1>4, <2>1, <2>2
<1>8. batchReport' = batchResult
  <2>1. \A i \in Links : IdOf(i)' = IdOf(i) /\ Links' = Links
    BY DEF IdOf, Links
  <2>2. \A i \in Links : (IF dpc = "returned" /\ IdOf(i) \in Links
                          THEN nodes[IdOf(i)] ELSE NoNode)' = NodeOf(i)
    BY <1>4, <2>1
  <2>. QED
    BY <1>5, <2>1, <2>2 DEF batchReport, batchResult
<1>9. batchOutcome = "open" /\ batchOutcome' = "complete"
  BY DEF batchOutcome
<1>. QED
  BY <1>3, <1>6, <1>7, <1>8, <1>9 DEF Promise!Next, Promise!Complete, Promise!Tests, Links

\* The rest of the dispatcher's work, and of a goroutine's, is not seen.
LEMMA BatchUnseen ==
  ASSUME IndInv, dpc # "panicked",
         \/ UNCHANGED vars
         \/ AddOne \/ WriteEof \/ Collect \/ Cancel
         \/ \E i \in Links : WriteEndone(i) \/ Release(i)
  PROVE  UNCHANGED Promise!vars
<1>0. TestTypeOK /\ Measured /\ pc \in [Links -> Places]
  BY DEF IndInv, CountInv, TypeOK, TestTypeOK
<1>1. CASE UNCHANGED vars \/ AddOne \/ WriteEof \/ Collect \/ Cancel
  <2>1. UNCHANGED <<job, pc, ping, traffic>>
    BY <1>1 DEF AddOne, WriteEof, Collect, Cancel, vars, testVars, workerVars
  <2>2. Sent' = Sent /\ SentStays
    BY <1>0, <2>1, RestStep
  <2>3. /\ dpc' = dpc \/ (dpc \in {"add", "collect"} /\ dpc' \in {"select", "collect", "panicked"})
        /\ dpc = "returned" => nodes' = nodes
    BY <1>1 DEF AddOne, WriteEof, Collect, Cancel, vars, runVars
  <2>4. batchStatus' = batchStatus /\ batchOutcome' = batchOutcome
    BY <2>1, <2>3 DEF batchStatus, batchOutcome
  <2>. QED
    BY <2>1, <2>2, <2>3, <2>4, SameResults, SameReport, BatchStutter
<1>2. ASSUME NEW i \in Links, WriteEndone(i) \/ Release(i)
      PROVE  UNCHANGED Promise!vars
  <2>1. Sent' = Sent /\ SentStays
    BY <1>0, <1>2, OutsideStep DEF WriteEndone, Release, Goto
  <2>2. batchStatus' = batchStatus
    BY <1>0, <1>2 DEF WriteEndone, Release, Goto, batchStatus, InTest, BeforeSend
  <2>3. UNCHANGED <<job, nodes, dpc>>
    BY <1>2 DEF WriteEndone, Release, runVars
  <2>. QED
    BY <2>1, <2>2, <2>3, SameResults, SameReport, BatchStutter DEF batchOutcome
<1>. QED
  BY <1>1, <1>2

LEMMA BatchStep ==
  IndInv /\ IndInv' /\ DistinctIds /\ [Next]_vars => [Promise!Next]_(Promise!vars)
<1>. SUFFICES ASSUME IndInv, IndInv', DistinctIds, [Next]_vars
              PROVE  [Promise!Next]_(Promise!vars)
  OBVIOUS
<1>1. CASE UNCHANGED vars
  <2>1. UNCHANGED <<job, pc, ping, traffic, nodes, dpc>>
    BY <1>1 DEF vars, testVars, workerVars, runVars
  <2>2. Sent' = Sent /\ SentStays
    BY <2>1, RestStep DEF IndInv
  <2>. QED
    BY <2>1, <2>2, SameResults, SameReport, BatchStutter DEF batchStatus, batchOutcome
<1>2. CASE Next
  BY <1>2, BatchTest, BatchStart, BatchAbandon, BatchComplete, BatchUnseen
     DEF Next, Dispatcher, Goroutine
<1>. QED
  BY <1>1, <1>2

\* run keeps the promise of Batch: for any number of links and any concurrency,
\* each test runs once and in order of its start, no more than Concurrency at a
\* time, and the caller gets all results or, after cancelling, none.  The
\* request must not name one id for two links.
THEOREM PromiseKept == Spec /\ DistinctIds => KeepsPromise
<1>1. DistinctIds /\ [Next]_vars => DistinctIds'
  <2>. SUFFICES ASSUME DistinctIds, [Next]_vars PROVE DistinctIds'
    OBVIOUS
  <2>1. job' = job
    BY DEF Next, Dispatcher, AddOne, Spawn, GiveUp, WriteEof, Collect, Return, Cancel,
     Goroutine, WriteEndone, Release, TestOneStep, RejectLink, SkipPing, StartPing, GotPing,
     DeadVerdict, PingOnlyVerdict, PingPassed, SendPingNode, StartSpeed, DownloadSample,
     EndDownload, DecideUpload, StartUpload, UploadSample, EndUpload, SendSpeedNode, WgDone,
     vars, testVars
  <2>. QED
    BY <2>1 DEF DistinctIds, HasId, IdOf
<1>. QED
  BY <1>1, BatchInit, BatchStep, ReportSound, PTL DEF Spec, KeepsPromise, Promise!Spec
=============================================================================
