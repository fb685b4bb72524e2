--------------------------- MODULE TestAllProofs ---------------------------
(***************************************************************************)
(* Proofs about module TestAll for every number of links, every            *)
(* concurrency and every set of requests.  As for TestRun, the invariant   *)
(* CountInv reads the counters as cardinalities of sets of goroutines; a     *)
(* Node that has been sent is here in the channel, in the handler's hand   *)
(* or in a reply.  Its last part shows that TestAll implements Stream.     *)
(***************************************************************************)
EXTENDS TestAll, TestOneProofs, SequenceTheorems

LEMMA InitCount == Init => CountInv
<1>. SUFFICES ASSUME Init PROVE CountInv
  OBVIOUS
<1>. USE DEF Init, TestInit
<1>1. Holding = {} /\ Testing = {} /\ Sent = {} /\ Cardinality({}) = 0
  BY FS_EmptySet DEF Holding, Testing, Sent, HasSent, InTest, BeforeSend
<1>2. TestTypeOK
  <2>1. /\ pc \in [Links -> Places] /\ traffic \in [Links -> Nat]
        /\ ping \in [Links -> PingOutcomes \cup {"none"}]
    BY DEF Places, InTest, BeforeSend
  <2>2. <<>> \in Seq(Messages) /\ <<>> \in Seq(NodeType)
    OBVIOUS
  <2>. QED
    BY <2>1, <2>2 DEF TestTypeOK
<1>3. TypeOK
  <2>1. NoReply \in NodeType
    BY CountsAssumption DEF NodeType, NoReply
  <2>2. replies \in Seq(NodeType) /\ Len(replies) = 0
    OBVIOUS
  <2>. QED
    BY <1>2, <2>1, <2>2, CountsAssumption DEF TypeOK
<1>4. SlotsCounted /\ AwaitedCounted
  BY <1>1, CountsAssumption DEF SlotsCounted, AwaitedCounted
<1>5. NodesCounted
  BY <1>1 DEF NodesCounted
<1>6. StartedInOrder /\ Selecting /\ PastParser
  BY CountsAssumption DEF StartedInOrder, Selecting, PastParser, BeforeSend, Links
<1>. QED
  BY <1>3, <1>4, <1>5, <1>6 DEF CountInv

\* A step of goroutine i inside testOne.
LEMMA TestSteps ==
  ASSUME CountInv, NEW i \in Links, TestOneStep(i), UNCHANGED allVars
  PROVE  CountInv'
<1>. USE DEF allVars
<1>1. IdOf(i) \in Nat
  BY NoIdsAssumption, CountsAssumption DEF CountInv, TypeOK, TestTypeOK, IdOf, Links
<1>2. wg > 0
  <2>1. Cardinality(Testing) > 0 /\ Cardinality(Testing) \in Nat
    BY StepInTest, Member, SetsOfLinks DEF Testing
  <2>. QED
    BY <2>1 DEF CountInv, AwaitedCounted
<1>3. Kept
  BY <1>1, <1>2, WorkerStep DEF CountInv, TypeOK
<1>4. TypeOK' /\ PastParser'
  BY <1>3 DEF Kept, CountInv, TypeOK
<1>5. SlotsCounted'
  BY <1>3 DEF Kept, Balanced, CountInv, SlotsCounted
<1>6. /\ Cardinality(Testing) \in Nat /\ Cardinality(Testing') \in Nat
      /\ Cardinality(Sent) \in Nat /\ Cardinality(Sent') \in Nat
  BY SetsOfLinks DEF Testing, Sent
<1>7. /\ wg \in Nat /\ wg' \in Nat /\ Len(replies) \in Nat
      /\ Len(nodeChan) \in Nat /\ Len(nodeChan') \in Nat
  BY <1>4 DEF CountInv, TypeOK, TestTypeOK
<1>8. AwaitedCounted'
  <2>1. wg' - Cardinality(Testing') = wg - Cardinality(Testing) /\ dpc' = dpc
    BY <1>3 DEF Kept, Balanced
  <2>2. wg = Cardinality(Testing) + (IF dpc \in {"select", "cancelled"} THEN 1 ELSE 0)
    BY DEF CountInv, AwaitedCounted
  <2>3. wg' = Cardinality(Testing') + (IF dpc \in {"select", "cancelled"} THEN 1 ELSE 0)
    BY <1>6, <1>7, <2>1, <2>2
  <2>. QED
    BY <2>1, <2>3 DEF AwaitedCounted
<1>9. NodesCounted'
  <2>. DEFINE inHands == IF hpc \in {"sending", "failed"} THEN 1 ELSE 0
  <2>1. /\ Len(nodeChan') - Cardinality(Sent') = Len(nodeChan) - Cardinality(Sent)
        /\ replies' = replies /\ hpc' = hpc
    BY <1>3 DEF Kept, Balanced
  <2>2. Cardinality(Sent) = Len(nodeChan) + Len(replies) + inHands
    BY DEF CountInv, NodesCounted
  <2>3. inHands \in Nat
    OBVIOUS
  <2>4. Cardinality(Sent') = Len(nodeChan') + Len(replies) + inHands
    <3>. HIDE DEF inHands
    <3>. QED
      BY <1>6, <1>7, <2>1, <2>2, <2>3
  <2>. QED
    BY <2>1, <2>4 DEF NodesCounted
<1>10. StartedInOrder' /\ Selecting'
  BY <1>3 DEF Kept, Balanced, CountInv, StartedInOrder, Selecting
<1>. QED
  BY <1>4, <1>5, <1>8, <1>9, <1>10 DEF CountInv

\* The goroutine takes back its token of the semaphore.
LEMMA ReleaseStep ==
  ASSUME CountInv, NEW i \in Links, Release(i)
  PROVE  CountInv'
<1>. USE DEF Release, Goto, allVars
<1>1. pc' \in [Links -> Places]
  BY DEF CountInv, TypeOK, TestTypeOK, Places
<1>2. Holding' = Holding \ {i} /\ i \in Holding
  BY DEF CountInv, TypeOK, TestTypeOK, Holding
<1>3. SlotsCounted' /\ guard' \in Nat
  <2>1. /\ Cardinality(Holding') = Cardinality(Holding) - 1
        /\ Cardinality(Holding) \in Nat /\ Cardinality(Holding') \in Nat
    BY <1>2, Leaves, SetsOfLinks DEF Holding
  <2>. QED
    BY <2>1, CountsAssumption DEF CountInv, SlotsCounted
<1>4. TypeOK'
  BY <1>1, <1>3 DEF CountInv, TypeOK, TestTypeOK
<1>5. Testing' = Testing /\ Sent' = Sent
  BY DEF CountInv, TypeOK, TestTypeOK, Testing, Sent, HasSent, Parses, InTest, BeforeSend
<1>6. AwaitedCounted' /\ NodesCounted'
  BY <1>5 DEF CountInv, AwaitedCounted, NodesCounted
<1>7. StartedInOrder' /\ Selecting' /\ PastParser'
  BY DEF CountInv, TypeOK, TestTypeOK, StartedInOrder, Selecting, PastParser, Parses, BeforeSend
<1>. QED
  BY <1>3, <1>4, <1>6, <1>7 DEF CountInv

\* The steps of the dispatcher goroutine.
LEMMA DispatcherSteps ==
  ASSUME CountInv, Dispatcher
  PROVE  CountInv'
<1>. USE DEF workerVars, testVars
<1>0. /\ TypeOK /\ SlotsCounted /\ StartedInOrder /\ NodesCounted /\ Selecting
      /\ AwaitedCounted /\ PastParser
  BY DEF CountInv
<1>1. CASE AddOne
  <2>. USE <1>0, <1>1 DEF AddOne
  <2>1. TypeOK'
    BY DEF TypeOK, TestTypeOK
  <2>2. Holding' = Holding /\ Testing' = Testing /\ Sent' = Sent
    BY DEF Holding, Testing, Sent, HasSent, Parses
  <2>3. Cardinality(Testing) \in Nat
    BY SetsOfLinks DEF Testing
  <2>4. SlotsCounted' /\ NodesCounted'
    BY <2>2 DEF SlotsCounted, NodesCounted
  <2>5. AwaitedCounted'
    BY <2>2, <2>3 DEF AwaitedCounted
  <2>6. StartedInOrder' /\ Selecting' /\ PastParser'
    BY DEF StartedInOrder, Selecting, PastParser, Parses
  <2>. QED
    BY <2>1, <2>4, <2>5, <2>6 DEF CountInv
<1>2. CASE Spawn
  <2>. USE <1>0, <1>2 DEF Spawn
  <2>0. next \in Links /\ pc[next] = "idle" /\ next' \in 0 .. LinksCount
    BY CountsAssumption DEF Selecting, StartedInOrder, TypeOK, Links
  <2>1. pc' \in [Links -> Places]
    BY <2>0 DEF TypeOK, TestTypeOK, Places, InTest, BeforeSend
  <2>2. TypeOK'
    BY <2>0, <2>1 DEF TypeOK, TestTypeOK
  <2>3. /\ Holding' = Holding \cup {next} /\ next \notin Holding
        /\ Testing' = Testing \cup {next} /\ next \notin Testing
        /\ Sent' = Sent
    BY <2>0 DEF TypeOK, TestTypeOK, Holding, Testing, Sent, HasSent, Parses, InTest, BeforeSend
  <2>4. /\ Cardinality(Holding') = Cardinality(Holding) + 1
        /\ Cardinality(Testing') = Cardinality(Testing) + 1
        /\ Cardinality(Testing) \in Nat
    BY <2>0, <2>3, Joins, SetsOfLinks DEF Holding, Testing
  <2>5. SlotsCounted'
    BY <2>4, CountsAssumption DEF SlotsCounted, TypeOK, TestTypeOK
  <2>6. AwaitedCounted'
    BY <2>4 DEF AwaitedCounted
  <2>7. NodesCounted'
    BY <2>3 DEF NodesCounted
  <2>8. StartedInOrder'
    BY <2>0 DEF StartedInOrder, TypeOK, TestTypeOK, Links
  <2>9. Selecting' /\ PastParser'
    BY <2>0 DEF Selecting, PastParser, Parses, TypeOK, TestTypeOK, BeforeSend
  <2>. QED
    BY <2>2, <2>5, <2>6, <2>7, <2>8, <2>9 DEF CountInv
<1>3. CASE GiveUp
  <2>. USE <1>0, <1>3 DEF GiveUp
  <2>1. TypeOK'
    BY DEF TypeOK, TestTypeOK
  <2>2. SlotsCounted' /\ AwaitedCounted' /\ NodesCounted'
    BY DEF SlotsCounted, AwaitedCounted, NodesCounted, Holding, Testing, Sent, HasSent, Parses
  <2>3. StartedInOrder' /\ Selecting' /\ PastParser'
    BY DEF StartedInOrder, Selecting, PastParser, Parses
  <2>. QED
    BY <2>1, <2>2, <2>3 DEF CountInv
<1>. QED
  BY <1>1, <1>2, <1>3 DEF Dispatcher

\* The steps of the handler, and cancellation: they move Nodes on from the
\* channel and leave the goroutines alone.
LEMMA HandlerSteps ==
  ASSUME CountInv, Handler \/ Cancel
  PROVE  CountInv'
<1>. USE DEF workerVars, testVars, allVars
<1>0. /\ TypeOK /\ SlotsCounted /\ StartedInOrder /\ NodesCounted /\ Selecting
      /\ AwaitedCounted /\ PastParser
  BY DEF CountInv
<1>1. UNCHANGED <<job, wg, guard, workerVars, dpc, next>>
  BY DEF Handler, Receive, SendReply, SendFails, Return, Cancel
<1>2. Holding' = Holding /\ Testing' = Testing /\ Sent' = Sent
  BY <1>1 DEF Holding, Testing, Sent, HasSent, Parses
<1>3. /\ SlotsCounted' /\ AwaitedCounted'
      /\ StartedInOrder' /\ Selecting' /\ PastParser'
  BY <1>0, <1>1, <1>2 DEF SlotsCounted, AwaitedCounted, StartedInOrder, Selecting, PastParser,
                          Parses
<1>4. /\ Cardinality(Sent) \in Nat /\ Cardinality(Sent) <= LinksCount
      /\ Len(nodeChan) \in Nat /\ Len(replies) \in Nat
  BY <1>0, SetsOfLinks DEF Sent, TypeOK, TestTypeOK
<1>5. CASE Receive
  <2>1. /\ Head(nodeChan) \in NodeType /\ Tail(nodeChan) \in Seq(NodeType)
        /\ Len(Tail(nodeChan)) = Len(nodeChan) - 1
    BY <1>0, <1>5 DEF Receive, TypeOK, TestTypeOK
  <2>2. TypeOK'
    BY <1>0, <1>5, <2>1 DEF Receive, TypeOK, TestTypeOK
  <2>3. NodesCounted'
    BY <1>0, <1>2, <1>4, <1>5, <2>1 DEF Receive, NodesCounted
  <2>. QED
    BY <1>3, <2>2, <2>3 DEF CountInv
<1>6. CASE SendReply
  <2>1. Len(replies) < LinksCount
    BY <1>0, <1>4, <1>6, CountsAssumption DEF SendReply, NodesCounted
  <2>2. /\ replies' \in Seq(NodeType)
        /\ Len(replies') = Len(replies) + 1
    BY <1>0, <1>6 DEF SendReply, TypeOK
  <2>3. TypeOK'
    BY <1>0, <1>4, <1>6, <2>1, <2>2, CountsAssumption DEF SendReply, TypeOK, TestTypeOK
  <2>4. NodesCounted'
    BY <1>0, <1>2, <1>4, <1>6, <2>2 DEF SendReply, NodesCounted
  <2>. QED
    BY <1>3, <2>3, <2>4 DEF CountInv
<1>7. CASE SendFails \/ Return \/ Cancel
  <2>1. TypeOK'
    BY <1>0, <1>7 DEF SendFails, Return, Cancel, TypeOK, TestTypeOK
  <2>2. NodesCounted'
    BY <1>0, <1>2, <1>7 DEF SendFails, Return, Cancel, NodesCounted
  <2>. QED
    BY <1>3, <2>1, <2>2 DEF CountInv
<1>. QED
  BY <1>5, <1>6, <1>7 DEF Handler

LEMMA StepCount == CountInv /\ [Next]_vars => CountInv'
<1>. SUFFICES ASSUME CountInv, [Next]_vars PROVE CountInv'
  OBVIOUS
<1>1. CASE UNCHANGED vars
  BY <1>1 DEF vars, testVars, workerVars, allVars, CountInv, TypeOK, TestTypeOK, SlotsCounted,
              StartedInOrder, AwaitedCounted, NodesCounted, Selecting, PastParser, Holding,
              Testing, Sent, HasSent, Parses
<1>2. CASE Next
  <2>1. CASE Dispatcher
    BY <2>1, DispatcherSteps
  <2>2. CASE Handler \/ Cancel
    BY <2>2, HandlerSteps
  <2>3. ASSUME NEW i \in Links, Goroutine(i)
        PROVE  CountInv'
    BY <2>3, TestSteps, ReleaseStep DEF Goroutine
  <2>. QED
    BY <1>2, <2>1, <2>2, <2>3 DEF Next
<1>. QED
  BY <1>1, <1>2

-----------------------------------------------------------------------------
\* The flow of Nodes from the goroutines to the client.  The handler moves
\* Nodes along it, and only a send of testOne adds to it.
LEMMA FlowType ==
  ASSUME TypeOK
  PROVE  /\ Hand \in Seq(NodeType) /\ Hand \o nodeChan \in Seq(NodeType)
         /\ Flow \in Seq(NodeType)
<1>1. Hand \in Seq(NodeType)
  BY DEF TypeOK, Hand
<1>2. nodeChan \in Seq(NodeType) /\ replies \in Seq(NodeType)
  BY DEF TypeOK, TestTypeOK
<1>. QED
  BY <1>1, <1>2, ConcatProperties DEF Flow

LEMMA SameFlow ==
  ASSUME FlowFaithful, Flow' = Flow, Sent' = Sent, SentStays
  PROVE  FlowFaithful'
BY DEF FlowFaithful, SentStays

LEMMA ReceiveFlow ==
  ASSUME TypeOK, Receive
  PROVE  Flow' = Flow
<1>1. nodeChan \in Seq(NodeType) /\ nodeChan # <<>>
  BY DEF TypeOK, TestTypeOK, Receive
<1>2. <<Head(nodeChan)>> \o Tail(nodeChan) = nodeChan
  <2>1. /\ Head(nodeChan) \in NodeType /\ Tail(nodeChan) \in Seq(NodeType)
        /\ Len(Tail(nodeChan)) = Len(nodeChan) - 1
        /\ \A i \in 1 .. Len(Tail(nodeChan)) : Tail(nodeChan)[i] = nodeChan[i + 1]
        /\ Len(nodeChan) \in Nat \ {0}
    BY <1>1, HeadTailProperties, EmptySeq
  <2>. QED
    BY <1>1, <2>1
<1>3. Hand = <<>> /\ Hand' = <<Head(nodeChan)>>
  BY DEF Hand, Receive
<1>4. Hand \o nodeChan = nodeChan
  BY <1>1, <1>3, ConcatEmptySeq
<1>. QED
  BY <1>2, <1>3, <1>4 DEF Flow, Receive

LEMMA ReplyFlow ==
  ASSUME TypeOK, SendReply
  PROVE  Flow' = Flow
<1>1. nodeChan \in Seq(NodeType) /\ replies \in Seq(NodeType) /\ inHand \in NodeType
  BY DEF TypeOK, TestTypeOK
<1>2. Hand = <<inHand>> /\ Hand' = <<>> /\ nodeChan' = nodeChan
  BY DEF Hand, SendReply, testVars
<1>3. Hand' \o nodeChan' = nodeChan
  BY <1>1, <1>2, ConcatEmptySeq
<1>4. replies' = replies \o <<inHand>>
  BY <1>1 DEF SendReply
<1>5. <<inHand>> \in Seq(NodeType)
  BY <1>1
<1>6. (replies \o <<inHand>>) \o nodeChan = replies \o (<<inHand>> \o nodeChan)
  BY <1>1, <1>5, ConcatAssociative
<1>. QED
  BY <1>2, <1>3, <1>4, <1>6 DEF Flow

\* A Node sent comes last in the flow, under the id of its goroutine.
LEMMA FlowGrows ==
  ASSUME TypeOK, NEW i \in Links, SendsOwnNode(i), UNCHANGED <<hpc, inHand, replies>>
  PROVE  /\ NodeOf(i) \in NodeType /\ NodeOf(i).id = i
         /\ Flow' = Append(Flow, NodeOf(i))
<1>0. NodeOf(i) \in NodeType /\ NodeOf(i).id = i
  <2>1. IdOf(i) = i
    BY NoIdsAssumption DEF TypeOK, TestTypeOK, IdOf
  <2>2. i \in Nat /\ traffic[i] \in Nat
    BY CountsAssumption DEF TypeOK, TestTypeOK, Links
  <2>. QED
    BY <2>1, <2>2 DEF NodeOf, PingNode, SpeedNode, NodeType
<1>1. Flow' = Append(Flow, NodeOf(i))
  <2>1. /\ nodeChan \in Seq(NodeType) /\ replies \in Seq(NodeType) /\ Hand \in Seq(NodeType)
        /\ Hand \o nodeChan \in Seq(NodeType) /\ <<NodeOf(i)>> \in Seq(NodeType)
    BY <1>0, FlowType DEF TypeOK, TestTypeOK
  <2>2. Hand' = Hand /\ replies' = replies /\ nodeChan' = nodeChan \o <<NodeOf(i)>>
    BY <2>1 DEF Hand, SendsOwnNode
  <2>3. Hand \o (nodeChan \o <<NodeOf(i)>>) = (Hand \o nodeChan) \o <<NodeOf(i)>>
    BY <2>1, ConcatAssociative
  <2>4. replies \o ((Hand \o nodeChan) \o <<NodeOf(i)>>)
          = (replies \o (Hand \o nodeChan)) \o <<NodeOf(i)>>
    BY <2>1, ConcatAssociative
  <2>5. Flow' = Flow \o <<NodeOf(i)>>
    BY <2>2, <2>3, <2>4 DEF Flow
  <2>. QED
    BY <1>0, <2>5, FlowType
<1>. QED
  BY <1>0, <1>1

LEMMA SendFlow ==
  ASSUME TypeOK, FlowFaithful, SentStays, NEW i \in Links, SendsOwnNode(i),
         NodeOf(i)' = NodeOf(i), UNCHANGED <<job, hpc, inHand, replies>>
  PROVE  FlowFaithful'
<1>1. NodeOf(i) \in NodeType /\ NodeOf(i).id = i /\ Flow' = Append(Flow, NodeOf(i))
  BY FlowGrows
<1>2. Flow \in Seq(NodeType) /\ Len(Flow) \in Nat
  BY FlowType
<1>3. /\ Len(Flow') = Len(Flow) + 1 /\ Flow'[Len(Flow) + 1] = NodeOf(i)
      /\ \A k \in 1 .. Len(Flow) : Flow'[k] = Flow[k]
      /\ \A k \in 1 .. Len(Flow) + 1 : k \in 1 .. Len(Flow) \/ k = Len(Flow) + 1
  BY <1>1, <1>2
<1>4. \A k \in 1 .. Len(Flow) :
        \E j \in Sent : Flow[k] = NodeOf(j) /\ Flow[k].id = j /\ j # i
  BY DEF FlowFaithful, SendsOwnNode
<1>5. \A k \in 1 .. Len(Flow) :
        \E j \in Sent' : Flow'[k] = NodeOf(j)' /\ Flow'[k].id = j /\ j # i
  BY <1>3, <1>4 DEF SentStays, SendsOwnNode
<1>6. i \in Sent' /\ Flow'[Len(Flow) + 1] = NodeOf(i)' /\ Flow'[Len(Flow) + 1].id = i
  BY <1>1, <1>3 DEF SendsOwnNode
<1>7. \A k \in 1 .. Len(Flow') : \E j \in Sent' : Flow'[k] = NodeOf(j)' /\ Flow'[k].id = j
  BY <1>3, <1>5, <1>6
<1>8. \A k, m \in 1 .. Len(Flow') : Flow'[k].id = Flow'[m].id => k = m
  BY <1>3, <1>5, <1>6 DEF FlowFaithful
<1>. QED
  BY <1>7, <1>8 DEF FlowFaithful

-----------------------------------------------------------------------------
LEMMA InitInd == Init => IndInv
<1>. SUFFICES ASSUME Init PROVE IndInv
  OBVIOUS
<1>. USE DEF Init, TestInit
<1>1. CountInv
  BY InitCount
<1>2. Measured
  BY CountsAssumption DEF Measured, MeasuredAt, HasSent, InSpeed, BeforeSend, BeforeSpeed
<1>3. Flow = <<>>
  BY DEF Flow, Hand
<1>4. FlowFaithful
  BY <1>3 DEF FlowFaithful
<1>. QED
  BY <1>1, <1>2, <1>4 DEF IndInv

LEMMA StepInd == IndInv /\ [Next]_vars => IndInv'
<1>. SUFFICES ASSUME IndInv, [Next]_vars PROVE IndInv'
  OBVIOUS
<1>1. CountInv'
  BY StepCount DEF IndInv
<1>2. /\ CountInv /\ TypeOK /\ TestTypeOK /\ PastParser /\ Measured /\ FlowFaithful
      /\ Selecting /\ StartedInOrder
  BY DEF IndInv, CountInv, TypeOK
<1>3. CASE Receive \/ SendReply
  <2>1. Flow' = Flow
    BY <1>2, <1>3, ReceiveFlow, ReplyFlow
  <2>2. Measured' /\ Sent' = Sent /\ SentStays
    BY <1>2, <1>3, RestStep DEF Receive, SendReply, testVars, workerVars
  <2>. QED
    BY <1>1, <1>2, <2>1, <2>2, SameFlow DEF IndInv
<1>4. CASE SendFails \/ Return \/ Cancel \/ AddOne \/ GiveUp \/ UNCHANGED vars
  <2>1. UNCHANGED <<job, pc, ping, traffic, nodeChan, inHand, replies>>
    BY <1>4 DEF SendFails, Return, Cancel, AddOne, GiveUp, vars, testVars, workerVars, allVars
  <2>2. Hand' = Hand
    BY <1>4 DEF SendFails, Return, Cancel, AddOne, GiveUp, vars, testVars, allVars, Hand
  <2>3. Flow' = Flow
    BY <2>1, <2>2 DEF Flow
  <2>4. Measured' /\ Sent' = Sent /\ SentStays
    BY <1>2, <2>1, RestStep
  <2>. QED
    BY <1>1, <1>2, <2>3, <2>4, SameFlow DEF IndInv
<1>5. CASE Spawn
  <2>1. next \in Links /\ pc[next] = "idle"
    BY <1>2, <1>5, CountsAssumption DEF Spawn, Selecting, StartedInOrder, TypeOK, Links
  <2>2. Measured' /\ Sent' = Sent /\ SentStays
    BY <1>2, <1>5, <2>1, OutsideStep DEF Spawn
  <2>3. Flow' = Flow
    BY <1>5 DEF Spawn, Flow, Hand
  <2>. QED
    BY <1>1, <1>2, <2>2, <2>3, SameFlow DEF IndInv
<1>6. ASSUME NEW i \in Links, Release(i)
      PROVE  IndInv'
  <2>1. Measured' /\ Sent' = Sent /\ SentStays
    BY <1>2, <1>6, OutsideStep DEF Release, Goto
  <2>2. Flow' = Flow
    BY <1>6 DEF Release, allVars, Flow, Hand
  <2>. QED
    BY <1>1, <1>2, <2>1, <2>2, SameFlow DEF IndInv
<1>7. ASSUME NEW i \in Links, TestOneStep(i), UNCHANGED allVars
      PROVE  IndInv'
  <2>1. Measured' /\ SentStays /\ job' = job
    <3>1. job' = job
      BY <1>7 DEF TestOneStep, RejectLink, SkipPing, StartPing, GotPing, DeadVerdict,
         PingOnlyVerdict, PingPassed, SendPingNode, StartSpeed, DownloadSample, EndDownload,
         DecideUpload, StartUpload, UploadSample, EndUpload, SendSpeedNode, WgDone
    <3>. QED
      BY <1>2, <1>7, <3>1, MeasuringStep, SentStep
  <2>2. CASE SendsNothing
    <3>1. Flow' = Flow /\ Sent' = Sent
      BY <1>7, <2>2 DEF SendsNothing, allVars, Flow, Hand
    <3>. QED
      BY <1>1, <1>2, <2>1, <3>1, SameFlow DEF IndInv
  <2>3. CASE SendsOwnNode(i) /\ NodeOf(i)' = NodeOf(i)
    BY <1>1, <1>2, <1>7, <2>1, <2>3, SendFlow DEF IndInv, allVars
  <2>. QED
    BY <1>2, <1>7, <2>2, <2>3, SendingStep
<1>. QED
  BY <1>3, <1>4, <1>5, <1>6, <1>7 DEF Next, Dispatcher, Handler, Goroutine

\* The inductive invariant holds throughout: no Node is lost or doubled between
\* the goroutine that sends it and the reply it ends in.
THEOREM CountersSound == Spec => []IndInv
BY InitInd, StepInd, PTL DEF Spec

\* The semaphore of TestAll bounds the goroutines, for every number of links.
THEOREM ConcurrencyBounded == Spec => []AtMostConcurrency
<1>1. IndInv => AtMostConcurrency
  BY DEF IndInv, CountInv, SlotsCounted, AtMostConcurrency
<1>. QED
  BY <1>1, CountersSound, PTL

\* A goroutine that has its Node ready finds room in nodeChan, also when the
\* handler has returned and receives no more.
THEOREM RoomForEveryNode == Spec => []SendNeverBlocks
<1>1. ASSUME IndInv PROVE SendNeverBlocks
  <2>. SUFFICES ASSUME NEW i \in Links, pc[i] \in {"failed", "passed"}
                PROVE  Len(nodeChan) < LinksCount
    BY DEF SendNeverBlocks, NodeChanCap
  <2>1. Sent \subseteq Links /\ i \notin Sent
    BY DEF Sent, HasSent
  <2>2. Cardinality(Sent) \in Nat /\ Cardinality(Sent) < LinksCount
    BY <2>1, SetsOfLinks, CountsAssumption
  <2>. QED
    BY <1>1, <2>2, CountsAssumption DEF IndInv, CountInv, NodesCounted, TypeOK, TestTypeOK
<1>. QED
  BY <1>1, CountersSound, PTL

\* When no link is lost, by giving up or by the parser, the handler that counts
\* to the number of links is never left without a Node to come.
THEOREM NeverStranded == Spec => []StrandedOnlyByLoss
<1>1. ASSUME IndInv PROVE StrandedOnlyByLoss
  <2>. SUFFICES ASSUME Stranded, dpc # "cancelled", \A i \in Links : Parses(i)
                PROVE  FALSE
    BY DEF StrandedOnlyByLoss
  <2>1. Sent = Links
    <3>1. \A i \in Links : pc[i] = "gone"
      BY <1>1, CountsAssumption DEF Stranded, IndInv, CountInv, StartedInOrder, Links
    <3>. QED
      BY <3>1 DEF Sent, HasSent
  <2>2. Cardinality(Sent) = LinksCount
    BY <2>1, FS_Interval, CountsAssumption DEF Links
  <2>. QED
    BY <1>1, <2>2, CountsAssumption DEF Stranded, Counting, IndInv, CountInv, NodesCounted, TypeOK
<1>. QED
  BY <1>1, CountersSound, PTL

\* The client gets at most one reply per link, and each reply is what the
\* link's own goroutine has measured, in whatever order the tests end and
\* whenever the call is cancelled.
THEOREM RepliesAreFaithful == Spec => []RepliesFaithful
<1>1. ASSUME IndInv PROVE RepliesFaithful
  <2>1. replies \in Seq(NodeType) /\ Len(replies) \in Nat /\ Hand \o nodeChan \in Seq(NodeType)
    BY <1>1, FlowType DEF IndInv, CountInv, TypeOK
  <2>2. /\ Len(Flow) = Len(replies) + Len(Hand \o nodeChan) /\ Len(Hand \o nodeChan) \in Nat
        /\ \A k \in 1 .. Len(replies) : Flow[k] = replies[k]
    BY <2>1, ConcatProperties DEF Flow
  <2>3. \A k \in 1 .. Len(replies) : k \in 1 .. Len(Flow)
    BY <2>1, <2>2
  <2>4. FlowFaithful
    BY <1>1 DEF IndInv
  <2>. QED
    BY <2>2, <2>3, <2>4 DEF FlowFaithful, RepliesFaithful, Sent
<1>. QED
  BY <1>1, CountersSound, PTL

-----------------------------------------------------------------------------
\* TestAll and its handler as a stream of results.

LEMMA StreamInit == Init => Promise!Init
<1>. SUFFICES ASSUME Init PROVE Promise!Init
  OBVIOUS
<1>. USE DEF Init, TestInit
<1>1. streamStatus = [i \in Links |-> "queued"] /\ streamCall = "open"
  BY DEF streamStatus, streamCall
<1>2. Flow = << >> /\ Len(replies) = 0
  BY DEF Flow, Hand
<1>. QED
  BY <1>1, <1>2 DEF Promise!Init, Promise!Tests, Links

\* A step of goroutine i in testOne is nothing to the stream, or finds the
\* result, or finishes the test.
LEMMA StreamTest ==
  ASSUME IndInv, NEW i \in Links, TestOneStep(i), UNCHANGED allVars
  PROVE  [Promise!Next]_(Promise!vars)
<1>0. /\ TypeOK /\ TestTypeOK /\ PastParser /\ Measured /\ pc \in [Links -> Places]
      /\ pc[i] \in InTest
  BY StepInTest DEF IndInv, CountInv, TypeOK, TestTypeOK
<1>1. /\ UNCHANGED <<hpc, inHand, replies>>
      /\ streamCall' = streamCall /\ Len(replies)' = Len(replies)
  BY DEF allVars, streamCall
<1>2. SendsNothing \/ (SendsOwnNode(i) /\ NodeOf(i)' = NodeOf(i))
  BY <1>0, SendingStep
<1>3. SendsNothing => Flow' = Flow
  BY <1>1 DEF SendsNothing, Flow, Hand
<1>4. CASE WgDone(i)
  <2>1. pc' = [pc EXCEPT ![i] = "tested"] /\ pc[i] = "returning" /\ nodeChan' = nodeChan
    BY <1>4 DEF WgDone, Goto
  <2>2. streamStatus' = [streamStatus EXCEPT ![i] = "finished"] /\ streamStatus[i] = "running"
    BY <1>0, <2>1 DEF streamStatus, InTest, BeforeSend
  <2>3. Flow' = Flow
    BY <1>1, <2>1 DEF Flow, Hand
  <2>. QED
    BY <1>1, <2>2, <2>3 DEF Promise!Next, Promise!Finish, Promise!Tests, Links
<1>5. CASE ~WgDone(i)
  <2>1. \A j \in Links : (pc'[j] = "idle" <=> pc[j] = "idle")
                         /\ (pc'[j] \in InTest <=> pc[j] \in InTest)
    <3>1. \A j \in Links \ {i} : pc'[j] = pc[j]
      BY <1>0, OthersKeep
    <3>2. pc[i] # "idle" /\ pc[i] \in InTest /\ pc'[i] # "idle" /\ pc'[i] \in InTest
      BY <1>0, <1>5 DEF TestOneStep, RejectLink, SkipPing, StartPing, GotPing, DeadVerdict,
         PingOnlyVerdict, PingPassed, SendPingNode, StartSpeed, DownloadSample, EndDownload,
         DecideUpload, StartUpload, UploadSample, EndUpload, SendSpeedNode, Goto,
         InTest, BeforeSend
    <3>. QED
      BY <3>1, <3>2
  <2>2. streamStatus' = streamStatus
    <3>1. Links' = Links /\ InTest' = InTest
      BY DEF Links, InTest, BeforeSend
    <3>. QED
      BY <2>1, <3>1 DEF streamStatus
  <2>3. CASE SendsNothing
    BY <1>1, <1>3, <2>2, <2>3 DEF Promise!vars
  <2>4. CASE SendsOwnNode(i) /\ NodeOf(i)' = NodeOf(i)
    <3>1. NodeOf(i).id = i /\ Flow' = Append(Flow, NodeOf(i)) /\ Flow \in Seq(NodeType)
          /\ NodeOf(i) \in NodeType
      BY <1>0, <1>1, <2>4, FlowGrows, FlowType
    <3>2. streamStatus[i] = "running"
      BY <1>0, <2>4 DEF streamStatus, InTest, BeforeSend
    <3>3. ~Promise!Found(i)
      BY <2>4, <3>1 DEF Promise!Found, IndInv, FlowFaithful, SendsOwnNode
    <3>4. Len(Flow) + 1 \in DOMAIN Flow' /\ Flow'[Len(Flow) + 1] = NodeOf(i)
      BY <3>1
    <3>5. Promise!Find(i)
      BY <1>1, <2>2, <3>1, <3>2, <3>3, <3>4 DEF Promise!Find
    <3>. QED
      BY <3>5 DEF Promise!Next, Promise!Tests, Links
  <2>. QED
    BY <1>2, <2>3, <2>4
<1>. QED
  BY <1>4, <1>5

LEMMA StreamStart ==
  ASSUME IndInv, Spawn
  PROVE  Promise!Next
<1>. USE DEF Spawn
<1>0. /\ TypeOK /\ TestTypeOK /\ SlotsCounted /\ Selecting /\ StartedInOrder
      /\ pc \in [Links -> Places]
  BY DEF IndInv, CountInv, TypeOK, TestTypeOK
<1>1. next \in Links /\ pc[next] = "idle" /\ \A u \in 0 .. next - 1 : u \in Links /\ pc[u] # "idle"
  BY <1>0, CountsAssumption DEF Selecting, StartedInOrder, TypeOK, Links
<1>2. streamStatus' = [streamStatus EXCEPT ![next] = "running"]
      /\ streamStatus[next] = "queued" /\ \A u \in 0 .. next - 1 : streamStatus[u] # "queued"
  BY <1>0, <1>1 DEF streamStatus, InTest, BeforeSend
<1>3. Flow' = Flow /\ streamCall' = streamCall /\ Len(replies)' = Len(replies)
  BY DEF Flow, Hand, streamCall
<1>4. Promise!Cardinality(Promise!Running) < Concurrency
  <2>1. Promise!Running = Testing
    BY DEF Promise!Running, Promise!Tests, streamStatus, Testing, Links, InTest, BeforeSend
  <2>2. Testing \subseteq Holding /\ Holding \subseteq Links
    BY DEF Testing, Holding, InTest, BeforeSend
  <2>3. Cardinality(Testing) <= Cardinality(Holding)
    BY <2>2, SetsOfLinks, FS_Subset
  <2>4. Cardinality(Testing) \in Nat /\ Cardinality(Holding) \in Nat
    BY <2>2, SetsOfLinks
  <2>5. Promise!Cardinality(Testing) = Cardinality(Testing)
    BY DEF Promise!Cardinality, Cardinality
  <2>. QED
    BY <1>0, <2>1, <2>3, <2>4, <2>5, CountsAssumption DEF SlotsCounted
<1>. QED
  BY <1>1, <1>2, <1>3, <1>4 DEF Promise!Next, Promise!Start, Promise!Tests, Links

\* With as many replies as links every link has one: their ids differ.
LEMMA EveryLinkTold ==
  ASSUME IndInv, Len(replies) = LinksCount
  PROVE  \A i \in Links : Promise!Found(i)
<1>1. /\ Len(Flow) \in Nat /\ LinksCount \in Nat /\ Flow \in Seq(NodeType)
      /\ LinksCount <= Len(Flow)
  <2>1. /\ replies \in Seq(NodeType) /\ Hand \o nodeChan \in Seq(NodeType)
        /\ Flow \in Seq(NodeType)
    BY FlowType DEF IndInv, CountInv, TypeOK
  <2>2. Len(Hand \o nodeChan) \in Nat /\ Len(replies) \in Nat /\ Len(Flow) \in Nat
    BY <2>1
  <2>3. Len(Flow) = Len(replies) + Len(Hand \o nodeChan)
    BY <2>1, ConcatProperties DEF Flow
  <2>. QED
    BY <2>1, <2>2, <2>3, CountsAssumption
<1>. DEFINE ids == [k \in 1 .. LinksCount |-> Flow[k].id]
            Told == {ids[k] : k \in 1 .. LinksCount}
<1>2. \A k \in 1 .. LinksCount : ids[k] \in Links /\ k \in DOMAIN Flow /\ Flow[k].id = ids[k]
  BY <1>1 DEF IndInv, FlowFaithful, Sent
<1>3. ids \in Bijection(1 .. LinksCount, Told)
  <2>1. \A k, m \in 1 .. LinksCount : ids[k] = ids[m] => k = m
    BY <1>1 DEF IndInv, FlowFaithful
  <2>2. ids \in Injection(1 .. LinksCount, Told)
    <3>1. ids \in [1 .. LinksCount -> Told]
      OBVIOUS
    <3>. QED
      BY <2>1, <3>1 DEF Injection, IsInjective
  <2>3. ids \in Surjection(1 .. LinksCount, Told)
    BY DEF Surjection
  <2>. QED
    BY <2>2, <2>3 DEF Bijection
<1>4. Cardinality(Told) = LinksCount
  <2>. HIDE DEF ids, Told
  <2>1. IsFiniteSet(1 .. LinksCount) /\ Cardinality(1 .. LinksCount) = LinksCount
    BY <1>1, FS_Interval
  <2>. QED
    BY <1>3, <2>1, FS_Bijection DEF ExistsBijection
<1>5. Told = Links
  <2>1. Told \subseteq Links
    BY <1>2
  <2>. QED
    BY <1>4, <2>1, SetsOfLinks
<1>. QED
  BY <1>2, <1>5 DEF Promise!Found

\* The handler tells what is in its hand, breaks, or completes the call.
LEMMA StreamHandler ==
  ASSUME IndInv, SendReply \/ SendFails \/ Return
  PROVE  Promise!Next
<1>0. /\ TypeOK /\ replies \in Seq(NodeType) /\ inHand \in NodeType
      /\ Len(replies) \in Nat /\ Len(replies) <= LinksCount
  BY DEF IndInv, CountInv, TypeOK
<1>1. UNCHANGED pc /\ streamStatus' = streamStatus
  <2>1. UNCHANGED pc
    BY DEF SendReply, SendFails, Return, testVars, workerVars
  <2>2. Links' = Links /\ InTest' = InTest
    BY DEF Links, InTest, BeforeSend
  <2>. QED
    BY <2>1, <2>2 DEF streamStatus
<1>2. ASSUME hpc = "sending" PROVE Len(replies) < Len(Flow)
  <2>1. Hand \o nodeChan \in Seq(NodeType) /\ nodeChan \in Seq(NodeType)
    BY <1>0, FlowType DEF TypeOK, TestTypeOK
  <2>2. Hand = <<inHand>>
    BY <1>2 DEF Hand
  <2>3. Len(Hand \o nodeChan) = 1 + Len(nodeChan) /\ Len(nodeChan) \in Nat
    BY <1>0, <2>1, <2>2, ConcatProperties
  <2>4. Len(Flow) = Len(replies) + Len(Hand \o nodeChan)
    BY <1>0, <2>1, ConcatProperties DEF Flow
  <2>. QED
    BY <1>0, <2>3, <2>4
<1>3. CASE SendReply
  <2>1. Flow' = Flow /\ Len(replies)' = Len(replies) + 1
    BY <1>0, <1>3, ReplyFlow DEF SendReply
  <2>2. streamCall = "open" /\ streamCall' = streamCall /\ hpc = "sending"
    BY <1>3 DEF SendReply, streamCall
  <2>. QED
    BY <1>1, <1>2, <2>1, <2>2 DEF Promise!Next, Promise!Tell
<1>4. CASE SendFails
  <2>1. Flow' = Flow /\ Len(replies)' = Len(replies)
    BY <1>4 DEF SendFails, Flow, Hand
  <2>2. streamCall = "open" /\ streamCall' = "broken" /\ hpc = "sending"
    BY <1>4 DEF SendFails, streamCall
  <2>. QED
    BY <1>1, <1>2, <2>1, <2>2 DEF Promise!Next, Promise!Break
<1>5. CASE Return
  <2>1. Flow' = Flow /\ Len(replies)' = Len(replies)
    BY <1>5 DEF Return, Flow, Hand
  <2>2. streamCall = "open" /\ streamCall' = "complete"
    BY <1>5 DEF Return, streamCall
  <2>3. Len(replies) = LinksCount
    BY <1>0, <1>5, CountsAssumption DEF Return, Counting
  <2>4. \A i \in Links : Promise!Found(i)
    BY <2>3, EveryLinkTold
  <2>. QED
    BY <1>1, <2>1, <2>2, <2>3, <2>4 DEF Promise!Next, Promise!Complete, Promise!Tests, Links
<1>. QED
  BY <1>3, <1>4, <1>5

\* The client sees nothing of the rest.
LEMMA StreamUnseen ==
  ASSUME IndInv,
         \/ UNCHANGED vars
         \/ AddOne \/ GiveUp \/ Receive \/ Cancel
         \/ \E i \in Links : Release(i)
  PROVE  UNCHANGED Promise!vars
<1>0. TypeOK /\ pc \in [Links -> Places]
  BY DEF IndInv, CountInv, TypeOK, TestTypeOK
<1>1. UNCHANGED replies /\ streamCall' = streamCall
  BY DEF AddOne, GiveUp, Receive, Cancel, Release, vars, allVars, streamCall
<1>2. Flow' = Flow
  <2>1. CASE Receive
    BY <1>0, <2>1, ReceiveFlow
  <2>2. CASE ~Receive
    BY <2>2 DEF AddOne, GiveUp, Cancel, Release, vars, testVars, allVars, Flow, Hand
  <2>. QED
    BY <2>1, <2>2
<1>3. streamStatus' = streamStatus
  <2>1. Links' = Links /\ InTest' = InTest
    BY DEF Links, InTest, BeforeSend
  <2>2. CASE UNCHANGED pc
    BY <2>1, <2>2 DEF streamStatus
  <2>3. ASSUME NEW i \in Links, Release(i) PROVE streamStatus' = streamStatus
    BY <1>0, <2>3 DEF Release, Goto, streamStatus, InTest, BeforeSend
  <2>. QED
    BY <2>2, <2>3 DEF AddOne, GiveUp, Receive, Cancel, vars, testVars, workerVars
<1>. QED
  BY <1>1, <1>2, <1>3 DEF Promise!vars

\* TestAll with its handler is a stream, for any number of links and any
\* concurrency: the client is told the results in the order in which they were
\* found, each once and unchanged, and the call is complete only with a result
\* of every link.
THEOREM StreamKept == Spec => StreamsAsPromised
<1>1. IndInv /\ [Next]_vars => [Promise!Next]_(Promise!vars)
  <2>. SUFFICES ASSUME IndInv, [Next]_vars PROVE [Promise!Next]_(Promise!vars)
    OBVIOUS
  <2>. QED
    BY StreamTest, StreamStart, StreamHandler, StreamUnseen DEF Next, Dispatcher, Handler, Goroutine
<1>. QED
  BY <1>1, StreamInit, CountersSound, PTL DEF Spec, StreamsAsPromised, Promise!Spec
=============================================================================
