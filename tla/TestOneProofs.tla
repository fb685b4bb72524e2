--------------------------- MODULE TestOneProofs ---------------------------
(***************************************************************************)
(* What a step of testOne does to the counters that goroutines share, for  *)
(* the proofs about both dispatchers: it moves wg with the number of tests *)
(* under way, and the length of nodeChan with the number of Nodes sent.    *)
(***************************************************************************)
EXTENDS TestOne, FiniteSetTheorems, TLAPS

\* Every set of goroutines is finite, and no larger than the batch.
LEMMA SetsOfLinks ==
  ASSUME NEW S, S \subseteq Links
  PROVE  /\ IsFiniteSet(S)
         /\ Cardinality(S) \in Nat
         /\ Cardinality(S) <= LinksCount
         /\ Cardinality(S) = LinksCount => S = Links
<1>1. IsFiniteSet(Links) /\ Cardinality(Links) = LinksCount
  <2>1. LinksCount \in Nat
    BY CountsAssumption
  <2>2. IsFiniteSet(0 .. LinksCount - 1)
        /\ Cardinality(0 .. LinksCount - 1) =
             IF 0 > LinksCount - 1 THEN 0 ELSE (LinksCount - 1) - 0 + 1
    BY <2>1, FS_Interval
  <2>. QED
    BY <2>1, <2>2, CountsAssumption DEF Links
<1>2. IsFiniteSet(S) /\ Cardinality(S) <= Cardinality(Links)
      /\ (Cardinality(S) = Cardinality(Links) => S = Links)
  BY <1>1, FS_Subset
<1>. QED
  BY <1>1, <1>2, FS_CardinalityType

\* Goroutine i joins, or leaves, a set of goroutines: the count moves by one.
LEMMA Joins ==
  ASSUME NEW S, NEW T, NEW i \in Links,
         S \subseteq Links, T \subseteq Links, i \notin S, T = S \cup {i}
  PROVE  Cardinality(T) = Cardinality(S) + 1
BY SetsOfLinks, FS_AddElement

LEMMA Leaves ==
  ASSUME NEW S, NEW T, NEW i \in Links,
         S \subseteq Links, T \subseteq Links, i \in S, T = S \ {i}
  PROVE  Cardinality(T) = Cardinality(S) - 1
BY SetsOfLinks, FS_RemoveElement

\* A set that goroutine i is in counts at least one.
LEMMA Member ==
  ASSUME NEW S, NEW i \in Links, S \subseteq Links, i \in S
  PROVE  Cardinality(S) > 0
<1>1. Cardinality(S \ {i}) = Cardinality(S) - 1 /\ Cardinality(S \ {i}) \in Nat
  BY SetsOfLinks, Leaves
<1>. QED
  BY <1>1, SetsOfLinks

\* Writing a message keeps the logs well formed.
LEMMA SayType ==
  ASSUME NEW i \in Links, NEW m \in Messages,
         log \in [Links -> Seq(Messages)], Say(i, m)
  PROVE  log' \in [Links -> Seq(Messages)]
BY DEF Say

-----------------------------------------------------------------------------
\* What every step of goroutine i inside testOne leaves as it is: its slot,
\* who has started, and the balance of the two counts.
Balanced ==
  /\ Holding' = Holding
  /\ \A j \in Links : pc'[j] = "idle" <=> pc[j] = "idle"
  /\ wg' - Cardinality(Testing') = wg - Cardinality(Testing)
  /\ Len(nodeChan') - Cardinality(Sent') = Len(nodeChan) - Cardinality(Sent)
Kept == TestTypeOK' /\ PastParser' /\ Balanced /\ UNCHANGED <<job, ctxDone, guard>>

\* A step that sends nothing.
LEMMA QuietStep ==
  ASSUME TestTypeOK, PastParser, NEW i \in Links, NEW to,
         pc[i] \in BeforeSend, pc' = [pc EXCEPT ![i] = to],
         (to \in BeforeSend /\ Parses(i)) \/ (to = "returning" /\ ~Parses(i)),
         UNCHANGED <<job, ctxDone, wg, guard, nodeChan>>,
         log' \in [Links -> Seq(Messages)],
         ping' \in [Links -> PingOutcomes \cup {"none"}],
         traffic' \in [Links -> Nat]
  PROVE  Kept
<1>1. pc' \in [Links -> Places] /\ to \in InTest
  BY DEF TestTypeOK, Places, InTest
<1>2. TestTypeOK'
  BY <1>1 DEF TestTypeOK
<1>3. Holding' = Holding /\ Testing' = Testing /\ Sent' = Sent
  BY <1>1 DEF TestTypeOK, Holding, Testing, Sent, HasSent, Parses, InTest, BeforeSend
<1>4. Balanced
  BY <1>1, <1>3 DEF TestTypeOK, Balanced, InTest, BeforeSend
<1>5. PastParser'
  BY <1>1 DEF TestTypeOK, PastParser, Parses, BeforeSend
<1>. QED
  BY <1>2, <1>4, <1>5 DEF Kept

\* A step that puts a Node into the channel.
LEMMA SendStep ==
  ASSUME TestTypeOK, PastParser, NEW i \in Links, NEW node \in NodeType,
         Parses(i), pc[i] \in BeforeSend, pc' = [pc EXCEPT ![i] = "returning"],
         nodeChan' = Append(nodeChan, node),
         UNCHANGED <<job, ctxDone, wg, guard, log, ping, traffic>>
  PROVE  Kept
<1>1. pc' \in [Links -> Places]
  BY DEF TestTypeOK, Places, InTest
<1>2. TestTypeOK'
  BY <1>1 DEF TestTypeOK
<1>3. Holding' = Holding /\ Testing' = Testing
  BY DEF TestTypeOK, Holding, Testing, InTest, BeforeSend
<1>4. Sent' = Sent \cup {i} /\ i \notin Sent
  BY DEF TestTypeOK, Sent, HasSent, Parses, BeforeSend
<1>5. Cardinality(Sent') = Cardinality(Sent) + 1 /\ Cardinality(Sent) \in Nat
  BY <1>4, Joins, SetsOfLinks DEF Sent
<1>6. Len(nodeChan') = Len(nodeChan) + 1 /\ Len(nodeChan) \in Nat
  BY DEF TestTypeOK
<1>7. Len(nodeChan') - Cardinality(Sent') = Len(nodeChan) - Cardinality(Sent)
  BY <1>5, <1>6
<1>8. \A j \in Links : pc'[j] = "idle" <=> pc[j] = "idle"
  BY DEF TestTypeOK, BeforeSend
<1>9. Balanced
  BY <1>3, <1>7, <1>8 DEF Balanced
<1>10. PastParser'
  BY DEF TestTypeOK, PastParser, Parses, BeforeSend
<1>. QED
  BY <1>2, <1>9, <1>10 DEF Kept

\* The deferred wg.Done().
LEMMA WgDoneStep ==
  ASSUME TestTypeOK, PastParser, NEW i \in Links, WgDone(i), wg > 0
  PROVE  Kept
<1>. USE DEF WgDone, Goto
<1>1. pc' \in [Links -> Places]
  BY DEF TestTypeOK, Places
<1>2. TestTypeOK'
  BY <1>1 DEF TestTypeOK
<1>3. Testing' = Testing \ {i} /\ i \in Testing
  BY DEF TestTypeOK, Testing, InTest, BeforeSend
<1>4. Cardinality(Testing') = Cardinality(Testing) - 1 /\ Cardinality(Testing) \in Nat
  BY <1>3, Leaves, SetsOfLinks DEF Testing
<1>5. Holding' = Holding /\ Sent' = Sent
  BY DEF TestTypeOK, Holding, Sent, HasSent, Parses
<1>6. wg' - Cardinality(Testing') = wg - Cardinality(Testing)
  BY <1>4 DEF TestTypeOK
<1>7. \A j \in Links : pc'[j] = "idle" <=> pc[j] = "idle"
  BY DEF TestTypeOK
<1>8. Balanced
  BY <1>5, <1>6, <1>7 DEF Balanced
<1>9. PastParser'
  BY DEF TestTypeOK, PastParser, Parses, BeforeSend
<1>. QED
  BY <1>2, <1>8, <1>9 DEF Kept

-----------------------------------------------------------------------------
\* A goroutine that takes a step of testOne stands in it.
LEMMA StepInTest ==
  ASSUME NEW i \in Links, TestOneStep(i)
  PROVE  pc[i] \in InTest
BY DEF TestOneStep, RejectLink, SkipPing, StartPing, GotPing, DeadVerdict, PingOnlyVerdict,
       PingPassed, SendPingNode, StartSpeed, DownloadSample, EndDownload, DecideUpload,
       StartUpload, UploadSample, EndUpload, SendSpeedNode, WgDone, Goto, InTest, BeforeSend

\* Every step of testOne is quiet, a send, or the deferred wg.Done().
LEMMA WorkerStep ==
  ASSUME TestTypeOK, PastParser, NEW i \in Links, TestOneStep(i),
         IdOf(i) \in Nat, wg > 0
  PROVE  Kept
<1>. USE DEF Goto
<1>0. /\ log \in [Links -> Seq(Messages)]
      /\ ping \in [Links -> PingOutcomes \cup {"none"}]
      /\ traffic \in [Links -> Nat]
      /\ pc[i] \in BeforeSend \ {"spawned"} => Parses(i)
  BY DEF TestTypeOK, PastParser
<1>1. CASE RejectLink(i)
  <2>1. pc[i] \in BeforeSend /\ pc' = [pc EXCEPT ![i] = "returning"] /\ ~Parses(i)
    BY <1>1 DEF RejectLink, BeforeSend
  <2>2. UNCHANGED <<job, ctxDone, wg, guard, nodeChan, log, ping, traffic>>
    BY <1>1 DEF RejectLink
  <2>. QED
    BY <1>0, <2>1, <2>2, QuietStep
<1>2. CASE SkipPing(i)
  BY <1>0, <1>2, QuietStep DEF SkipPing, BeforeSend
<1>3. CASE StartPing(i)
  BY <1>0, <1>3, QuietStep, SayType DEF StartPing, BeforeSend, Messages
<1>4. CASE GotPing(i)
  <2>1. log' \in [Links -> Seq(Messages)]
    BY <1>0, <1>4, SayType DEF GotPing, Messages
  <2>2. ping' \in [Links -> PingOutcomes \cup {"none"}]
    BY <1>0, <1>4 DEF GotPing, OutcomesOf, PingOutcomes
  <2>. QED
    BY <1>0, <1>4, <2>1, <2>2, QuietStep DEF GotPing, BeforeSend
<1>5. CASE DeadVerdict(i)
  <2>1. log' \in [Links -> Seq(Messages)]
    BY <1>0, <1>5, SayType DEF DeadVerdict, Messages
  <2>. QED
    BY <1>0, <1>5, <2>1, QuietStep DEF DeadVerdict, BeforeSend
<1>6. CASE PingOnlyVerdict(i)
  BY <1>0, <1>6, QuietStep, SayType DEF PingOnlyVerdict, BeforeSend, Messages
<1>7. CASE PingPassed(i)
  BY <1>0, <1>7, QuietStep DEF PingPassed, BeforeSend
<1>8. CASE StartSpeed(i)
  BY <1>0, <1>8, QuietStep, SayType DEF StartSpeed, BeforeSend, Messages
<1>9. CASE DownloadSample(i)
  <2>1. log' \in [Links -> Seq(Messages)]
    BY <1>0, <1>9, SayType DEF DownloadSample, Messages
  <2>2. traffic' \in [Links -> Nat]
    BY <1>0, <1>9 DEF DownloadSample
  <2>3. pc' = [pc EXCEPT ![i] = pc[i]]
    BY <1>9 DEF DownloadSample, TestTypeOK
  <2>. QED
    BY <1>0, <1>9, <2>1, <2>2, <2>3, QuietStep DEF DownloadSample, BeforeSend
<1>10. CASE EndDownload(i)
  <2>1. log' \in [Links -> Seq(Messages)]
    BY <1>0, <1>10, SayType DEF EndDownload, Messages
  <2>. QED
    BY <1>0, <1>10, <2>1, QuietStep DEF EndDownload, BeforeSend
<1>11. CASE DecideUpload(i)
  BY <1>0, <1>11, QuietStep DEF DecideUpload, BeforeSend
<1>12. CASE StartUpload(i)
  BY <1>0, <1>12, QuietStep, SayType DEF StartUpload, BeforeSend, Messages
<1>13. CASE UploadSample(i)
  <2>1. log' \in [Links -> Seq(Messages)]
    BY <1>0, <1>13, SayType DEF UploadSample, Messages
  <2>2. pc' = [pc EXCEPT ![i] = pc[i]]
    BY <1>13 DEF UploadSample, TestTypeOK
  <2>. QED
    BY <1>0, <1>13, <2>1, <2>2, QuietStep DEF UploadSample, BeforeSend
<1>14. CASE EndUpload(i)
  <2>1. log' \in [Links -> Seq(Messages)]
    BY <1>0, <1>14, SayType DEF EndUpload, Messages
  <2>. QED
    BY <1>0, <1>14, <2>1, QuietStep DEF EndUpload, BeforeSend
<1>15. CASE SendPingNode(i)
  <2>1. PingNode(i) \in NodeType
    BY <1>15 DEF SendPingNode, PingNode, NodeType
  <2>2. Parses(i)
    BY <1>0, <1>15 DEF SendPingNode, BeforeSend
  <2>. QED
    BY <1>15, <2>1, <2>2, SendStep DEF SendPingNode, Send, BeforeSend
<1>16. CASE SendSpeedNode(i)
  <2>1. SpeedNode(i) \in NodeType
    BY <1>0, <1>16 DEF SendSpeedNode, SpeedNode, NodeType
  <2>2. Parses(i)
    BY <1>0, <1>16 DEF SendSpeedNode, BeforeSend
  <2>. QED
    BY <1>16, <2>1, <2>2, SendStep DEF SendSpeedNode, Send, BeforeSend
<1>17. CASE WgDone(i)
  BY <1>17, WgDoneStep
<1>. QED
  BY <1>1, <1>2, <1>3, <1>4, <1>5, <1>6, <1>7, <1>8, <1>9, <1>10, <1>11, <1>12,
     <1>13, <1>14, <1>15, <1>16, <1>17 DEF TestOneStep

-----------------------------------------------------------------------------
\* The bytes of a set of goroutines, counted one goroutine at a time.
LEMMA BytesFinite ==
  ASSUME NEW S, S \subseteq Links
  PROVE  IsFiniteSet(Bytes(S)) /\ Cardinality(Bytes(S)) \in Nat
<1>1. IsFiniteSet(S) /\ IsFiniteSet(1 .. MaxSamples)
  BY SetsOfLinks, FS_Interval, CountsAssumption
<1>2. IsFiniteSet(S \X (1 .. MaxSamples))
  BY <1>1, FS_Product
<1>3. Bytes(S) \subseteq S \X (1 .. MaxSamples)
  BY DEF Bytes
<1>. QED
  BY <1>2, <1>3, FS_Subset, FS_CardinalityType

LEMMA BytesOfOneMore ==
  ASSUME NEW S, S \subseteq Links, NEW i \in Links, i \notin S,
         traffic \in [Links -> Nat], traffic[i] <= MaxSamples
  PROVE  Cardinality(Bytes(S \cup {i})) = Cardinality(Bytes(S)) + traffic[i]
<1>. DEFINE Own == {i} \X (1 .. traffic[i])
<1>0. traffic[i] \in Nat /\ MaxSamples \in Nat
  BY CountsAssumption
<1>1. IsFiniteSet(Own) /\ Cardinality(Own) = traffic[i]
  <2>1. IsFiniteSet({i}) /\ Cardinality({i}) = 1
    BY FS_Singleton
  <2>2. IsFiniteSet(1 .. traffic[i])
        /\ Cardinality(1 .. traffic[i]) = IF 1 > traffic[i] THEN 0 ELSE traffic[i] - 1 + 1
    <3>1. 1 \in Int /\ traffic[i] \in Int
      BY <1>0
    <3>. QED
      BY <3>1, FS_Interval
  <2>3. Cardinality(1 .. traffic[i]) = traffic[i]
    BY <1>0, <2>2
  <2>4. IsFiniteSet(Own) /\ Cardinality(Own) = 1 * Cardinality(1 .. traffic[i])
    BY <2>1, <2>2, FS_Product
  <2>. QED
    BY <1>0, <2>3, <2>4
<1>2. Bytes(S \cup {i}) = Bytes(S) \cup Own
  BY <1>0 DEF Bytes
<1>3. Bytes(S) \cap Own = {}
  BY DEF Bytes
<1>4. Cardinality(Bytes(S) \cup Own)
        = Cardinality(Bytes(S)) + Cardinality(Own) - Cardinality(Bytes(S) \cap Own)
  BY <1>1, BytesFinite, FS_Union
<1>5. Cardinality(Bytes(S) \cap Own) = 0
  BY <1>3, FS_EmptySet
<1>6. Cardinality(Bytes(S)) \in Nat
  BY BytesFinite
<1>7. Cardinality(Bytes(S) \cup Own) = Cardinality(Bytes(S)) + traffic[i]
  BY <1>0, <1>1, <1>4, <1>5, <1>6
<1>. QED
  BY <1>2, <1>7

-----------------------------------------------------------------------------
\* A step of goroutine i measures nothing for another goroutine.
LEMMA OthersKeep ==
  ASSUME TestTypeOK, NEW i \in Links, TestOneStep(i), NEW j \in Links, j # i
  PROVE  job' = job /\ pc'[j] = pc[j] /\ ping'[j] = ping[j] /\ traffic'[j] = traffic[j]
BY DEF TestTypeOK, TestOneStep, RejectLink, SkipPing, StartPing, GotPing, DeadVerdict,
       PingOnlyVerdict, PingPassed, SendPingNode, StartSpeed, DownloadSample, EndDownload,
       DecideUpload, StartUpload, UploadSample, EndUpload, SendSpeedNode, WgDone, Goto

\* What a Node says depends on the outcome, the bytes and the request alone.
LEMMA SameNode ==
  ASSUME NEW j \in Links, job' = job, ping'[j] = ping[j], traffic'[j] = traffic[j]
  PROVE  NodeOf(j)' = NodeOf(j) /\ EndsAtPing(j)' = EndsAtPing(j)
<1>1. EndsAtPing(j)' = EndsAtPing(j)
  BY DEF EndsAtPing, PingTolerated
<1>2. PingNode(j)' = PingNode(j)
  BY DEF PingNode, IdOf
<1>3. SpeedNode(j)' = SpeedNode(j)
  BY DEF SpeedNode, IdOf
<1>. QED
  BY <1>1, <1>2, <1>3 DEF NodeOf

LEMMA SameMeasure ==
  ASSUME NEW j \in Links, MeasuredAt(j), job' = job, pc'[j] = pc[j],
         ping'[j] = ping[j], traffic'[j] = traffic[j]
  PROVE  MeasuredAt(j)'
<1>1. EndsAtPing(j)' = EndsAtPing(j) /\ HasSent(j)' = HasSent(j)
  BY SameNode DEF HasSent, Parses
<1>. QED
  BY <1>1 DEF MeasuredAt

\* Goroutine i itself stays measured, step by step.
LEMMA OwnMeasure ==
  ASSUME TestTypeOK, PastParser, NEW i \in Links, MeasuredAt(i), TestOneStep(i)
  PROVE  MeasuredAt(i)'
<1>. USE DEF Goto, MeasuredAt, BeforeSpeed, InSpeed, BeforeSend, HasSent, Parses,
             EndsAtPing, PingTolerated
<1>0. /\ pc \in [Links -> Places] /\ ping \in [Links -> PingOutcomes \cup {"none"}]
      /\ traffic \in [Links -> Nat] /\ MaxSamples \in Nat
  BY CountsAssumption DEF TestTypeOK
<1>1. CASE RejectLink(i) \/ SkipPing(i) \/ StartPing(i)
  BY <1>0, <1>1 DEF RejectLink, SkipPing, StartPing
<1>2. CASE GotPing(i)
  BY <1>0, <1>2 DEF GotPing
<1>3. CASE DeadVerdict(i)
  BY <1>0, <1>3 DEF DeadVerdict
<1>4. CASE PingOnlyVerdict(i) \/ PingPassed(i)
  BY <1>0, <1>4 DEF PingOnlyVerdict, PingPassed
<1>5. CASE StartSpeed(i) \/ EndDownload(i) \/ DecideUpload(i)
  BY <1>0, <1>5 DEF StartSpeed, EndDownload, DecideUpload
<1>6. CASE DownloadSample(i)
  BY <1>0, <1>6 DEF DownloadSample
<1>7. CASE StartUpload(i) \/ UploadSample(i) \/ EndUpload(i)
  BY <1>0, <1>7 DEF StartUpload, UploadSample, EndUpload
<1>8. CASE SendPingNode(i)
  BY <1>0, <1>8 DEF SendPingNode
<1>9. CASE SendSpeedNode(i)
  BY <1>0, <1>9 DEF SendSpeedNode
<1>10. CASE WgDone(i)
  BY <1>0, <1>10 DEF WgDone
<1>. QED
  BY <1>1, <1>2, <1>3, <1>4, <1>5, <1>6, <1>7, <1>8, <1>9, <1>10 DEF TestOneStep

\* Every step of testOne either sends nothing, or sends the Node of what its
\* goroutine has measured, once.
SendsNothing == nodeChan' = nodeChan /\ Sent' = Sent
SendsOwnNode(i) ==
  /\ i \notin Sent /\ Sent' = Sent \cup {i}
  /\ nodeChan' = Append(nodeChan, NodeOf(i))
SentStays ==
  \A j \in Sent : HasSent(j)' /\ NodeOf(j)' = NodeOf(j) /\ traffic'[j] = traffic[j]

LEMMA SendingStep ==
  ASSUME TestTypeOK, PastParser, Measured, NEW i \in Links, TestOneStep(i)
  PROVE  SendsNothing \/ (SendsOwnNode(i) /\ NodeOf(i)' = NodeOf(i) /\ traffic' = traffic)
<1>. USE DEF Goto
<1>0. pc \in [Links -> Places]
  BY DEF TestTypeOK
<1>1. CASE SendPingNode(i)
  <2>1. NodeOf(i) = PingNode(i)
    BY <1>1 DEF SendPingNode, Measured, MeasuredAt, NodeOf
  <2>2. i \notin Sent /\ Sent' = Sent \cup {i}
    BY <1>0, <1>1 DEF SendPingNode, Sent, HasSent, PastParser, Parses, BeforeSend
  <2>3. NodeOf(i)' = NodeOf(i) /\ traffic' = traffic
    BY <1>1, SameNode DEF SendPingNode
  <2>. QED
    BY <1>1, <2>1, <2>2, <2>3 DEF SendPingNode, Send, SendsOwnNode
<1>2. CASE SendSpeedNode(i)
  <2>1. NodeOf(i) = SpeedNode(i)
    BY <1>2 DEF SendSpeedNode, Measured, MeasuredAt, NodeOf, InSpeed, BeforeSend, BeforeSpeed
  <2>2. i \notin Sent /\ Sent' = Sent \cup {i}
    BY <1>0, <1>2 DEF SendSpeedNode, Sent, HasSent, PastParser, Parses, BeforeSend
  <2>3. NodeOf(i)' = NodeOf(i) /\ traffic' = traffic
    BY <1>2, SameNode DEF SendSpeedNode
  <2>. QED
    BY <1>2, <2>1, <2>2, <2>3 DEF SendSpeedNode, Send, SendsOwnNode
<1>3. ASSUME ~SendPingNode(i), ~SendSpeedNode(i)
      PROVE  nodeChan' = nodeChan
  BY <1>3 DEF TestOneStep, RejectLink, SkipPing, StartPing, GotPing, DeadVerdict,
       PingOnlyVerdict, PingPassed, StartSpeed, DownloadSample, EndDownload,
       DecideUpload, StartUpload, UploadSample, EndUpload, WgDone
<1>4. ASSUME ~SendPingNode(i), ~SendSpeedNode(i)
      PROVE  Sent' = Sent
  <2>1. /\ \A j \in Links \ {i} : pc'[j] = pc[j]
        /\ job' = job
    BY OthersKeep DEF TestOneStep, RejectLink, SkipPing, StartPing, GotPing, DeadVerdict,
       PingOnlyVerdict, PingPassed, SendPingNode, StartSpeed, DownloadSample, EndDownload,
       DecideUpload, StartUpload, UploadSample, EndUpload, SendSpeedNode, WgDone
  <2>2. HasSent(i)' = HasSent(i)
    BY <1>0, <1>4 DEF TestOneStep, RejectLink, SkipPing, StartPing, GotPing, DeadVerdict,
       PingOnlyVerdict, PingPassed, StartSpeed, DownloadSample, EndDownload,
       DecideUpload, StartUpload, UploadSample, EndUpload, WgDone, HasSent, Parses
  <2>. QED
    BY <2>1, <2>2 DEF Sent, HasSent, Parses
<1>. QED
  BY <1>1, <1>2, <1>3, <1>4 DEF SendsNothing

LEMMA SentStep ==
  ASSUME TestTypeOK, PastParser, Measured, NEW i \in Links, TestOneStep(i)
  PROVE  SentStays
<1>. SUFFICES ASSUME NEW j \in Sent
              PROVE  HasSent(j)' /\ NodeOf(j)' = NodeOf(j) /\ traffic'[j] = traffic[j]
  BY DEF SentStays
<1>0. j \in Links /\ HasSent(j)
  BY DEF Sent
<1>1. CASE j # i
  <2>1. job' = job /\ pc'[j] = pc[j] /\ ping'[j] = ping[j] /\ traffic'[j] = traffic[j]
    BY <1>0, <1>1, OthersKeep
  <2>. QED
    BY <1>0, <2>1, SameNode DEF HasSent, Parses
<1>2. CASE j = i
  <2>1. WgDone(i)
    BY <1>0, <1>2, StepInTest DEF HasSent, TestOneStep, RejectLink, SkipPing, StartPing, GotPing,
       DeadVerdict, PingOnlyVerdict, PingPassed, SendPingNode, StartSpeed, DownloadSample,
       EndDownload, DecideUpload, StartUpload, UploadSample, EndUpload, SendSpeedNode, Goto
  <2>2. job' = job /\ ping' = ping /\ traffic' = traffic /\ pc'[i] = "tested"
    BY <2>1 DEF WgDone, Goto, TestTypeOK
  <2>. QED
    BY <1>0, <1>2, <2>2, SameNode DEF HasSent, Parses
<1>. QED
  BY <1>1, <1>2

\* A step of testOne as the dispatchers' proofs use it.
LEMMA MeasuringStep ==
  ASSUME TestTypeOK, PastParser, Measured, NEW i \in Links, TestOneStep(i)
  PROVE  Measured'
<1>. SUFFICES ASSUME NEW j \in Links PROVE MeasuredAt(j)'
  BY DEF Measured
<1>1. CASE j = i
  BY <1>1, OwnMeasure DEF Measured
<1>2. CASE j # i
  BY <1>2, OthersKeep, SameMeasure DEF Measured
<1>. QED
  BY <1>1, <1>2

\* The steps of a goroutine outside testOne, from its start to its release.
LEMMA OutsideStep ==
  ASSUME TestTypeOK, Measured, NEW i \in Links, NEW to, UNCHANGED <<job, ping, traffic>>,
         pc' = [pc EXCEPT ![i] = to],
         \/ pc[i] = "idle" /\ to = "spawned"
         \/ pc[i] \in {"tested", "ended"} /\ to \in {"ended", "gone"}
  PROVE  Measured' /\ Sent' = Sent /\ SentStays
<1>0. pc \in [Links -> Places]
  BY DEF TestTypeOK
<1>1. \A j \in Links : EndsAtPing(j)' = EndsAtPing(j) /\ NodeOf(j)' = NodeOf(j)
  BY SameNode
<1>2. Measured'
  BY <1>0, <1>1 DEF Measured, MeasuredAt, HasSent, Parses, BeforeSpeed, InSpeed, BeforeSend
<1>3. Sent' = Sent
  BY <1>0 DEF Sent, HasSent, Parses
<1>4. SentStays
  BY <1>1, <1>3 DEF SentStays, Sent
<1>. QED
  BY <1>2, <1>3, <1>4

\* A step that leaves the goroutines alone.
LEMMA RestStep ==
  ASSUME Measured, UNCHANGED <<job, pc, ping, traffic>>
  PROVE  Measured' /\ Sent' = Sent /\ SentStays
<1>1. \A j \in Links : NodeOf(j)' = NodeOf(j)
  BY SameNode
<1>2. Measured'
  BY SameMeasure DEF Measured
<1>3. Sent' = Sent
  BY DEF Sent, HasSent, Parses
<1>. QED
  BY <1>1, <1>2, <1>3 DEF SentStays, Sent
=============================================================================
