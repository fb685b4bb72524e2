------------------------------ MODULE TestOne ------------------------------
(***************************************************************************)
(* One node's test: ProfileTest.testOne with pingLink and the calls to     *)
(* runSpeedPhase, as it is executed by one goroutine per link.  The        *)
(* dispatchers run (module TestRun) and TestAll (module TestAll) share it. *)
(*                                                                         *)
(* Goroutine i tests link i of a batch.  All it shares with the others is  *)
(* the WaitGroup wg, the semaphore channel guard, the channel nodeChan and *)
(* the context; pc[i] is where goroutine i stands and log[i] the messages  *)
(* it has written, repeated samples of one phase written once.             *)
(***************************************************************************)
EXTENDS Naturals, Sequences, FiniteSets

CONSTANTS
  LinksCount,     \* number of links of the batch
  Concurrency,    \* Options.Concurrency, at least 1 after option parsing
  MaxSamples,     \* bound: bytes downloaded per node
  Jobs            \* the requests considered, see JobType

Links == 0 .. LinksCount - 1

Modes == {"all", "pingonly", "speedonly"}

\* What Link2Config and IsDirectLink tell about a link.
LinkKinds == {"proxy", "direct", "unparsable"}

\* The request: Options.SpeedTestMode, Options.UploadEnable, the links, and
\* Options.TestIDs (empty unless single nodes are tested again).
JobType == [mode: Modes, upload: BOOLEAN, link: [Links -> LinkKinds], ids: Seq(Nat)]

ASSUME CountsAssumption ==
  /\ LinksCount \in Nat \ {0}
  /\ Concurrency \in Nat \ {0}
  /\ MaxSamples \in Nat
ASSUME JobsAssumption == Jobs \subseteq JobType

VARIABLES
  job,        \* the request being served, never changed
  ctxDone,    \* the context has been cancelled
  wg,         \* counter of p.wg
  guard,      \* number of tokens in the channel guard
  nodeChan,   \* buffered channel of results
  pc, log,    \* per goroutine: control, messages written
  ping,       \* per goroutine: outcome of the ping
  traffic     \* per goroutine: dSum, bytes of the download phase

workerVars == <<pc, log, ping, traffic>>
testVars == <<job, ctxDone, wg, guard, nodeChan, workerVars>>

Messages == {"startping", "gotping", "gotspeed", "nospeed", "startspeed",
             "startupload", "gotupload", "noupload", "endone"}

\* "alive": at least 1 ms.  "zero": no error, but the median rounds to 0 ms.
PingOutcomes == {"alive", "zero", "error"}

\* HTTPPingConfig, which pings for a direct link, never reports less than 1 ms.
OutcomesOf(kind) == IF kind = "direct" THEN {"alive", "error"} ELSE PingOutcomes

\* The id that goroutine i reports under.
IdOf(i) == IF job.ids = <<>> THEN i ELSE job.ids[i + 1]

\* Whether Options.TestIDs reaches to link i.
HasId(i) == job.ids = <<>> \/ i < Len(job.ids)

Parses(i) == job.link[i] # "unparsable"

NodeType == [id: Nat, alive: BOOLEAN, traffic: Nat, success: BOOLEAN]

\* The Node of a test that ended at the ping, and of one that went on.
PingNode(i) == [id |-> IdOf(i), alive |-> ping[i] = "alive", traffic |-> 0,
                success |-> ping[i] = "alive"]
SpeedNode(i) == [id |-> IdOf(i), alive |-> ping[i] = "alive", traffic |-> traffic[i],
                 success |-> TRUE]

TestInit ==
  /\ job \in Jobs
  /\ ctxDone = FALSE
  /\ wg = 0 /\ guard = 0
  /\ nodeChan = <<>>
  /\ pc = [i \in Links |-> "idle"]
  /\ log = [i \in Links |-> <<>>]
  /\ ping = [i \in Links |-> "none"]
  /\ traffic = [i \in Links |-> 0]

-----------------------------------------------------------------------------
Goto(i, from, to) == pc[i] = from /\ pc' = [pc EXCEPT ![i] = to]

\* WriteMessage; a phase repeats its sample message every second.
Say(i, m) ==
  log' = IF log[i] # <<>> /\ log[i][Len(log[i])] = m
         THEN log ELSE [log EXCEPT ![i] = Append(@, m)]

\* As NodeChanCap, with room for one Node only.
NodeChanCapShort == 1

\* A send on nodeChan blocks while the buffer of linksCount nodes is full.
NodeChanCap == LinksCount
Send(node) == Len(nodeChan) < NodeChanCap /\ nodeChan' = Append(nodeChan, node)

\* Link2Config fails: testOne returns and no Node is ever sent.
RejectLink(i) ==
  /\ ~Parses(i)
  /\ Goto(i, "spawned", "returning")
  /\ UNCHANGED <<job, ctxDone, wg, guard, nodeChan, log, ping, traffic>>

SkipPing(i) ==
  /\ Parses(i) /\ job.mode = "speedonly"
  /\ Goto(i, "spawned", "startspeed")
  /\ UNCHANGED <<job, ctxDone, wg, guard, nodeChan, log, ping, traffic>>

StartPing(i) ==
  /\ Parses(i) /\ job.mode # "speedonly"
  /\ Goto(i, "spawned", "pinging")
  /\ Say(i, "startping")
  /\ UNCHANGED <<job, ctxDone, wg, guard, nodeChan, ping, traffic>>

\* The probe has answered or timed out; it does not look at the context.
GotPing(i) ==
  /\ Goto(i, "pinging", "pinged")
  /\ \E o \in OutcomesOf(job.link[i]) : ping' = [ping EXCEPT ![i] = o]
  /\ Say(i, "gotping")
  /\ UNCHANGED <<job, ctxDone, wg, guard, nodeChan, traffic>>

\* A direct link is measured even when its ping fails.
PingTolerated(i) == job.link[i] = "direct" /\ job.mode # "pingonly"

\* The node is given up with gotspeed -1; testOne goes on unless pingLink
\* also returned an error.
DeadVerdict(i) ==
  /\ ping[i] # "alive" /\ ~PingTolerated(i)
  /\ Goto(i, "pinged", IF ping[i] = "error" THEN "failed" ELSE "startspeed")
  /\ Say(i, "nospeed")
  /\ UNCHANGED <<job, ctxDone, wg, guard, nodeChan, ping, traffic>>

PingOnlyVerdict(i) ==
  /\ ping[i] = "alive" /\ job.mode = "pingonly"
  /\ Goto(i, "pinged", "failed")
  /\ Say(i, "nospeed")
  /\ UNCHANGED <<job, ctxDone, wg, guard, nodeChan, ping, traffic>>

PingPassed(i) ==
  /\ IF ping[i] = "alive" THEN job.mode # "pingonly" ELSE PingTolerated(i)
  /\ Goto(i, "pinged", "startspeed")
  /\ UNCHANGED <<job, ctxDone, wg, guard, nodeChan, log, ping, traffic>>

\* As SendPingNode, returning the error without sending.
ForgetPingNode(i) ==
  /\ Goto(i, "failed", "returning")
  /\ UNCHANGED <<job, ctxDone, wg, guard, nodeChan, log, ping, traffic>>

\* As SendPingNode, without the return after the send.
SendPingNodeAndGoOn(i) ==
  /\ Goto(i, "failed", "startspeed")
  /\ Send(PingNode(i))
  /\ UNCHANGED <<job, ctxDone, wg, guard, log, ping, traffic>>

SendPingNode(i) ==
  /\ Goto(i, "failed", "returning")
  /\ Send(PingNode(i))
  /\ UNCHANGED <<job, ctxDone, wg, guard, log, ping, traffic>>

StartSpeed(i) ==
  /\ Goto(i, "startspeed", "download")
  /\ Say(i, "startspeed")
  /\ UNCHANGED <<job, ctxDone, wg, guard, nodeChan, ping, traffic>>

\* The phase's consumer takes the bytes of one second, possibly none.
DownloadSample(i) ==
  /\ pc[i] = "download"
  /\ \E bytes \in {0, 1} :
       /\ traffic[i] + bytes <= MaxSamples
       /\ traffic' = [traffic EXCEPT ![i] = @ + bytes]
  /\ Say(i, "gotspeed")
  /\ UNCHANGED <<job, ctxDone, wg, guard, nodeChan, pc, ping>>

\* runSpeedPhase returns.  A measured maximum below 1 is announced as failure;
\* a sample with bytes in it implies a maximum of at least 1, the converse
\* fails when the last sample is dropped.
EndDownload(i) ==
  /\ Goto(i, "download", "downloaded")
  /\ \/ UNCHANGED log
     \/ traffic[i] = 0 /\ Say(i, "nospeed")
  /\ UNCHANGED <<job, ctxDone, wg, guard, nodeChan, ping, traffic>>

\* ctx.Err() is read here, startupload is written later.
DecideUpload(i) ==
  /\ Goto(i, "downloaded", IF job.upload /\ ~ctxDone THEN "startupload" ELSE "passed")
  /\ UNCHANGED <<job, ctxDone, wg, guard, nodeChan, log, ping, traffic>>

StartUpload(i) ==
  /\ Goto(i, "startupload", "upload")
  /\ Say(i, "startupload")
  /\ UNCHANGED <<job, ctxDone, wg, guard, nodeChan, ping, traffic>>

UploadSample(i) ==
  /\ pc[i] = "upload"
  /\ Say(i, "gotupload")
  /\ UNCHANGED <<job, ctxDone, wg, guard, nodeChan, pc, ping, traffic>>

EndUpload(i) ==
  /\ Goto(i, "upload", "passed")
  /\ \/ UNCHANGED log
     \/ Say(i, "noupload")
  /\ UNCHANGED <<job, ctxDone, wg, guard, nodeChan, ping, traffic>>

SendSpeedNode(i) ==
  /\ Goto(i, "passed", "returning")
  /\ Send(SpeedNode(i))
  /\ UNCHANGED <<job, ctxDone, wg, guard, log, ping, traffic>>

\* The deferred p.wg.Done() runs before the goroutine's remaining statements.
WgDone(i) ==
  /\ Goto(i, "returning", "tested")
  /\ wg' = wg - 1
  /\ UNCHANGED <<job, ctxDone, guard, nodeChan, log, ping, traffic>>

TestOneStep(i) ==
  \/ RejectLink(i) \/ SkipPing(i) \/ StartPing(i) \/ GotPing(i)
  \/ DeadVerdict(i) \/ PingOnlyVerdict(i) \/ PingPassed(i) \/ SendPingNode(i)
  \/ StartSpeed(i) \/ DownloadSample(i) \/ EndDownload(i) \/ DecideUpload(i)
  \/ StartUpload(i) \/ UploadSample(i) \/ EndUpload(i) \/ SendSpeedNode(i)
  \/ WgDone(i)

-----------------------------------------------------------------------------
\* Where a goroutine can stand: inside testOne, and all places.
BeforeSend == {"spawned", "pinging", "pinged", "failed", "startspeed", "download",
               "downloaded", "startupload", "upload", "passed"}
InTest == BeforeSend \cup {"returning"}
Places == InTest \cup {"idle", "tested", "ended", "gone"}

\* Goroutine i has put its Node into nodeChan.
HasSent(i) == Parses(i) /\ pc[i] \in {"returning", "tested", "ended", "gone"}

\* A goroutine past the parser has a link that parses.
PastParser == \A i \in Links : pc[i] \in BeforeSend \ {"spawned"} => Parses(i)

TestTypeOK ==
  /\ job \in Jobs
  /\ ctxDone \in BOOLEAN
  /\ wg \in Nat /\ guard \in Nat
  /\ nodeChan \in Seq(NodeType)
  /\ pc \in [Links -> Places]
  /\ log \in [Links -> Seq(Messages)]
  /\ ping \in [Links -> PingOutcomes \cup {"none"}]
  /\ traffic \in [Links -> Nat]

\* A slot of the semaphore is held from the start of a goroutine to the
\* release of its token.
Holding == {i \in Links : pc[i] \notin {"idle", "gone"}}

\* The goroutines whose test is not yet counted as done, and those whose Node
\* is in the channel or collected.
Testing == {i \in Links : pc[i] \in InTest}
Sent == {i \in Links : HasSent(i)}

\* guard counts the slots held.
SlotsCounted == guard = Cardinality(Holding) /\ guard <= Concurrency

\* However starts, ends and cancellation interleave, no more than Concurrency
\* nodes are under test at once (the channel guard of run and of TestAll).
AtMostConcurrency == Cardinality(Holding) <= Concurrency

\* No goroutine waits for room in nodeChan when it has its Node ready: a run
\* that was given up never receives, and a run that waits for the WaitGroup
\* receives only later, so a full channel would block both for good.
SendNeverBlocks ==
  \A i \in Links : pc[i] \in {"failed", "passed"} => Len(nodeChan) < NodeChanCap

\* The Node that goroutine i sends, as a function of what it measured.
EndsAtPing(i) == IF ping[i] = "alive" THEN job.mode = "pingonly"
                 ELSE ping[i] = "error" /\ ~PingTolerated(i)
NodeOf(i) == IF EndsAtPing(i) THEN PingNode(i) ELSE SpeedNode(i)

\* The bytes downloaded by the goroutines in S, as pairs of a goroutine and a
\* number: their count is the sum of traffic over S.
Bytes(S) == {p \in S \X (1 .. MaxSamples) : p[2] <= traffic[p[1]]}

\* Where goroutine i stands tells what it has measured: nothing before its
\* ping, no byte before its ping has passed, and past the ping only if the
\* outcome allows it.  What it has measured when it sends is its NodeOf.
BeforeSpeed == {"idle", "spawned", "pinging", "pinged", "failed"}
InSpeed == BeforeSend \ BeforeSpeed
MeasuredAt(i) ==
  /\ pc[i] \in {"idle", "spawned"} => ping[i] = "none"
  /\ pc[i] \in BeforeSpeed => traffic[i] = 0
  /\ pc[i] = "failed" => EndsAtPing(i)
  /\ pc[i] \in InSpeed => ~EndsAtPing(i)
  /\ HasSent(i) /\ EndsAtPing(i) => traffic[i] = 0
  /\ traffic[i] <= MaxSamples
Measured == \A i \in Links : MeasuredAt(i)
=============================================================================
