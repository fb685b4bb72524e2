------------------------------ MODULE Messages ------------------------------
(***************************************************************************)
(* The messages of a run (web/profile.go run and testOne, web/msg.go), and *)
(* the two ends that read them through one lock (web/server.go): the page, *)
(* whose connection may break, and CMDProgressWriter (web/cmdprogress.go), *)
(* which prints a line for every node that ends.                           *)
(*                                                                         *)
(* Nodes are announced in chunks, then tested by workers whose messages    *)
(* mix.  Of a short list the first and the last node report: the others    *)
(* would do the same.  A long list is announced only.                      *)
(***************************************************************************)
EXTENDS Integers, Sequences, FiniteSets, SequencesExt

CONSTANTS
  LinkCounts, \* lengths of the list of links to consider
  Pings,      \* milliseconds of a ping, 0 when it fails or rounds to none
  Sums,       \* bytes a speed phase has moved when it takes a sample
  Times       \* milliseconds it has lasted then

ASSUME MsgAssumption ==
  /\ LinkCounts \subseteq Nat \ {0}
  /\ Pings \subseteq Nat /\ Sums \subseteq Nat /\ Times \subseteq Nat

VARIABLES
  msgCount,   \* the number of links; 0 before the run
  msgMode,    \* "all", "pingonly" or "speedonly"
  msgNext,    \* the first link not yet announced
  msgToSend,  \* reporting node -> its messages still to be sent
  msgNode,    \* node -> what it will be reported as
  progress,   \* CMDProgressWriter: node -> [ping, down], "none" before
  total,      \* the nodes it knows of
  done,       \* the nodes that have ended
  msgLines,   \* node -> TRUE when its line says ok
  pageOpen,   \* whether the connection of the page is up
  pageRows    \* the ids the page was told of, in order

msgVars == <<msgCount, msgMode, msgNext, msgToSend, msgNode, progress, total, done, msgLines, pageOpen, pageRows>>

\* A chunk of at least 9 nodes, of a long list a twentieth but at most 50.
Step(n) == IF n > 200 THEN IF n \div 20 > 50 THEN 50 ELSE n \div 20 ELSE 9
ChunkEnd == IF msgNext + Step(msgCount) > msgCount THEN msgCount ELSE msgNext + Step(msgCount)

LongList == 20
Reporting(n) == IF n < LongList THEN {0, n - 1} ELSE {}

\* The running average of a speed phase, in bytes per second, after a sample;
\* getMsgByte has no number for one below 1.
Average(sample) == (sample.sum * 1000) \div (IF sample.ms < 1 THEN 1 ELSE sample.ms)
Shown(speed) == IF speed < 1 THEN "N/A" ELSE "number"
Message(info, id, value) == [info |-> info, id |-> id, value |-> value]
NoSpeed(id) == Message("gotspeed", id, "N/A")

\* What the test of a link meets: a ping, which may fail, and the samples of
\* its download.  A direct link never answers in 0 ms.  The phase is silent
\* when the highest sample of its measuring loop is below 1: no byte was told.
Samples ==
  {s \in SeqOf([sum : Sums, ms : Times], 2) : \A i, j \in DOMAIN s : i <= j => s[i].sum <= s[j].sum}
Outcomes ==
  {o \in [direct : BOOLEAN, ping : Pings, error : BOOLEAN, samples : Samples, silent : BOOLEAN] :
     /\ o.error => o.ping = 0
     /\ o.direct /\ o.ping = 0 => o.error
     /\ o.silent => \A i \in DOMAIN o.samples : o.samples[i].sum = 0}

\* pingLink announces that there will be no speed: it has what was asked for,
\* or a proxy does not answer.  A ping that rounds to 0 ms is no error, and
\* testOne goes on to the speed test all the same.
GivesUp(mode, o) ==
  /\ mode # "speedonly"
  /\ mode = "pingonly" \/ (o.ping < 1 /\ ~o.direct)
Tested(mode, o) == GivesUp(mode, o) => o.ping < 1 /\ ~o.error

\* What testOne sends of a node, as far as a line is made from it, and the Node
\* it reports: sum is the bytes of its download, MaxSpeed is above 0 with it.
SpeedsSent(id, mode, o) ==
  (IF GivesUp(mode, o) THEN <<NoSpeed(id)>> ELSE << >>)
  \o (IF Tested(mode, o) THEN [i \in DOMAIN o.samples |-> Message("gotspeed", id, Shown(Average(o.samples[i])))] ELSE << >>)
  \o (IF Tested(mode, o) /\ o.silent THEN <<NoSpeed(id)>> ELSE << >>)
Sent(id, mode, o) ==
  (IF mode = "speedonly" THEN << >> ELSE <<Message("gotping", id, o.ping)>>)
  \o SpeedsSent(id, mode, o) \o <<Message("endone", id, "")>>
Result(mode, o) ==
  LET end == IF Tested(mode, o) /\ o.samples # << >> THEN o.samples[Len(o.samples)] ELSE [sum |-> 0, ms |-> 0] IN
  [ping |-> IF mode = "speedonly" THEN 0 ELSE o.ping, avg |-> Average(end), sum |-> end.sum]

-----------------------------------------------------------------------------

StartRun(n, mode) ==
  /\ msgCount = 0
  /\ msgCount' = n /\ msgMode' = mode
  /\ \E outcome \in [Reporting(n) -> Outcomes] :
       /\ msgToSend' = [id \in Reporting(n) |-> Sent(id, mode, outcome[id])]
       /\ msgNode' = [id \in Reporting(n) |-> Result(mode, outcome[id])]
  /\ UNCHANGED <<msgNext, progress, total, done, msgLines, pageOpen, pageRows>>

\* fanoutMessageWriter: what the page does not get the progress writer gets.
ToPage(ids) == pageRows' = IF pageOpen THEN pageRows \o ids ELSE pageRows

\* A chunk: a node that is known already is set back but not counted again.
Announce ==
  /\ msgNext < msgCount
  /\ msgNext' = ChunkEnd
  /\ LET ids == msgNext .. ChunkEnd - 1 IN
     /\ ToPage([i \in 1 .. ChunkEnd - msgNext |-> msgNext + i - 1])
     /\ total' = total + Cardinality(ids \ DOMAIN progress)
     /\ progress' = [id \in DOMAIN progress \cup ids |->
          IF id \in ids THEN [ping |-> 0, down |-> "none"] ELSE progress[id]]
  /\ UNCHANGED <<msgCount, msgMode, msgToSend, msgNode, done, msgLines, pageOpen>>

\* As Ok, forgetting that a node may have a speed and no ping.
OkPingOnly(np) == np.ping > 0

Ok(np) == np.ping > 0 \/ np.down \notin {"none", "N/A"}

\* One worker gets the lock for its next message.  A node that is not known
\* ends all the same.
Send(id) ==
  /\ msgCount > 0 /\ msgNext = msgCount /\ id \in DOMAIN msgToSend /\ msgToSend[id] # << >>
  /\ LET m == Head(msgToSend[id]) IN
     /\ progress' = CASE m.info = "gotping" -> [progress EXCEPT ![id].ping = m.value]
                      [] m.info = "gotspeed" -> [progress EXCEPT ![id].down = m.value]
                      [] m.info = "endone" -> progress
     /\ done' = IF m.info = "endone" THEN done + 1 ELSE done
     /\ msgLines' = [i \in DOMAIN msgLines \cup (IF m.info = "endone" THEN {id} ELSE {}) |->
          IF i = id /\ m.info = "endone" THEN Ok(progress[id]) ELSE msgLines[i]]
  /\ msgToSend' = [msgToSend EXCEPT ![id] = Tail(@)]
  /\ UNCHANGED <<msgCount, msgMode, msgNext, msgNode, total, pageOpen, pageRows>>

PageBreaks ==
  /\ pageOpen /\ msgCount > 0
  /\ pageOpen' = FALSE
  /\ UNCHANGED <<msgCount, msgMode, msgNext, msgToSend, msgNode, progress, total, done, msgLines, pageRows>>

MsgInit ==
  /\ msgCount = 0 /\ msgMode = "all" /\ msgNext = 0 /\ msgToSend = << >> /\ msgNode = << >>
  /\ progress = << >> /\ total = 0 /\ done = 0 /\ msgLines = << >> /\ pageOpen = TRUE /\ pageRows = << >>

MsgNext ==
  \/ \E n \in LinkCounts, mode \in {"all", "pingonly", "speedonly"} : StartRun(n, mode)
  \/ Announce
  \/ \E id \in DOMAIN msgToSend : Send(id)
  \/ PageBreaks

MsgSpec == MsgInit /\ [][MsgNext]_msgVars

-----------------------------------------------------------------------------

\* The chunks number the links 0, 1, 2 ... without a gap and without a double,
\* whatever the length of the list, so that the row a message names is the
\* node's; a page that leaves has seen a beginning of them.
ChunksCover ==
  /\ \A i \in DOMAIN pageRows : pageRows[i] = i - 1
  /\ pageOpen => Len(pageRows) = msgNext
  /\ DOMAIN progress = 0 .. msgNext - 1

\* The counter "done of total" never runs over, nodes count once, and it says
\* how many reporting nodes have ended, however their messages mix.
CounterSound ==
  /\ total = msgNext /\ done <= total
  /\ done = Cardinality({id \in DOMAIN msgToSend : msgToSend[id] = << >>})

\* The line of a node says ok exactly when the text output (workingLinks)
\* would list its link - it answered its ping, or moved a byte - although the
\* one is made from the last messages heard and the other from the Node.  The
\* exception is a node that does not answer and whose bytes are less than one
\* a second at the end: it is listed, and its line says failed.  (A direct link
\* has a line as any other and is never listed.)
Working(node) == node.ping > 0 \/ node.avg > 0 \/ node.sum > 0
Trickles(node) == node.ping = 0 /\ node.avg = 0 /\ node.sum > 0
LineTellsResult == \A id \in DOMAIN msgLines : msgLines[id] <=> Working(msgNode[id]) /\ ~Trickles(msgNode[id])

\* Both ends hear of every node what the run found out.
MessageSafe == ChunksCover /\ CounterSound /\ LineTellsResult

\* What makes it so: nobody reports before all nodes are announced, and what
\* the writer knows of a node together with what it has yet to hear of it is
\* the node's result.
Reporters == IF msgCount = 0 THEN {} ELSE Reporting(msgCount)

Sequence(r) == Len(r) \in Nat /\ r = [i \in 1 .. Len(r) |-> r[i]]

MsgTypeOK ==
  /\ msgCount \in Nat /\ msgNext \in 0 .. msgCount
  /\ DOMAIN msgToSend = Reporters /\ DOMAIN msgNode = Reporters
  /\ \A id \in Reporters : Sequence(msgToSend[id]) /\ msgNode[id] \in [ping : Nat, avg : Nat, sum : Nat]
  /\ progress \in [0 .. msgNext - 1 -> [ping : Nat, down : {"none", "N/A", "number"}]]
  /\ total \in Nat /\ done \in Nat
  /\ pageOpen \in BOOLEAN /\ pageRows \in Seq(Nat)
  /\ DOMAIN msgLines \subseteq Reporters

\* r is a tail of what is sent of a node: perhaps its ping, speeds, and endone.
InOrder(r) ==
  \A i \in DOMAIN r :
    /\ r[i].info \in {"gotping", "gotspeed", "endone"}
    /\ r[i].info = "gotping" => i = 1
    /\ r[i].info = "gotspeed" => r[i].value \in {"N/A", "number"}
    /\ r[i].info = "endone" <=> i = Len(r)

Pinged(id) ==
  LET r == msgToSend[id] IN
  IF r # << >> /\ r[1].info = "gotping" THEN r[1].value = msgNode[id].ping
  ELSE msgNode[id].ping = IF id < msgNext THEN progress[id].ping ELSE 0

\* The speed the writer will know when the node ends: the last one to be sent,
\* or the one it has.
LastSpeed(id) ==
  LET r == msgToSend[id] IN
  IF Len(r) > 1 /\ r[Len(r) - 1].info = "gotspeed" THEN r[Len(r) - 1].value
  ELSE IF id < msgNext THEN progress[id].down ELSE "none"
Fast(id) == msgNode[id].avg > 0 <=> LastSpeed(id) = "number"

MsgInv ==
  /\ MsgTypeOK /\ MessageSafe
  /\ \A id \in Reporters :
       InOrder(msgToSend[id]) /\ Pinged(id) /\ Fast(id) /\ (msgNext < msgCount => msgToSend[id] # << >>)
=============================================================================
