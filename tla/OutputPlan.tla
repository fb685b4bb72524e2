----------------------------- MODULE OutputPlan -----------------------------
(***************************************************************************)
(* web/cmdoutput.go and the end of web/profile.go testAll: the results of  *)
(* a run are sorted and written, by a command in the formats asked for to  *)
(* the standard output and to files, by a request of the page in one       *)
(* format to a fixed file or back to the page.                             *)
(*                                                                         *)
(* A file is what was written to it last.  The names that hold the time    *)
(* are told apart by their extension: a plan takes the time once.          *)
(***************************************************************************)
EXTENDS Integers, Sequences, FiniteSets, SequencesExt, Selections

CONSTANTS
  Plans,   \* [spec, file, pic, sort] of command lines, or [mode, pic, sort] of requests, to consider
  Results, \* sequences of nodes to consider
  PingRank \* how the texts of the pings are ordered as texts

\* A plan is of a command or of a request.  Nobody names a file as the clock
\* would: with the second in which the results are written.
TimedNames == {".json", ".csv", ".txt", ".png", ".out"}
ASSUME PlansAssumption ==
  \A plan \in Plans :
    /\ "spec" \in DOMAIN plan /\ "mode" \notin DOMAIN plan =>
         plan.spec \in Seq(STRING) /\ plan.file \in STRING \ TimedNames /\ plan.pic \in STRING \ TimedNames
    /\ "mode" \in DOMAIN plan =>
         /\ "spec" \notin DOMAIN plan /\ plan.pic \in STRING
         /\ plan.mode \in {"none", "json", "text", "base64", "path"}

\* A node that works counts as successful (testOne).
NodeRecords == [link : STRING, ping : DOMAIN PingRank \ {"-"}, avg : Nat, max : Nat, up : Nat, success : BOOLEAN]
ASSUME ResultsAssumption ==
  \A nodes \in Results :
    /\ nodes \in Seq(NodeRecords)
    /\ \A i \in DOMAIN nodes : nodes[i].ping # "0" \/ nodes[i].avg > 0 \/ nodes[i].max > 0 => nodes[i].success

VARIABLES
  outStage,   \* "idle", "emitting", "done" or "failed"
  outPlan,    \* the plan chosen
  outNodes,   \* the nodes, sorted
  outTargets, \* the targets, in order
  outNext,    \* the target to write next
  outFiles,   \* path -> [format, content]
  outStdout,  \* the formats written to the standard output
  outReplies  \* what went back to the page

outVars == <<outStage, outPlan, outNodes, outTargets, outNext, outFiles, outStdout, outReplies>>

Stdout == "" \* the path of a target without a file
Formats == {"json", "csv", "text", "table", "pic", "none"}

extFor(format) ==
  CASE format = "json" -> ".json" [] format = "csv" -> ".csv"
    [] format \in {"text", "table"} -> ".txt" [] format = "pic" -> ".png" [] OTHER -> ".out"

\* A format once, in the order given; none counts when it stands alone.
Asked(spec) == {i \in DOMAIN spec : spec[i] # "none" /\ \A j \in 1 .. i - 1 : spec[j] # spec[i]}
Wanted(spec) == IF spec = << >> THEN <<"json">> ELSE At(spec, Asked(spec))

Target(format, path) == [format |-> format, path |-> path]
IsData(format) == format \notin {"pic", "none"}
FirstData(formats, i) == IsData(formats[i]) /\ \A j \in 1 .. i - 1 : ~IsData(formats[j])
OnlyData(formats, i) == \A j \in DOMAIN formats : IsData(formats[j]) => j = i

\* The first data format gets the file; the others, and all of several without
\* a file, a name with the time; a single one without a file the standard output.
PicPath(formats, file, pic) ==
  IF pic # "" THEN pic
  ELSE IF file # "" /\ \A i \in DOMAIN formats : ~IsData(formats[i]) THEN file ELSE extFor("pic")
DataPath(formats, file, i) ==
  IF file # "" /\ FirstData(formats, i) THEN file
  ELSE IF file = "" /\ OnlyData(formats, i) THEN Stdout ELSE extFor(formats[i])

ParseOutputPlan(spec, file, pic) ==
  LET formats == Wanted(spec) IN
  [i \in DOMAIN formats |->
     Target(formats[i], IF formats[i] = "pic" THEN PicPath(formats, file, pic) ELSE DataPath(formats, file, i))]

-----------------------------------------------------------------------------
\* Contents.

\* render.Nodes.Sort: pings are compared as texts; an unknown method leaves
\* them in any order, and so are equals.
Before(method, a, b) ==
  CASE method = "speed" -> a.max < b.max [] method = "rspeed" -> a.max > b.max
    [] method = "ping" -> PingRank[a.ping] < PingRank[b.ping]
    [] method = "rping" -> PingRank[a.ping] > PingRank[b.ping] [] OTHER -> FALSE
Orders(nodes) ==
  {[i \in DOMAIN nodes |-> nodes[place[i]]] : place \in Bijection(DOMAIN nodes, DOMAIN nodes)}
Sorted(nodes, method) ==
  {order \in Orders(nodes) : \A i, j \in DOMAIN order : i < j => ~Before(method, order[j], order[i])}

LinksOfNodes(nodes) == [i \in DOMAIN nodes |-> nodes[i].link]

\* As workingLinks, with the nodes that failed.
AllLinks(nodes) == At(LinksOfNodes(nodes), {i \in DOMAIN nodes : nodes[i].link # "direct"})

\* Direct links cannot be imported.
Works(n) == n.ping # "0" \/ n.avg > 0 \/ n.max > 0
workingLinks(nodes) == At(LinksOfNodes(nodes), {i \in DOMAIN nodes : nodes[i].link # "direct" /\ Works(nodes[i])})

\* "-" stands for a value that is missing.
Cell(n, value, missing) == IF n.success /\ value # missing THEN value ELSE "-"
renderTable(nodes) ==
  [i \in DOMAIN nodes |->
     [link |-> nodes[i].link, ping |-> Cell(nodes[i], nodes[i].ping, "0"),
      down |-> IF nodes[i].success /\ nodes[i].avg > 0 THEN "some" ELSE "-",
      up |-> IF nodes[i].success /\ nodes[i].up > 0 THEN "some" ELSE "-"]]

Content(format, nodes) ==
  CASE format = "text" -> workingLinks(nodes) [] format = "table" -> renderTable(nodes) [] OTHER -> nodes

-----------------------------------------------------------------------------

\* emitCMD and testAll begin with the plan and the nodes sorted.  A spec with an
\* unknown format fails before anything is tested.
Begin(plan, targets) ==
  /\ outPlan' = plan
  /\ outTargets' = targets
  /\ \E nodes \in Results : outNodes' \in Sorted(nodes, plan.sort)
  /\ outStage' = "emitting"
  /\ UNCHANGED <<outNext, outFiles, outStdout, outReplies>>

PlanCommand(plan) == ToSet(plan.spec) \subseteq Formats /\ Begin(plan, ParseOutputPlan(plan.spec, plan.file, plan.pic))
RefuseSpec(plan) ==
  /\ ~(ToSet(plan.spec) \subseteq Formats)
  /\ outStage' = "failed" /\ outPlan' = plan
  /\ UNCHANGED <<outNodes, outTargets, outNext, outFiles, outStdout, outReplies>>

\* A request: the mode names one target, and a picture may be wanted besides.
ModeTargets(plan) ==
  CASE plan.mode = "none" -> << >>
    [] plan.mode = "json" -> <<Target("json", "output.json")>>
    [] plan.mode = "text" -> <<Target("text", "output.txt")>>
    [] plan.mode = "base64" -> <<Target("pic", "page")>>
    [] plan.mode = "path" -> <<Target("pic", "out.png")>>
PlanRequest(plan) ==
  Begin(plan, ModeTargets(plan)
              \o IF plan.pic # "" /\ plan.mode \in {"json", "text"} THEN <<Target("pic", plan.pic)>> ELSE << >>)

FromCommandLine == "spec" \in DOMAIN outPlan
Mode == IF "mode" \in DOMAIN outPlan THEN outPlan.mode ELSE "command"
Pending == outStage = "emitting" /\ outNext \in DOMAIN outTargets
Take(target) == Pending /\ target = outTargets[outNext] /\ outNext' = outNext + 1

WriteFile(target) ==
  /\ Take(target) /\ target.path # Stdout /\ Mode # "base64"
  /\ outFiles' = [path \in DOMAIN outFiles \cup {target.path} |->
       IF path = target.path THEN [format |-> target.format, content |-> Content(target.format, outNodes)] ELSE outFiles[path]]
  /\ outReplies' = IF Mode = "path" THEN Append(outReplies, "out.png") ELSE outReplies
  /\ UNCHANGED <<outStage, outPlan, outNodes, outTargets, outStdout>>

WriteStdout(target) ==
  /\ Take(target) /\ target.path = Stdout
  /\ outStdout' = Append(outStdout, target.format)
  /\ UNCHANGED <<outStage, outPlan, outNodes, outTargets, outFiles, outReplies>>

SendPicture(target) ==
  /\ Take(target) /\ Mode = "base64"
  /\ outReplies' = Append(outReplies, "picture")
  /\ UNCHANGED <<outStage, outPlan, outNodes, outTargets, outFiles, outStdout>>

\* Data cannot be written, or a picture cannot be rendered: a command stops
\* there, a request passes it over.
WriteFails(target) ==
  /\ Take(target)
  /\ outStage' = IF FromCommandLine THEN "failed" ELSE outStage
  /\ UNCHANGED <<outPlan, outNodes, outTargets, outFiles, outStdout, outReplies>>

\* A picture that cannot be saved is passed over by both, and the page is told
\* its name all the same.
SaveFails(target) ==
  /\ Take(target) /\ target.format = "pic" /\ Mode # "base64"
  /\ outReplies' = IF Mode = "path" THEN Append(outReplies, "out.png") ELSE outReplies
  /\ UNCHANGED <<outStage, outPlan, outNodes, outTargets, outFiles, outStdout>>

EmitEnds ==
  /\ outStage = "emitting" /\ ~Pending
  /\ outStage' = "done"
  /\ UNCHANGED <<outPlan, outNodes, outTargets, outNext, outFiles, outStdout, outReplies>>

OutInit ==
  /\ outStage = "idle" /\ outPlan = << >> /\ outNodes = << >> /\ outTargets = << >> /\ outNext = 1
  /\ outFiles = << >> /\ outStdout = << >> /\ outReplies = << >>

OutNext ==
  \/ /\ outStage = "idle"
     /\ \/ \E plan \in {p \in Plans : "spec" \in DOMAIN p} : PlanCommand(plan) \/ RefuseSpec(plan)
        \/ \E plan \in {p \in Plans : "mode" \in DOMAIN p} : PlanRequest(plan)
  \/ \E target \in ToSet(outTargets) :
       WriteFile(target) \/ WriteStdout(target) \/ SendPicture(target) \/ WriteFails(target) \/ SaveFails(target)
  \/ EmitEnds

OutSpec == OutInit /\ [][OutNext]_outVars

-----------------------------------------------------------------------------
\* The inductive invariant behind OutputSafe.

\* What ParseOutputPlan makes of a spec: a target for each format that was asked
\* for; at most one is the standard output, and it gets data; the named file is that
\* of the first data format, or of the picture; of the names with the time only text
\* and table share one.
Gapless(targets) == \A k \in DOMAIN targets : k \in Nat \ {0} /\ 1 .. k \subseteq DOMAIN targets
OneStdout(targets) ==
  \A k, l \in DOMAIN targets :
    targets[k].path = Stdout => IsData(targets[k].format) /\ (targets[l].path = Stdout => l = k)
SoundPlan(spec, file, pic, targets) ==
  /\ \A k \in DOMAIN targets : targets[k].format # "none"
  /\ \A i \in DOMAIN spec : spec[i] # "none" => \E k \in DOMAIN targets : targets[k].format = spec[i]
  /\ \A k \in DOMAIN targets : targets[k].path = file /\ file # "" /\ file # pic =>
       \/ \E i \in DOMAIN spec : FirstData(spec, i) /\ targets[k].format = spec[i]
       \/ /\ \A i \in DOMAIN spec : ~IsData(spec[i])
          /\ targets[k].format = IF spec = << >> THEN "json" ELSE "pic"
  /\ \A k, l \in DOMAIN targets :
       k # l /\ IsData(targets[k].format) /\ IsData(targets[l].format) /\ targets[k].path = targets[l].path =>
         {targets[k].format, targets[l].format} = {"text", "table"}

\* The targets up to outNext have been taken; a plan is over when all have been.
StageInv ==
  /\ outStage \in {"idle", "emitting", "done", "failed"} /\ outNext \in Nat \ {0}
  /\ outStage = "idle" =>
       outPlan = << >> /\ outNodes = << >> /\ outTargets = << >> /\ outNext = 1 /\ outFiles = << >> /\ outStdout = << >>
  /\ outStage = "done" => \A k \in DOMAIN outTargets : k < outNext

TargetsInv ==
  /\ Gapless(outTargets) /\ OneStdout(outTargets)
  /\ FromCommandLine => Mode # "base64"
  /\ FromCommandLine /\ outStage # "failed" => SoundPlan(outPlan.spec, outPlan.file, outPlan.pic, outTargets)

NodesInv ==
  /\ outNodes \in Seq(NodeRecords)
  /\ \A i \in DOMAIN outNodes : Works(outNodes[i]) => outNodes[i].success

Holds(k) ==
  LET target == outTargets[k] IN
  /\ target.path \in DOMAIN outFiles
  /\ outFiles[target.path] = [format |-> target.format, content |-> Content(target.format, outNodes)]

\* What is there was written for a target that has been taken,
WrittenInv ==
  /\ outStdout = << >> \/ \E k \in DOMAIN outTargets :
       k < outNext /\ outTargets[k].path = Stdout /\ outStdout = <<outTargets[k].format>>
  /\ \A path \in DOMAIN outFiles : \E k \in DOMAIN outTargets : k < outNext /\ outTargets[k].path = path /\ Holds(k)

\* and what was taken is there, or overwritten.
Emitted(k) ==
  \/ outStdout = <<outTargets[k].format>>
  \/ Holds(k)
  \/ \E j \in DOMAIN outTargets : k < j /\ j < outNext /\ outTargets[j].path = outTargets[k].path
EmittedInv ==
  FromCommandLine /\ outStage # "failed" =>
    \A k \in DOMAIN outTargets : k < outNext /\ IsData(outTargets[k].format) => Emitted(k)

-----------------------------------------------------------------------------

\* The standard output, which is piped, holds at most one result and then
\* nothing but data; a picture never goes there.
StdoutIsClean == Len(outStdout) <= 1 /\ "pic" \notin ToSet(outStdout)

\* A command that succeeds has emitted each data format it was asked for, and
\* what a file holds was rendered from the nodes of this run.  Text and table
\* share a name, and the picture may be given the file's.
AllEmitted ==
  outStage = "done" /\ FromCommandLine =>
    \A format \in ToSet(outPlan.spec) \ {"none", "pic"} :
      \/ format \in ToSet(outStdout)
      \/ \E path \in DOMAIN outFiles : outFiles[path] = [format |-> format, content |-> Content(format, outNodes)]
      \/ \E i, j \in DOMAIN outTargets :
           i < j /\ outTargets[i].format = format /\ outTargets[j].path = outTargets[i].path
           /\ (outTargets[j].format = "pic" \/ {format, outTargets[j].format} = {"text", "table"})

\* The file that is named gets the first data format, or the picture when there
\* is none, whatever is written before and after; unless the picture has its name too.
FileIsFirst ==
  outStage = "done" /\ FromCommandLine /\ outPlan.file # "" /\ outPlan.file # outPlan.pic /\ outPlan.file \in DOMAIN outFiles =>
    LET spec == outPlan.spec
        format == outFiles[outPlan.file].format
    IN  \/ \E i \in DOMAIN spec : FirstData(spec, i) /\ format = spec[i]
        \/ /\ \A i \in DOMAIN spec : ~IsData(spec[i])
           /\ format = IF spec = << >> THEN "json" ELSE "pic"

\* The links of the text are those of nodes that count as successful and are
\* not direct; the table shows a value for each of them, unless its bytes were
\* too few to make an average.
OutputsAgree ==
  \A path \in DOMAIN outFiles : outFiles[path].format = "text" =>
    \A link \in ToSet(outFiles[path].content) :
      /\ link # "direct"
      /\ \E i \in DOMAIN outNodes :
           /\ outNodes[i].link = link /\ outNodes[i].success
           /\ LET row == renderTable(outNodes)[i] IN
              row.link = link /\ (row.ping # "-" \/ row.down # "-" \/ (outNodes[i].avg = 0 /\ outNodes[i].max > 0))

\* The sorting neither loses nor doubles a node.
NodesKept == outStage \in {"emitting", "done"} =>
  \E nodes \in Results : ToSet(outNodes) = ToSet(nodes) /\ Len(outNodes) = Len(nodes)

\* What a run found is what is emitted, once and where it was asked for.
OutputSafe == StdoutIsClean /\ AllEmitted /\ FileIsFirst /\ OutputsAgree /\ NodesKept

OutInv == StageInv /\ TargetsInv /\ NodesInv /\ WrittenInv /\ EmittedInv /\ NodesKept

\* "no -output-file and multiple formats: each written to speedtest-<timestamp>.<ext>":
\* a plan gives no name to two formats.
NamesDiffer ==
  FromCommandLine /\ outPlan.pic = "" =>
    \A i, j \in DOMAIN outTargets : outTargets[i].path = outTargets[j].path => i = j
=============================================================================
