--------------------------- MODULE DownloadRange ---------------------------
(***************************************************************************)
(* download: DownloadRange fetches a file in parts, one worker for each    *)
(* range of it.  Workers report what they read over channels without a     *)
(* buffer; the caller adds it up, once a second passes on what it has, and *)
(* returns when all workers are done or when its context ends.             *)
(*                                                                         *)
(* A worker reads the bytes of its range one at a time.  The buffers of    *)
(* the pool are written and never read, so that sharing one changes        *)
(* nothing; they are left out.                                             *)
(***************************************************************************)
EXTENDS Integers, FiniteSets, FiniteSetsExt

CONSTANTS DrMaxParts, DrMaxLength \* bounds of part and contentLength

ASSUME DrAssumption == DrMaxParts \in Nat \ {0} /\ DrMaxLength \in Nat

Parts == 0 .. (DrMaxParts - 1)

VARIABLES
  drLength, drRanges, \* the content length and the ranges of the parts
  drCtxDone,          \* the context has ended
  drWorker,           \* each worker: where it is, bytes read, bytes not reported, the reader's error
  drStart,            \* startCh holds a value (its capacity is 1)
  drCaller            \* the caller: its sums, and how it returned

drVars == <<drLength, drRanges, drCtxDone, drWorker, drStart, drCaller>>

WorkerOff == [pc |-> "off", read |-> 0, total |-> 0, er |-> "none"]
Caller0 == [pc |-> "idle", started |-> FALSE, sum |-> 0, sent |-> 0, max |-> 0, error |-> FALSE]

DrInit ==
  /\ drLength = 0 /\ drRanges = << >>
  /\ drCtxDone = FALSE
  /\ drWorker = [w \in Parts |-> WorkerOff]
  /\ drStart = FALSE
  /\ drCaller = Caller0

\* As calcRange, with the end of a range excluded.
OverlappingRanges(part, len) ==
  [j \in 0 .. (part - 1) |->
    [from |-> (len \div part) * j, to |-> IF j < part - 1 THEN (len \div part) * (j + 1) ELSE len]]

\* The j-th of part ranges of a file, both ends included; the last one is open.
calcRange(part, len) ==
  [j \in 0 .. (part - 1) |->
    [from |-> (len \div part) * j, to |-> IF j < part - 1 THEN (len \div part) * (j + 1) - 1 ELSE len]]

\* Range.toHeader: the bytes a server sends for a range (none of a range whose
\* end comes before its start, or at the end of the file).
Requested(rng, len) ==
  IF rng.to # len THEN {b \in 0 .. (len - 1) : rng.from <= b /\ b <= rng.to}
  ELSE {b \in 0 .. (len - 1) : rng.from <= b}

DrCall(part, len) ==
  /\ drCaller.pc = "idle"
  /\ drLength' = len /\ drRanges' = calcRange(part, len)
  /\ drCaller' = [drCaller EXCEPT !.pc = "loop"]
  /\ drWorker' = [w \in Parts |-> IF w < part THEN [WorkerOff EXCEPT !.pc = "request"] ELSE WorkerOff]
  /\ UNCHANGED <<drCtxDone, drStart>>

DrCtxEnds ==
  /\ drCaller.pc = "loop" /\ ~drCtxDone
  /\ drCtxDone' = TRUE
  /\ UNCHANGED <<drLength, drRanges, drWorker, drStart, drCaller>>

-----------------------------------------------------------------------------
\* A worker.

DrRequest(w) ==
  /\ drWorker[w].pc = "request"
  /\ \E next \in {"begin", "error"} : drWorker' = [drWorker EXCEPT ![w].pc = next]
  /\ UNCHANGED <<drLength, drRanges, drCtxDone, drStart, drCaller>>

DrBegin(w) ==
  /\ drWorker[w].pc = "begin" /\ ~drStart
  /\ drStart' = TRUE
  /\ drWorker' = [drWorker EXCEPT ![w].pc = "read"]
  /\ UNCHANGED <<drLength, drRanges, drCtxDone, drCaller>>

\* One turn of the loop: leave when the context has ended, or read; report
\* after 100 ms, and always when the body ends or fails.
DrRead(w) ==
  /\ drWorker[w].pc = "read"
  /\ LET left == Cardinality(Requested(drRanges[w], drLength)) - drWorker[w].read IN
     \/ /\ drCtxDone
        /\ drWorker' = [drWorker EXCEPT ![w].pc = "ended"]
     \/ /\ ~drCtxDone /\ left > 0
        /\ \E report \in BOOLEAN :
             drWorker' = [drWorker EXCEPT ![w].read = @ + 1, ![w].total = @ + 1,
                                          ![w].pc = IF report THEN "report" ELSE "read"]
     \/ /\ ~drCtxDone
        /\ \E er \in IF left = 0 THEN {"EOF"} ELSE {"failed"} :
             drWorker' = [drWorker EXCEPT ![w].er = er, ![w].pc = "report"]
  /\ UNCHANGED <<drLength, drRanges, drCtxDone, drStart, drCaller>>

-----------------------------------------------------------------------------
\* The caller: what select can take while it is in its loop.

InLoop == drCaller.pc = "loop"

DrReceiveTotal(w) ==
  /\ InLoop /\ drWorker[w].pc = "report"
  /\ drCaller' = [drCaller EXCEPT !.sum = @ + drWorker[w].total]
  /\ drWorker' = [drWorker EXCEPT ![w].total = 0,
       ![w].pc = CASE @ # "report" -> @ [] drWorker[w].er = "EOF" -> "ended"
                   [] drWorker[w].er = "failed" -> "error" [] OTHER -> "read"]
  /\ UNCHANGED <<drLength, drRanges, drCtxDone, drStart>>

DrReceiveError(w) ==
  /\ InLoop /\ drWorker[w].pc = "error"
  /\ drCaller' = [drCaller EXCEPT !.error = TRUE]
  /\ drWorker' = [drWorker EXCEPT ![w].pc = "ended"]
  /\ UNCHANGED <<drLength, drRanges, drCtxDone, drStart>>

DrReceiveStart ==
  /\ InLoop /\ drStart
  /\ drStart' = FALSE
  /\ drCaller' = [drCaller EXCEPT !.started = TRUE]
  /\ UNCHANGED <<drLength, drRanges, drCtxDone, drWorker>>

\* A second has passed since the last report: resultChan <- sum.
DrReport ==
  /\ InLoop /\ drCaller.started /\ drCaller.sum > 0
  /\ drCaller' = [drCaller EXCEPT !.sent = @ + drCaller.sum, !.sum = 0, !.max = Max({@, drCaller.sum})]
  /\ UNCHANGED <<drLength, drRanges, drCtxDone, drWorker, drStart>>

\* doneCh: wg.Wait has returned.
DrDone ==
  /\ InLoop /\ \A w \in DOMAIN drRanges : drWorker[w].pc = "ended"
  /\ drCaller' = [drCaller EXCEPT !.pc = "done"]
  /\ UNCHANGED <<drLength, drRanges, drCtxDone, drWorker, drStart>>

DrTimeout ==
  /\ InLoop /\ drCtxDone
  /\ drCaller' = [drCaller EXCEPT !.pc = "timeout", !.error = (drCaller.max = 0)]
  /\ UNCHANGED <<drLength, drRanges, drCtxDone, drWorker, drStart>>

DrRuns ==
  \/ DrReceiveStart \/ DrDone \/ DrTimeout
  \/ \E w \in Parts : DrRequest(w) \/ DrBegin(w) \/ DrRead(w) \/ DrReceiveTotal(w) \/ DrReceiveError(w)

DrNext ==
  \/ \E part \in 1 .. DrMaxParts, len \in 0 .. DrMaxLength : DrCall(part, len)
  \/ DrCtxEnds \/ DrReport
  \/ DrRuns

\* The caller and the workers run; the context may never end, and whether a
\* second passes between two reports is left open.
DrFairness == WF_drVars(DrRuns)

DrSpec == DrInit /\ [][DrNext]_drVars /\ DrFairness

-----------------------------------------------------------------------------

\* Every byte of the file is requested by exactly one part (as long as there
\* are no more parts than bytes).
EachByteOnce ==
  Cardinality(DOMAIN drRanges) <= drLength =>
    \A b \in 0 .. (drLength - 1) :
      Cardinality({w \in DOMAIN drRanges : b \in Requested(drRanges[w], drLength)}) = 1

\* The bytes that the workers have reported, each as its number in its range.
Reported == {b \in Parts \X (1 .. DrMaxLength) : b[2] <= drWorker[b[1]].read - drWorker[b[1]].total}

\* Nothing that a worker read is lost between it and the caller.
BytesAccounted == drCaller.sum + drCaller.sent = Cardinality(Reported)

\* A download that ends with all its workers and no error has received the
\* whole file, and left no worker waiting for it.
DoneMeansAll ==
  drCaller.pc = "done" =>
    /\ \A w \in DOMAIN drRanges : drWorker[w].pc = "ended"
    /\ ~drCaller.error /\ ~drCtxDone /\ drLength >= Cardinality(DOMAIN drRanges) =>
         drCaller.sum + drCaller.sent = drLength

\* A worker may wait forever only for a caller that left on its timeout.
LeftBehindByTimeout ==
  \A w \in Parts : drWorker[w].pc \in {"begin", "report", "error"} /\ ~InLoop => drCaller.pc = "timeout"

DrSafe == EachByteOnce /\ BytesAccounted /\ DoneMeansAll /\ LeftBehindByTimeout

\* What makes them so: the ranges are those of calcRange, and a worker that has
\* ended has reported all of its range, unless the context or the caller knows
\* better.
DrTypeOK ==
  /\ drLength \in 0 .. DrMaxLength
  /\ drCtxDone \in BOOLEAN /\ drStart \in BOOLEAN
  /\ drWorker \in [Parts -> [pc : {"off", "request", "begin", "read", "report", "error", "ended"},
                             read : Nat, total : Nat, er : {"none", "EOF", "failed"}]]
  /\ drCaller \in [pc : {"idle", "loop", "done", "timeout"}, started : BOOLEAN, sum : Nat, sent : Nat,
                   max : Nat, error : BOOLEAN]

Size(w) == Cardinality(Requested(drRanges[w], drLength))

Worked(w) ==
  /\ drWorker[w].pc # "off" /\ drWorker[w].read <= Size(w)
  /\ drWorker[w].total <= drWorker[w].read
  /\ drWorker[w].pc \in {"request", "begin", "read"} => drWorker[w].er = "none"
  /\ drWorker[w].er = "EOF" => drWorker[w].read = Size(w)
  /\ drWorker[w].pc = "ended" =>
       (drWorker[w].er = "EOF" /\ drWorker[w].total = 0) \/ drCtxDone \/ drCaller.error

Ranges ==
  \/ drCaller.pc = "idle" /\ drRanges = << >> /\ drLength = 0
  \/ drCaller.pc # "idle" /\ \E part \in 1 .. DrMaxParts : drRanges = calcRange(part, drLength)

DrInv ==
  /\ DrTypeOK /\ BytesAccounted /\ Ranges
  /\ \A w \in Parts : IF w \in DOMAIN drRanges THEN Worked(w) ELSE drWorker[w] = WorkerOff
  /\ drCaller.pc = "done" => \A w \in DOMAIN drRanges : drWorker[w].pc = "ended"
  /\ drCaller.pc = "timeout" => drCtxDone

\* The download has returned, and all workers have ended unless it left on its
\* timeout.
DrAtRest == ~InLoop /\ (drCaller.pc = "done" => \A w \in Parts : drWorker[w].pc \in {"off", "ended"})
=============================================================================
