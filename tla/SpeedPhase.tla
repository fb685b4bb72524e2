----------------------------- MODULE SpeedPhase -----------------------------
(***************************************************************************)
(* One direction of a node's bandwidth test: ProfileTest.runSpeedPhase     *)
(* with DownloadWithURLThreads or UploadWithURLThreads as its run.         *)
(*                                                                         *)
(* Threads move bytes into an atomic counter; the measuring loop swaps it  *)
(* out every second and sends the sample over a channel with one place;    *)
(* the consumer sums the samples and writes the live messages.  Both the   *)
(* caller's context and the phase's own timeout can end it at any time.    *)
(* The channel startCh, used once, and the averages are left out, and so   *)
(* is trafficChan, which every caller in the repository passes as nil.     *)
(***************************************************************************)
EXTENDS Naturals, Sequences

CONSTANTS
  Threads,    \* the parallel connections
  Directions, \* the directions considered: "download", "upload"
  Timeout,    \* Options.Timeout, in seconds
  DeadAfter,  \* seconds without a byte after which a node is given up
  MaxBytes    \* bound: bytes moved by all threads

ASSUME PhaseAssumption ==
  /\ Directions \subseteq {"download", "upload"}
  /\ Timeout \in Nat \ {0}
  /\ DeadAfter \in Nat \ {0}
  /\ MaxBytes \in Nat

VARIABLES
  direction, \* of this phase, never changed
  ctxDone,  \* the caller's context is cancelled
  dlDone,   \* the phase's context: the caller's, the timeout, or the deferred cancel
  clock,    \* seconds since the start
  ticked,   \* the ticker's channel holds a tick
  urlValid, \* http.NewRequest accepts the endpoint
  tpc,      \* where each thread stands
  counter,  \* bytes since the last swap
  moved,    \* history: all bytes ever added to counter
  lpc,      \* where the measuring loop stands
  last,     \* the flush under way is the final one
  pending,  \* the sample being sent
  total, max,          \* of the measuring loop
  ret,                 \* what the loop returned
  ch, closed,          \* channel of samples
  cpc, sum, cmax,      \* the consumer: control, its sum and maximum
  dropped              \* history: bytes of samples that were not sent

clockVars == <<ctxDone, clock, ticked>>
phaseVars == <<direction, urlValid>>
loopVars == <<lpc, last, pending, total, max, ret>>
consumerVars == <<cpc, sum, cmax>>
vars == <<phaseVars, clockVars, dlDone, tpc, counter, moved, loopVars, ch, closed,
          consumerVars, dropped>>

Init ==
  /\ direction \in Directions
  /\ ctxDone = FALSE /\ dlDone = FALSE
  /\ clock = 0 /\ ticked = FALSE
  /\ urlValid \in BOOLEAN
  /\ tpc = [t \in Threads |-> "request"]
  /\ counter = 0 /\ moved = 0
  /\ lpc = "setup" /\ last = FALSE /\ pending = 0
  /\ total = 0 /\ max = 0 /\ ret = 0
  /\ ch = <<>> /\ closed = FALSE
  /\ cpc = "receiving" /\ sum = 0 /\ cmax = 0
  /\ dropped = 0

-----------------------------------------------------------------------------
\* The threads.

Move(t, from, to) == tpc[t] = from /\ tpc' = [tpc EXCEPT ![t] = to]

Count(bytes) ==
  /\ moved + bytes <= MaxBytes
  /\ counter' = counter + bytes
  /\ moved' = moved + bytes

threadRest == <<clockVars, dlDone, phaseVars, loopVars, ch, closed, consumerVars, dropped>>

\* The loop condition dlCtx.Err() == nil, a request that cannot be built, and
\* the wait after a failure all end the thread.
ThreadExits(t) ==
  /\ \/ dlDone /\ Move(t, "request", "exited")
     \/ dlDone /\ Move(t, "backoff", "exited")
     \/ ~urlValid /\ Move(t, "request", "exited")
  /\ UNCHANGED <<threadRest, counter, moved>>

\* No answer, or one that is not 2xx: nothing is counted, retry after a pause.
RequestFails(t) ==
  /\ ~dlDone /\ urlValid
  /\ Move(t, "request", "backoff")
  /\ UNCHANGED <<threadRest, counter, moved>>

Retry(t) ==
  /\ Move(t, "backoff", "request")
  /\ UNCHANGED <<threadRest, counter, moved>>

\* 2xx: a download reads on, an upload has the answer's body to discard.
RequestSucceeds(t) ==
  /\ ~dlDone /\ urlValid
  /\ Move(t, "request", "reading")
  /\ UNCHANGED <<threadRest, counter, moved>>

\* A read delivers bytes, an upload counts at once what it had sent.  Both may
\* still happen after the context has ended, but then only once.
Read(t) ==
  /\ Move(t, "reading", IF direction = "download" /\ ~dlDone THEN "reading" ELSE "request")
  /\ Count(1)
  /\ UNCHANGED threadRest

\* The body is over, or the answer came before anything of the chunk was sent.
BodyEnds(t) ==
  /\ Move(t, "reading", "request")
  /\ UNCHANGED <<threadRest, counter, moved>>

Thread(t) ==
  /\ lpc # "setup"
  /\ \/ ThreadExits(t) \/ RequestFails(t) \/ Retry(t)
     \/ RequestSucceeds(t) \/ Read(t) \/ BodyEnds(t)

-----------------------------------------------------------------------------
\* The measuring loop.  Returning runs the deferred cancel, and runSpeedPhase
\* then closes the channel.

AllExited == \A t \in Threads : tpc[t] = "exited"

LeaveWith(speed) ==
  /\ lpc' = "returned" /\ ret' = speed
  /\ dlDone' = TRUE /\ closed' = TRUE

\* createDialer fails, or an object store upload has no endpoint.
SetupFails ==
  /\ lpc = "setup"
  /\ LeaveWith(0)
  /\ tpc' = [t \in Threads |-> "exited"]
  /\ UNCHANGED <<clockVars, phaseVars, counter, moved, last, pending, total, max, ch,
                 consumerVars, dropped>>

Setup ==
  /\ lpc = "setup"
  /\ lpc' = "loop"
  /\ UNCHANGED <<clockVars, dlDone, phaseVars, tpc, counter, moved, last, pending, total, max,
                 ret, ch, closed, consumerVars, dropped>>

Larger(a, b) == IF a > b THEN a ELSE b

\* counter.Swap(0) leaves nothing behind, a plain Load would leave everything.
LoadedOnly == counter
Swapped == 0

\* flush(reportZero): the counter is swapped out and the sample is to be sent;
\* without one the loop returns at once.
Flush(reportZero, final) ==
  /\ counter' = Swapped
  /\ total' = total + counter
  /\ max' = Larger(max, counter)
  /\ pending' = counter
  /\ last' = final
  /\ IF reportZero \/ counter > 0
     THEN lpc' = "sending" /\ UNCHANGED <<ret, dlDone, closed>>
     ELSE LeaveWith(max')
  /\ UNCHANGED <<ctxDone, clock, phaseVars, tpc, moved, ch, consumerVars, dropped>>

FlushTick == lpc = "loop" /\ ticked /\ ticked' = FALSE /\ Flush(TRUE, FALSE)

FlushLast == lpc = "loop" /\ (AllExited \/ dlDone) /\ Flush(FALSE, TRUE) /\ UNCHANGED ticked

\* A node that has moved nothing is given up after DeadAfter seconds.
\* Looking at the last second only would give up a node that stalls, and
\* comparing with > would spend a second more.
IsSilent == pending = 0 /\ clock >= DeadAfter
IsDeadLate == total = 0 /\ clock > DeadAfter
IsDead == total = 0 /\ clock >= DeadAfter

AfterFlush ==
  IF last THEN LeaveWith(max)
  ELSE IF IsDead THEN LeaveWith(0)
  ELSE lpc' = "loop" /\ UNCHANGED <<ret, dlDone, closed>>

Deliver ==
  /\ lpc = "sending" /\ ch = <<>>
  /\ ch' = <<pending>>
  /\ AfterFlush
  /\ UNCHANGED <<clockVars, phaseVars, tpc, counter, moved, last, pending, total, max,
                 consumerVars, dropped>>

\* As Drop below, in a select without the case for the context.
NeverDrop == FALSE /\ UNCHANGED vars

\* As Drop below, with a default case: a full channel loses the sample.
DropWhenFull ==
  /\ lpc = "sending" /\ (ch # <<>> \/ dlDone)
  /\ dropped' = dropped + pending
  /\ AfterFlush
  /\ UNCHANGED <<clockVars, phaseVars, tpc, counter, moved, last, pending, total, max, ch,
                 consumerVars>>

\* The other case of the select, open as soon as the phase's context is done.
Drop ==
  /\ lpc = "sending" /\ dlDone
  /\ dropped' = dropped + pending
  /\ AfterFlush
  /\ UNCHANGED <<clockVars, phaseVars, tpc, counter, moved, last, pending, total, max, ch,
                 consumerVars>>

\* As Finish below, without waiting for the consumer.
FinishEarly ==
  /\ lpc = "returned"
  /\ lpc' = "finished"
  /\ UNCHANGED <<clockVars, dlDone, phaseVars, tpc, counter, moved, last, pending, total, max,
                 ret, ch, closed, consumerVars, dropped>>

\* <-done: the consumer has ended, and runSpeedPhase returns its sums.
Finish ==
  /\ lpc = "returned" /\ cpc = "done"
  /\ lpc' = "finished"
  /\ UNCHANGED <<clockVars, dlDone, phaseVars, tpc, counter, moved, last, pending, total, max,
                 ret, ch, closed, consumerVars, dropped>>

Loop == SetupFails \/ Setup \/ FlushTick \/ FlushLast \/ Deliver \/ Drop \/ Finish

-----------------------------------------------------------------------------
\* The consumer.

Consume ==
  /\ cpc = "receiving" /\ ch # <<>>
  /\ ch' = <<>>
  /\ sum' = sum + Head(ch)
  /\ cmax' = Larger(cmax, Head(ch))
  /\ UNCHANGED <<clockVars, dlDone, phaseVars, tpc, counter, moved, loopVars, closed, cpc,
                 dropped>>

\* As ConsumerEnds, listening to the phase's context.
ConsumerEndsWithPhase ==
  /\ cpc = "receiving"
  /\ dlDone \/ (closed /\ ch = <<>>)
  /\ cpc' = "done"
  /\ UNCHANGED <<clockVars, dlDone, phaseVars, tpc, counter, moved, loopVars, ch, closed, sum,
                 cmax, dropped>>

\* The channel is closed and empty, or the caller's context is done.
ConsumerEnds ==
  /\ cpc = "receiving"
  /\ ctxDone \/ (closed /\ ch = <<>>)
  /\ cpc' = "done"
  /\ UNCHANGED <<clockVars, dlDone, phaseVars, tpc, counter, moved, loopVars, ch, closed, sum,
                 cmax, dropped>>

-----------------------------------------------------------------------------
\* Time and the caller.

Second ==
  /\ lpc \notin {"setup", "finished"} /\ clock < Timeout
  /\ clock' = clock + 1
  /\ ticked' = TRUE
  /\ dlDone' = (dlDone \/ clock' = Timeout)
  /\ UNCHANGED <<ctxDone, phaseVars, tpc, counter, moved, loopVars, ch, closed, consumerVars,
                 dropped>>

Cancel ==
  /\ ~ctxDone
  /\ ctxDone' = TRUE
  /\ dlDone' = TRUE
  /\ UNCHANGED <<clock, ticked, phaseVars, tpc, counter, moved, loopVars, ch, closed,
                 consumerVars, dropped>>

Next ==
  \/ Loop \/ Consume \/ ConsumerEnds \/ Second \/ Cancel
  \/ \E t \in Threads : Thread(t)

\* Goroutines that can run do run and seconds pass.  A body that is read ends,
\* or fails once its context is done.
Fairness ==
  /\ WF_vars(Loop) /\ WF_vars(Consume \/ ConsumerEnds) /\ WF_vars(Second)
  /\ \A t \in Threads : WF_vars(lpc # "setup" /\ (ThreadExits(t) \/ BodyEnds(t)))

Spec == Init /\ [][Next]_vars
FairSpec == Spec /\ Fairness

-----------------------------------------------------------------------------
InChannel == IF ch = <<>> THEN 0 ELSE Head(ch)
InFlight == IF lpc = "sending" THEN pending ELSE 0

TypeOK ==
  /\ direction \in Directions
  /\ ctxDone \in BOOLEAN /\ dlDone \in BOOLEAN /\ ticked \in BOOLEAN /\ urlValid \in BOOLEAN
  /\ clock \in 0 .. Timeout
  /\ tpc \in [Threads -> {"request", "reading", "backoff", "exited"}]
  /\ counter \in Nat /\ moved \in Nat /\ pending \in Nat /\ total \in Nat /\ max \in Nat
  /\ ret \in Nat /\ sum \in Nat /\ cmax \in Nat /\ dropped \in Nat
  /\ lpc \in {"setup", "loop", "sending", "returned", "finished"}
  /\ last \in BOOLEAN /\ closed \in BOOLEAN
  /\ ch \in Seq(Nat) /\ Len(ch) <= 1
  /\ cpc \in {"receiving", "done"}

\* Every byte a thread has counted is in exactly one place: still in the
\* counter, in the sample on its way, in the channel, summed, or dropped; and
\* the loop's total is what has left the counter.
BytesConserved ==
  /\ moved = counter + total
  /\ total = InFlight + InChannel + sum + dropped

\* Samples are lost only at the end, once the phase's context is done: a slow
\* consumer delays the loop, it does not cost bytes.
NoLossWhileRunning == dropped > 0 => dlDone

\* A phase announced as failed (speed < 1, the message -1) has not announced a
\* single byte before: the two verdicts come from different goroutines.
FailureMeansNoBytes == lpc \in {"returned", "finished"} /\ ret = 0 => sum = 0 /\ cmax = 0

\* The sums that runSpeedPhase returns are no longer written: the consumer has
\* ended and does not touch them after <-done.
SumsSettled == [][lpc = "finished" => UNCHANGED consumerVars]_vars

\* Unless the caller cancels, the consumer has drained the channel.
DrainedUnlessCancelled == lpc = "finished" /\ ~ctxDone => ch = <<>>

\* A node that moves no byte is given up by the tick at DeadAfter seconds.
DeadNodeGivenUp ==
  lpc = "loop" /\ ~ticked /\ clock >= DeadAfter => total > 0

\* What the properties above rest on: a loop that has not started has spent no
\* second and counted no byte, a maximum or a verdict of zero means a total of zero, a maximum
\* announced means bytes announced, the channel is closed with the loop's
\* return, and the consumer ends before runSpeedPhase does.
Verdicts ==
  /\ max = 0 => total = 0
  /\ cmax > 0 => sum > 0
  /\ lpc \in {"returned", "finished"} /\ ret = 0 => total = 0
Endings ==
  /\ lpc = "setup" => clock = 0 /\ total = 0
  /\ closed => lpc \in {"returned", "finished"}
  /\ cpc = "done" => ctxDone \/ (closed /\ ch = <<>>)
  /\ lpc = "finished" => cpc = "done"
IndInv ==
  /\ TypeOK /\ BytesConserved /\ NoLossWhileRunning /\ DeadNodeGivenUp
  /\ Verdicts /\ Endings

\* The phase ends, whoever cancels or times out first, and all its goroutines
\* with it.
PhaseEnds == <>(lpc = "finished" /\ cpc = "done" /\ AllExited)
=============================================================================
