-------------------------- MODULE SpeedPhaseProofs --------------------------
(***************************************************************************)
(* Proofs about module SpeedPhase for any set of threads, any timeout and  *)
(* any number of bytes: where the bytes are, what the verdict says of      *)
(* them, and what is over when runSpeedPhase returns.  All follow from the *)
(* one inductive invariant IndInv.                                         *)
(***************************************************************************)
EXTENDS SpeedPhase, TLAPS

LEMMA InitInd == Init => IndInv
<1>. SUFFICES ASSUME Init PROVE IndInv
  OBVIOUS
<1>. USE DEF Init
<1>1. TypeOK
  <2>1. ch \in Seq(Nat) /\ Len(ch) <= 1
    OBVIOUS
  <2>2. /\ ctxDone \in BOOLEAN /\ dlDone \in BOOLEAN /\ ticked \in BOOLEAN
        /\ urlValid \in BOOLEAN /\ last \in BOOLEAN /\ closed \in BOOLEAN
    OBVIOUS
  <2>3. clock \in 0 .. Timeout
    BY PhaseAssumption
  <2>4. tpc \in [Threads -> {"request", "reading", "backoff", "exited"}]
    OBVIOUS
  <2>. QED
    BY <2>1, <2>2, <2>3, <2>4, Zenon DEF TypeOK
<1>2. BytesConserved /\ NoLossWhileRunning /\ DeadNodeGivenUp
  BY DEF BytesConserved, NoLossWhileRunning, DeadNodeGivenUp, InChannel, InFlight
<1>3. Verdicts /\ Endings
  BY DEF Verdicts, Endings
<1>. QED
  BY <1>1, <1>2, <1>3 DEF IndInv

\* What the invariant says of the numbers, for the arithmetic of the steps.
LEMMA Numbers ==
  ASSUME IndInv
  PROVE  /\ counter \in Nat /\ moved \in Nat /\ pending \in Nat /\ total \in Nat
         /\ max \in Nat /\ ret \in Nat /\ sum \in Nat /\ cmax \in Nat /\ dropped \in Nat
         /\ clock \in 0 .. Timeout
         /\ InChannel \in Nat /\ InFlight \in Nat
         /\ ch # <<>> => Head(ch) \in Nat /\ InChannel = Head(ch)
BY DEF IndInv, TypeOK, InChannel, InFlight

-----------------------------------------------------------------------------
\* A thread adds the bytes it moves to the counter, or leaves it.
LEMMA ThreadStep ==
  ASSUME IndInv, NEW t \in Threads, Thread(t)
  PROVE  IndInv'
<1>. USE DEF threadRest, clockVars, phaseVars, loopVars, consumerVars
<1>1. UNCHANGED threadRest
  BY DEF Thread, ThreadExits, RequestFails, Retry, RequestSucceeds, Read, BodyEnds
<1>2. tpc' \in [Threads -> {"request", "reading", "backoff", "exited"}]
  BY DEF Thread, ThreadExits, RequestFails, Retry, RequestSucceeds, Read, BodyEnds, Move,
         IndInv, TypeOK
<1>3. UNCHANGED <<counter, moved>> \/ (counter' = counter + 1 /\ moved' = moved + 1)
  BY DEF Thread, ThreadExits, RequestFails, Retry, RequestSucceeds, Read, BodyEnds, Count
<1>4. TypeOK'
  BY <1>1, <1>2, <1>3, Numbers DEF IndInv, TypeOK
<1>5. BytesConserved'
  BY <1>1, <1>3, Numbers DEF IndInv, BytesConserved, InChannel, InFlight
<1>6. NoLossWhileRunning' /\ DeadNodeGivenUp' /\ Verdicts' /\ Endings'
  BY <1>1 DEF IndInv, NoLossWhileRunning, DeadNodeGivenUp, Verdicts, Endings
<1>. QED
  BY <1>4, <1>5, <1>6 DEF IndInv

\* Both flushes of the measuring loop: the counter's bytes become the sample in
\* flight, or there are none and the loop returns with its maximum.
LEMMA FlushStep ==
  ASSUME IndInv, NEW reportZero \in BOOLEAN, NEW final \in BOOLEAN,
         lpc = "loop", ticked' \in BOOLEAN, Flush(reportZero, final)
  PROVE  IndInv'
<1>. USE DEF Flush, LeaveWith, Swapped
<1>1. /\ counter' = 0 /\ total' = total + counter /\ pending' = counter /\ last' = final
      /\ max' \in Nat /\ max' >= max /\ max' >= counter
      /\ UNCHANGED <<ctxDone, clock, phaseVars, tpc, moved, ch, consumerVars, dropped>>
  BY Numbers DEF Larger
<1>2. \/ lpc' = "sending" /\ UNCHANGED <<ret, dlDone, closed>>
      \/ /\ counter = 0
         /\ lpc' = "returned" /\ ret' = max' /\ dlDone' = TRUE /\ closed' = TRUE
  BY Numbers
<1>3. TypeOK'
  <2>1. total' \in Nat /\ pending' \in Nat /\ ret' \in Nat /\ counter' \in Nat
    BY <1>1, <1>2, Numbers
  <2>2. /\ dlDone' \in BOOLEAN /\ closed' \in BOOLEAN
        /\ lpc' \in {"setup", "loop", "sending", "returned", "finished"}
    BY <1>2 DEF IndInv, TypeOK
  <2>. QED
    BY <1>1, <2>1, <2>2, Zenon DEF IndInv, TypeOK, phaseVars, consumerVars
<1>4. BytesConserved'
  <2>1. InFlight = 0 /\ InFlight' = counter
    BY <1>1, <1>2 DEF InFlight
  <2>2. InChannel' = InChannel
    BY <1>1 DEF InChannel
  <2>. QED
    BY <1>1, <2>1, <2>2, Numbers DEF IndInv, BytesConserved, consumerVars
<1>5. NoLossWhileRunning' /\ DeadNodeGivenUp' /\ Verdicts'
  BY <1>1, <1>2, Numbers
     DEF IndInv, NoLossWhileRunning, DeadNodeGivenUp, Verdicts, consumerVars
<1>6. Endings'
  BY <1>1, <1>2 DEF IndInv, Endings, consumerVars
<1>. QED
  BY <1>3, <1>4, <1>5, <1>6 DEF IndInv

\* The sample in flight is delivered or dropped; the loop goes on or returns.
LEMMA SendStep ==
  ASSUME IndInv, Deliver \/ Drop
  PROVE  IndInv'
<1>. USE DEF clockVars, phaseVars, consumerVars
<1>1. /\ lpc = "sending" /\ ~closed
      /\ UNCHANGED <<clockVars, phaseVars, tpc, counter, moved, last, pending, total, max,
                     consumerVars>>
  BY DEF Deliver, Drop, IndInv, Endings
<1>2. \/ ch = <<>> /\ ch' = <<pending>> /\ UNCHANGED dropped
      \/ dlDone /\ dropped' = dropped + pending /\ UNCHANGED ch
  BY DEF Deliver, Drop
<1>3. \/ lpc' = "loop" /\ UNCHANGED <<ret, dlDone, closed>> /\ ~IsDead
      \/ /\ lpc' = "returned" /\ dlDone' = TRUE /\ closed' = TRUE
         /\ ret' = max \/ (ret' = 0 /\ total = 0)
  BY DEF Deliver, Drop, AfterFlush, LeaveWith, IsDead
<1>4. TypeOK'
  <2>1. ch' \in Seq(Nat) /\ Len(ch') <= 1
    <3>1. ch \in Seq(Nat) /\ Len(ch) <= 1 /\ pending \in Nat
      BY DEF IndInv, TypeOK
    <3>2. <<pending>> \in Seq(Nat) /\ Len(<<pending>>) <= 1
      BY <3>1
    <3>3. ch' = ch \/ ch' = <<pending>>
      BY <1>2
    <3>. QED
      BY <3>1, <3>2, <3>3, Zenon
  <2>2. dropped' \in Nat /\ ret' \in Nat
    BY <1>1, <1>2, <1>3, Numbers
  <2>3. lpc' \in {"loop", "returned"} /\ dlDone' \in BOOLEAN /\ closed' \in BOOLEAN
    BY <1>3 DEF IndInv, TypeOK
  <2>. QED
    BY <1>1, <2>1, <2>2, <2>3 DEF IndInv, TypeOK
<1>5. BytesConserved'
  <2>1. InFlight = pending /\ InFlight' = 0
    BY <1>1, <1>3 DEF InFlight
  <2>2. InChannel' + dropped' = InChannel + dropped + pending
    <3>1. CASE ch = <<>> /\ ch' = <<pending>> /\ UNCHANGED dropped
      <4>1. InChannel = 0 /\ InChannel' = pending
        BY <3>1 DEF InChannel
      <4>. QED
        BY <3>1, <4>1, Numbers
    <3>2. CASE dropped' = dropped + pending /\ UNCHANGED ch
      <4>1. InChannel' = InChannel
        BY <3>2 DEF InChannel
      <4>. QED
        BY <3>2, <4>1, Numbers
    <3>. QED
      BY <1>2, <3>1, <3>2
  <2>3. InChannel' \in Nat /\ dropped' \in Nat
    BY <1>2, Numbers DEF InChannel
  <2>4. UNCHANGED <<moved, counter, total, sum>>
    BY <1>1
  <2>5. moved = counter + total /\ total = InFlight + InChannel + sum + dropped
    BY DEF IndInv, BytesConserved
  <2>6. /\ pending \in Nat /\ sum \in Nat /\ dropped \in Nat /\ InChannel \in Nat
        /\ total \in Nat
    BY Numbers
  <2>7. total' = InFlight' + InChannel' + sum' + dropped'
    <3>1. total' = pending + InChannel + sum + dropped
      BY <2>1, <2>4, <2>5
    <3>2. sum' = sum
      BY <2>4
    <3>3. pending + InChannel + sum + dropped = 0 + InChannel' + sum + dropped'
      <4>. DEFINE c == InChannel  c2 == InChannel'  d == dropped  d2 == dropped'
      <4>1. c \in Nat /\ c2 \in Nat /\ d \in Nat /\ d2 \in Nat /\ sum \in Nat /\ pending \in Nat
        BY <2>3, <2>6
      <4>2. c2 + d2 = c + d + pending
        BY <2>2
      <4>. HIDE DEF c, c2, d, d2
      <4>3. pending + c + sum + d = 0 + c2 + sum + d2
        BY <4>1, <4>2
      <4>. QED
        BY <4>3 DEF c, c2, d, d2
    <3>4. InFlight' = 0
      BY <2>1
    <3>. QED
      BY <3>1, <3>2, <3>3, <3>4, Zenon
  <2>. QED
    BY <2>4, <2>5, <2>7 DEF BytesConserved
<1>6. NoLossWhileRunning' /\ Verdicts'
  BY <1>1, <1>2, <1>3, Numbers DEF IndInv, NoLossWhileRunning, Verdicts
<1>7. DeadNodeGivenUp'
  BY <1>1, <1>3, Numbers DEF DeadNodeGivenUp, IsDead
<1>8. Endings'
  BY <1>1, <1>2, <1>3 DEF IndInv, Endings
<1>. QED
  BY <1>4, <1>5, <1>6, <1>7, <1>8 DEF IndInv

\* The start and the return of runSpeedPhase.
LEMMA EdgeStep ==
  ASSUME IndInv, SetupFails \/ Setup \/ Finish
  PROVE  IndInv'
<1>. USE DEF clockVars, phaseVars, consumerVars, IndInv
<1>1. CASE SetupFails
  <2>. USE <1>1 DEF SetupFails, LeaveWith
  <2>1. TypeOK' /\ Endings'
    BY DEF TypeOK, Endings
  <2>2. BytesConserved' /\ NoLossWhileRunning' /\ DeadNodeGivenUp'
    BY DEF BytesConserved, NoLossWhileRunning, DeadNodeGivenUp, InChannel, InFlight
  <2>3. Verdicts'
    BY DEF Verdicts, Endings
  <2>. QED
    BY <2>1, <2>2, <2>3
<1>2. CASE Setup
  <2>. USE <1>2 DEF Setup
  <2>1. TypeOK' /\ Endings' /\ Verdicts'
    BY DEF TypeOK, Endings, Verdicts
  <2>2. BytesConserved' /\ NoLossWhileRunning'
    BY DEF BytesConserved, NoLossWhileRunning, InChannel, InFlight
  <2>3. DeadNodeGivenUp'
    BY PhaseAssumption DEF DeadNodeGivenUp, Endings
  <2>. QED
    BY <2>1, <2>2, <2>3
<1>3. CASE Finish
  BY <1>3 DEF Finish, TypeOK, Endings, Verdicts, BytesConserved, NoLossWhileRunning,
              DeadNodeGivenUp, InChannel, InFlight
<1>. QED
  BY <1>1, <1>2, <1>3

\* The consumer sums the sample in the channel, or ends.
LEMMA ConsumerStep ==
  ASSUME IndInv, Consume \/ ConsumerEnds
  PROVE  IndInv'
<1>. USE DEF clockVars, phaseVars, loopVars, consumerVars
<1>1. CASE Consume
  <2>. USE <1>1 DEF Consume
  <2>1. /\ Head(ch) \in Nat /\ InChannel = Head(ch) /\ InChannel' = 0
        /\ sum' = sum + Head(ch) /\ cmax' \in Nat /\ sum' \in Nat
        /\ cmax' > 0 => cmax > 0 \/ Head(ch) > 0
    BY Numbers DEF Larger, InChannel
  <2>2. TypeOK'
    BY <2>1 DEF IndInv, TypeOK
  <2>3. BytesConserved'
    <3>1. InFlight' = InFlight /\ UNCHANGED <<moved, counter, total, dropped>>
      BY DEF InFlight
    <3>2. moved = counter + total /\ total = InFlight + InChannel + sum + dropped
      BY DEF IndInv, BytesConserved
    <3>3. InFlight \in Nat /\ sum \in Nat /\ dropped \in Nat
      BY Numbers
    <3>4. total' = InFlight' + InChannel' + sum' + dropped'
      BY <2>1, <3>1, <3>2, <3>3
    <3>. QED
      BY <3>1, <3>2, <3>4 DEF BytesConserved
  <2>4. Verdicts'
    BY <2>1, Numbers DEF IndInv, Verdicts
  <2>5. NoLossWhileRunning' /\ DeadNodeGivenUp' /\ Endings'
    BY DEF IndInv, NoLossWhileRunning, DeadNodeGivenUp, Endings
  <2>. QED
    BY <2>2, <2>3, <2>4, <2>5 DEF IndInv
<1>2. CASE ConsumerEnds
  BY <1>2 DEF ConsumerEnds, IndInv, TypeOK, BytesConserved, NoLossWhileRunning,
              DeadNodeGivenUp, Verdicts, Endings, InChannel, InFlight
<1>. QED
  BY <1>1, <1>2

\* Time passes, or the caller cancels: neither touches a byte.
LEMMA OutsideStep ==
  ASSUME IndInv, Second \/ Cancel
  PROVE  IndInv'
<1>. USE DEF phaseVars, loopVars, consumerVars, IndInv
<1>1. CASE Second
  <2>. USE <1>1 DEF Second
  <2>1. TypeOK'
    BY PhaseAssumption DEF TypeOK
  <2>2. /\ BytesConserved' /\ NoLossWhileRunning' /\ DeadNodeGivenUp'
        /\ Verdicts' /\ Endings'
    BY DEF BytesConserved, NoLossWhileRunning, DeadNodeGivenUp, Verdicts, Endings, InChannel,
           InFlight
  <2>. QED
    BY <2>1, <2>2
<1>2. CASE Cancel
  BY <1>2 DEF Cancel, TypeOK, BytesConserved, NoLossWhileRunning, DeadNodeGivenUp, Verdicts,
              Endings, InChannel, InFlight
<1>. QED
  BY <1>1, <1>2

LEMMA StepInd == IndInv /\ [Next]_vars => IndInv'
<1>. SUFFICES ASSUME IndInv, [Next]_vars PROVE IndInv'
  OBVIOUS
<1>1. CASE UNCHANGED vars
  BY <1>1 DEF vars, clockVars, phaseVars, loopVars, consumerVars, IndInv, TypeOK,
              BytesConserved, NoLossWhileRunning, DeadNodeGivenUp, Verdicts, Endings,
              InChannel, InFlight
<1>2. CASE Next
  <2>1. CASE FlushTick
    BY <2>1, FlushStep DEF FlushTick
  <2>2. CASE FlushLast
    BY <2>2, FlushStep DEF FlushLast, IndInv, TypeOK
  <2>3. CASE Deliver \/ Drop
    BY <2>3, SendStep
  <2>4. CASE SetupFails \/ Setup \/ Finish
    BY <2>4, EdgeStep
  <2>5. CASE Consume \/ ConsumerEnds
    BY <2>5, ConsumerStep
  <2>6. CASE Second \/ Cancel
    BY <2>6, OutsideStep
  <2>7. CASE \E t \in Threads : Thread(t)
    BY <2>7, ThreadStep
  <2>. QED
    BY <1>2, <2>1, <2>2, <2>3, <2>4, <2>5, <2>6, <2>7 DEF Next, Loop
<1>. QED
  BY <1>1, <1>2

\* The inductive invariant of runSpeedPhase.
THEOREM PhaseSound == Spec => []IndInv
BY InitInd, StepInd, PTL DEF Spec

\* However many threads count into the shared atomic while the loop swaps it
\* out, every byte is in exactly one place.
THEOREM NoByteLost == Spec => []BytesConserved
<1>1. IndInv => BytesConserved
  BY DEF IndInv
<1>. QED
  BY <1>1, PhaseSound, PTL

\* The loop drops bytes only after the download has ended: while the phase
\* runs, all that was read reaches the consumer.
THEOREM NoLossBeforeTheEnd == Spec => []NoLossWhileRunning
<1>1. IndInv => NoLossWhileRunning
  BY DEF IndInv
<1>. QED
  BY <1>1, PhaseSound, PTL

\* A loop that has gone on past DeadAfter has counted a byte: a node that
\* sends nothing is given up, whatever its threads do in the meantime.
THEOREM SilentNodeGivenUp == Spec => []DeadNodeGivenUp
<1>1. IndInv => DeadNodeGivenUp
  BY DEF IndInv
<1>. QED
  BY <1>1, PhaseSound, PTL

\* A phase that is announced as failed has announced no byte before.
THEOREM VerdictsAgree == Spec => []FailureMeansNoBytes
<1>1. ASSUME IndInv PROVE FailureMeansNoBytes
  <2>. SUFFICES ASSUME lpc \in {"returned", "finished"}, ret = 0
                PROVE  sum = 0 /\ cmax = 0
    BY DEF FailureMeansNoBytes
  <2>1. total = 0
    BY <1>1 DEF IndInv, Verdicts
  <2>2. sum = 0
    BY <1>1, <2>1, Numbers DEF IndInv, BytesConserved
  <2>. QED
    BY <1>1, <2>2, Numbers DEF IndInv, Verdicts
<1>. QED
  BY <1>1, PhaseSound, PTL

\* Unless the caller cancels, nothing is left in the channel of samples.
THEOREM ChannelDrained == Spec => []DrainedUnlessCancelled
<1>1. IndInv => DrainedUnlessCancelled
  BY DEF IndInv, Endings, DrainedUnlessCancelled
<1>. QED
  BY <1>1, PhaseSound, PTL

\* After runSpeedPhase has returned its sums, no goroutine writes them.
THEOREM SumsFinal == Spec => SumsSettled
<1>1. IndInv /\ [Next]_vars => [lpc = "finished" => UNCHANGED consumerVars]_vars
  <2>. SUFFICES ASSUME IndInv, Next, lpc = "finished" PROVE UNCHANGED consumerVars
    BY DEF vars, consumerVars
  <2>1. cpc = "done"
    BY DEF IndInv, Endings
  <2>. QED
    BY <2>1 DEF Next, Loop, SetupFails, Setup, FlushTick, FlushLast, Deliver, Drop, Finish,
           Consume, ConsumerEnds, Second, Cancel, Thread, ThreadExits, RequestFails, Retry,
           RequestSucceeds, Read, BodyEnds, threadRest
<1>. QED
  BY <1>1, PhaseSound, PTL DEF Spec, SumsSettled
=============================================================================
