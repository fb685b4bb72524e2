-------------------------- MODULE WebSessionProofs --------------------------
(***************************************************************************)
(* Proofs about module WebSession, for any number of starts and attempts:  *)
(* an idle page is quiet, and its table never mixes two runs.              *)
(***************************************************************************)
EXTENDS WebSession, SequenceTheorems, TLAPS

-----------------------------------------------------------------------------
\* Lemmas.

\* What OwnConnection and Silent say of run r depends on this alone.
Of(r) == <<poll[r], inbox[r], outbox[r], sock[r], test[r], at[r]>>

LEMMA OthersKept ==
  ASSUME NEW r \in Runs, Of(r)' = Of(r)
  PROVE  (OwnConnection(r) => OwnConnection(r)') /\ (Silent(r) => Silent(r)')
<1>1. /\ poll'[r] = poll[r] /\ inbox'[r] = inbox[r] /\ outbox'[r] = outbox[r] /\ sock'[r] = sock[r]
      /\ test'[r] = test[r] /\ at'[r] = at[r]
  BY DEF Of
<1>2. OwnConnection(r) => OwnConnection(r)'
  BY <1>1 DEF OwnConnection
<1>3. Silent(r) => Silent(r)'
  BY <1>1 DEF Silent
<1>. QED
  BY <1>2, <1>3

LEMMA Appended ==
  ASSUME NEW S, NEW q \in Seq(S), NEW m \in S
  PROVE  /\ Append(q, m) \in Seq(S) /\ Len(q) \in Nat /\ Len(Append(q, m)) = Len(q) + 1
         /\ DOMAIN q = 1 .. Len(q) /\ DOMAIN Append(q, m) = 1 .. Len(q) + 1
         /\ \A i \in 1 .. Len(q) : Append(q, m)[i] = q[i]
         /\ Append(q, m)[Len(q) + 1] = m
  BY AppendProperties, LenProperties

LEMMA Taken ==
  ASSUME NEW S, NEW q \in Seq(S), q # <<>>
  PROVE  /\ Head(q) = q[1] /\ Head(q) \in S /\ Tail(q) \in Seq(S)
         /\ Len(q) \in Nat \ {0} /\ DOMAIN q = 1 .. Len(q)
         /\ Len(Tail(q)) = Len(q) - 1 /\ DOMAIN Tail(q) = 1 .. Len(q) - 1
         /\ \A i \in 1 .. Len(q) - 1 : Tail(q)[i] = q[i + 1]
  BY HeadTailProperties, LenProperties, EmptySeq

\* An action of one run, while no history excepts it: the others keep what
\* the invariant says of them.
LEMMA OneRun ==
  ASSUME Separate, TypeOK, UNCHANGED starts, NEW s \in Runs, \A r \in Runs \ {s} : Of(r)' = Of(r),
         OwnConnection(s)', starts < s => poll'[s] = "none" /\ sock'[s] = "none",
         s < starts \/ (s = starts /\ ~loading') => Silent(s)',
         s # starts => UNCHANGED loading
  PROVE  /\ \A r \in Runs : OwnConnection(r)'
         /\ \A r \in Runs : starts' < r => poll'[r] = "none" /\ sock'[r] = "none"
         /\ \A r \in Runs : r < starts' \/ (r = starts' /\ ~loading') => Silent(r)'
<1>1. ASSUME NEW r \in Runs
      PROVE  /\ OwnConnection(r)'
             /\ starts' < r => poll'[r] = "none" /\ sock'[r] = "none"
             /\ r < starts' \/ (r = starts' /\ ~loading') => Silent(r)'
  <2>1. CASE r = s
    BY <2>1
  <2>2. CASE r # s
    <3>1. Of(r)' = Of(r)
      BY <2>2
    <3>2. OwnConnection(r)' /\ (Silent(r) => Silent(r)')
      BY <3>1, OthersKept DEF Separate
    <3>3. poll'[r] = poll[r] /\ sock'[r] = sock[r]
      BY <3>1 DEF Of
    <3>4. r < starts \/ (r = starts /\ ~loading') => Silent(r)
      <4>1. CASE r = starts
        BY <2>2, <4>1 DEF Separate
      <4>2. CASE r # starts
        BY <4>2 DEF Separate
      <4>. QED
        BY <4>1, <4>2
    <3>. QED
      BY <3>2, <3>3, <3>4 DEF Separate
  <2>. QED
    BY <2>1, <2>2
<1>. QED
  BY <1>1

-----------------------------------------------------------------------------
\* The types, and the connections that the store and the tests name.

Rows == Seq([run: Runs, testing: BOOLEAN, tested: BOOLEAN])

LEMMA NoRows == <<>> \in Rows /\ DOMAIN <<>> = {}
  BY EmptySeq DEF Rows

LEMMA InitInd == Init => SessionInv
<1>. SUFFICES ASSUME Init PROVE SessionInv
  OBVIOUS
<1>. USE DEF Init
<1>1. DOMAIN <<>> = {} /\ Len(<<>>) = 0
  BY EmptySeq
<1>2. TypeOK
  <2>1. /\ starts \in 0 .. MaxStarts /\ ws \in 0 .. starts
        /\ attempts \in [Runs -> 0 .. MaxAttempts] /\ at \in [Runs -> 0 .. MaxStarts]
    BY SessionAssumption
  <2>2. rows \in Rows
    BY NoRows
  <2>3. inbox \in [Runs -> Seq(Runs)] /\ outbox \in [Runs -> Seq(Message)]
    BY EmptySeq
  <2>4. /\ poll \in [Runs -> {"none", "waiting", "sent", "failed", "gaveup"}]
        /\ sock \in [Runs -> States] /\ srv \in [Runs -> {"none", "reading", "ended"}]
        /\ test \in [Runs -> {"none", "started", "announced", "tested", "ended"}]
    BY DEF States
  <2>5. /\ loading \in BOOLEAN /\ live \in BOOLEAN /\ refused \in [Runs -> BOOLEAN] /\ endone \in [Runs -> BOOLEAN]
        /\ stray \in BOOLEAN /\ leaked \in BOOLEAN
    BY Zenon
  <2>. QED
    BY <2>1, <2>2, <2>3, <2>4, <2>5, Zenon DEF TypeOK, Rows
<1>3. Connected
  BY DEF Connected
<1>4. Separate
  BY <1>1, SessionAssumption DEF Separate, OwnConnection, Runs
<1>5. QuietWhenIdle /\ RowsOfLastRun
  BY <1>1 DEF QuietWhenIdle, RowsOfLastRun
<1>. QED
  BY <1>2, <1>3, <1>4, <1>5 DEF SessionInv

-----------------------------------------------------------------------------
\* The form.

LEMMA StartStep ==
  ASSUME SessionInv, Start
  PROVE  SessionInv'
<1>0. PICK n : n = starts'
  OBVIOUS
<1>1. /\ starts \in 0 .. MaxStarts /\ MaxStarts \in Nat /\ n = starts + 1 /\ n \in Runs /\ starts' \in 0 .. MaxStarts
  BY <1>0, SessionAssumption DEF SessionInv, TypeOK, Start, Runs
<1>2. /\ ~loading /\ loading' = TRUE /\ ws' = n /\ rows' = <<>> /\ live' = FALSE
      /\ sock' = [sock EXCEPT ![n] = "connecting"] /\ poll' = [poll EXCEPT ![n] = "waiting"]
      /\ UNCHANGED <<attempts, refused, inbox, outbox, srv, test, at, endone, stray, leaked>>
  BY <1>0 DEF Start, Reset, serverVars, history
<1>3. TypeOK'
  <2>1. /\ poll' \in [Runs -> {"none", "waiting", "sent", "failed", "gaveup"}] /\ sock' \in [Runs -> States]
        /\ ws' \in 0 .. starts'
    BY <1>0, <1>1, <1>2 DEF SessionInv, TypeOK, States
  <2>2. rows' \in Rows
    BY <1>2, NoRows
  <2>3. loading' \in BOOLEAN /\ live' \in BOOLEAN
    BY <1>2, Zenon
  <2>. QED
    BY <1>1, <1>2, <2>1, <2>2, <2>3, Zenon DEF SessionInv, TypeOK, Rows
<1>4. Connected'
  BY <1>0, <1>1, <1>2 DEF SessionInv, TypeOK, Connected
<1>5. ASSUME Undisturbed' PROVE Separate'
  <2>1. Separate
    BY <1>2, <1>5 DEF SessionInv, Undisturbed
  <2>2. /\ poll[n] = "none" /\ sock[n] = "none" /\ OwnConnection(n)
    BY <1>1, <2>1 DEF Separate
  <2>3. OwnConnection(n)'
    <3>1. inbox[n] = <<>> /\ outbox[n] = <<>> /\ test[n] = "none"
      BY <2>2 DEF OwnConnection
    <3>2. inbox'[n] = <<>> /\ outbox'[n] = <<>> /\ test'[n] = "none"
      BY <1>2, <3>1
    <3>3. Len(<<>>) = 0 /\ DOMAIN <<>> = {}
      BY EmptySeq
    <3>. QED
      BY <1>1, <1>2, <2>2, <3>2, <3>3 DEF OwnConnection, SessionInv, TypeOK
  <2>4. ASSUME NEW r \in Runs, r # n PROVE Of(r)' = Of(r)
    BY <1>2, <2>4 DEF SessionInv, TypeOK, Of
  <2>5. ASSUME NEW r \in Runs PROVE OwnConnection(r)'
    BY <2>1, <2>3, <2>4, OthersKept DEF Separate
  <2>6. ASSUME NEW r \in Runs, n < r PROVE poll'[r] = "none" /\ sock'[r] = "none"
    <3>1. starts < r /\ r # n
      BY <1>1, <2>6 DEF Runs
    <3>. QED
      BY <1>2, <2>1, <3>1 DEF Separate, SessionInv, TypeOK
  <2>7. ASSUME NEW r \in Runs, r < n \/ (r = n /\ ~loading') PROVE Silent(r)'
    <3>1. r < n
      BY <1>2, <2>7
    <3>2. Silent(r) /\ r # n
      BY <1>1, <1>2, <2>1, <3>1 DEF Separate, Runs
    <3>. QED
      BY <2>4, <3>2, OthersKept
  <2>. QED
    BY <1>0, <1>2, <2>5, <2>6, <2>7 DEF Separate
<1>6. QuietWhenIdle' /\ RowsOfLastRun'
  BY <1>2, NoRows DEF QuietWhenIdle, RowsOfLastRun
<1>. QED
  BY <1>3, <1>4, <1>5, <1>6 DEF SessionInv

\* Disconnect closes the store's connection, if there is one: that of the last
\* click.
LEMMA DisconnectFacts ==
  ASSUME SessionInv, Disconnect, UNCHANGED starts
  PROVE  /\ sock' \in [Runs -> States] /\ refused' \in [Runs -> BOOLEAN] /\ outbox' \in [Runs -> Seq(Message)]
         /\ ws' = 0 /\ loading' \in BOOLEAN
         /\ \/ ws = 0 /\ UNCHANGED <<sock, outbox, loading>>
            \/ /\ ws = starts /\ starts \in Runs /\ loading' = FALSE
               /\ sock' = [sock EXCEPT ![starts] = "closing"] /\ outbox' = [outbox EXCEPT ![starts] = <<>>]
<1>1. /\ sock \in [Runs -> States] /\ refused \in [Runs -> BOOLEAN] /\ outbox \in [Runs -> Seq(Message)]
      /\ loading \in BOOLEAN
  BY Zenon DEF SessionInv, TypeOK
<1>2. CASE ws = 0
  BY <1>1, <1>2, Zenon DEF Disconnect
<1>3. CASE ws # 0
  <2>1. ws = starts /\ starts \in Runs
    BY <1>3, SessionAssumption DEF SessionInv, TypeOK, Connected, Runs
  <2>2. /\ sock' = [sock EXCEPT ![starts] = "closing"] /\ outbox' = [outbox EXCEPT ![starts] = <<>>]
        /\ ws' = 0 /\ loading' = FALSE
    BY <1>3, <2>1 DEF Disconnect, CloseSocket
  <2>3. refused' \in [Runs -> BOOLEAN]
    <3>1. PICK b \in BOOLEAN : b = (sock[ws] = "connecting")
      BY Zenon
    <3>2. refused' = [refused EXCEPT ![ws] = b]
      BY <1>3, <3>1, Zenon DEF Disconnect, CloseSocket
    <3>. QED
      BY <1>1, <3>2, Zenon
  <2>4. <<>> \in Seq(Message) /\ "closing" \in States /\ FALSE \in BOOLEAN
    BY EmptySeq DEF States
  <2>5. sock' \in [Runs -> States] /\ outbox' \in [Runs -> Seq(Message)]
    BY <1>1, <2>2, <2>4
  <2>. QED
    BY <2>1, <2>2, <2>3, <2>4, <2>5, Zenon
<1>. QED
  BY <1>2, <1>3

\* What a connection that is being closed leaves of a run.
LEMMA ClosingIsSilent ==
  ASSUME NEW r \in Runs, OwnConnection(r), sock'[r] = "closing", outbox'[r] = <<>>,
         inbox'[r] = inbox[r], test'[r] = test[r], at'[r] = at[r],
         poll'[r] = "waiting" => poll[r] = "waiting"
  PROVE  OwnConnection(r)' /\ Silent(r)'
<1>1. Len(<<>>) = 0 /\ DOMAIN <<>> = {}
  BY EmptySeq
<1>2. OwnConnection(r)'
  BY <1>1 DEF OwnConnection
<1>3. Silent(r)'
  BY DEF Silent
<1>. QED
  BY <1>2, <1>3

LEMMA TerminateStep ==
  ASSUME SessionInv, Terminate
  PROVE  SessionInv'
<1>1. /\ Disconnect /\ loading /\ rows' = <<>> /\ live' = FALSE
      /\ UNCHANGED <<starts, poll, attempts, inbox, srv, test, at, endone, stray, leaked>>
  BY DEF Terminate, Reset, formVars, serverVars, history
<1>2. /\ sock' \in [Runs -> States] /\ refused' \in [Runs -> BOOLEAN] /\ outbox' \in [Runs -> Seq(Message)]
      /\ ws' = 0 /\ loading' \in BOOLEAN
      /\ \/ ws = 0 /\ UNCHANGED <<sock, outbox, loading>>
         \/ /\ ws = starts /\ starts \in Runs /\ loading' = FALSE
            /\ sock' = [sock EXCEPT ![starts] = "closing"] /\ outbox' = [outbox EXCEPT ![starts] = <<>>]
  BY <1>1, DisconnectFacts
<1>3. TypeOK'
  <2>1. ws' \in 0 .. starts'
    BY <1>1, <1>2 DEF SessionInv, TypeOK
  <2>2. rows' \in Rows
    BY <1>1, NoRows
  <2>3. live' \in BOOLEAN
    BY <1>1, Zenon
  <2>. QED
    BY <1>1, <1>2, <2>1, <2>2, <2>3, Zenon DEF SessionInv, TypeOK, Rows
<1>4. Connected'
  BY <1>1, <1>2 DEF SessionInv, Connected
<1>5. ASSUME Undisturbed' PROVE Separate'
  <2>1. Separate
    BY <1>1, <1>5 DEF SessionInv, Undisturbed
  <2>2. /\ \A r \in Runs : OwnConnection(r)'
        /\ \A r \in Runs : starts' < r => poll'[r] = "none" /\ sock'[r] = "none"
        /\ \A r \in Runs : r < starts' \/ (r = starts' /\ ~loading') => Silent(r)'
    <3>1. CASE ws = 0 /\ UNCHANGED <<sock, outbox, loading>>
      <4>1. \A r \in Runs : Of(r)' = Of(r)
        BY <1>1, <3>1 DEF Of
      <4>. QED
        BY <1>1, <2>1, <3>1, <4>1, OthersKept DEF Separate
    <3>2. CASE /\ ws = starts /\ starts \in Runs /\ loading' = FALSE
               /\ sock' = [sock EXCEPT ![starts] = "closing"] /\ outbox' = [outbox EXCEPT ![starts] = <<>>]
      <4>1. PICK s : s = starts
        OBVIOUS
      <4>2. s \in Runs /\ sock'[s] = "closing" /\ outbox'[s] = <<>> /\ ~(starts < s)
        BY <3>2, <4>1 DEF SessionInv, TypeOK, Runs
      <4>3. OwnConnection(s)' /\ Silent(s)'
        BY <1>1, <2>1, <4>2, ClosingIsSilent DEF Separate
      <4>4. \A r \in Runs \ {s} : Of(r)' = Of(r)
        BY <1>1, <3>2, <4>1 DEF Of, SessionInv, TypeOK
      <4>. QED
        BY <1>1, <2>1, <4>1, <4>2, <4>3, <4>4, OneRun DEF SessionInv
    <3>. QED
      BY <1>2, <3>1, <3>2
  <2>. QED
    BY <1>1, <2>2 DEF Separate
<1>6. QuietWhenIdle' /\ RowsOfLastRun'
  BY <1>1, NoRows DEF QuietWhenIdle, RowsOfLastRun
<1>. QED
  BY <1>3, <1>4, <1>5, <1>6 DEF SessionInv

\* A chain that ends undisturbed is that of the last click.
LEMMA ChainFacts ==
  ASSUME SessionInv, NEW r \in Runs, NEW outcome \in {"sent", "failed", "gaveup"}, ChainEnds(r, outcome)
  PROVE  /\ poll' \in [Runs -> {"none", "waiting", "sent", "failed", "gaveup"}]
         /\ attempts' \in [Runs -> 0 .. MaxAttempts] /\ leaked' \in BOOLEAN
         /\ poll' = [poll EXCEPT ![r] = outcome]
         /\ (UNCHANGED stray /\ Undisturbed') => Undisturbed /\ r = starts
<1>1. poll' = [poll EXCEPT ![r] = outcome] /\ attempts' = [attempts EXCEPT ![r] = 0]
  BY DEF ChainEnds
<1>2. /\ poll' \in [Runs -> {"none", "waiting", "sent", "failed", "gaveup"}]
      /\ attempts' \in [Runs -> 0 .. MaxAttempts]
  BY <1>1, SessionAssumption DEF SessionInv, TypeOK
<1>3. leaked' \in BOOLEAN
  BY Zenon DEF ChainEnds
<1>4. (UNCHANGED stray /\ Undisturbed') => Undisturbed /\ r = starts
  <2>1. ~leaked' => ~leaked /\ r = starts
    BY DEF ChainEnds
  <2>. QED
    BY <2>1 DEF Undisturbed
<1>. QED
  BY <1>1, <1>2, <1>3, <1>4

LEMMA PollSendsStep ==
  ASSUME SessionInv, NEW r \in Runs, PollSends(r)
  PROVE  SessionInv'
<1>1. /\ poll[r] = "waiting" /\ Current = "open" /\ ChainEnds(r, "sent")
      /\ inbox' = [inbox EXCEPT ![ws] = Append(@, r)]
      /\ UNCHANGED <<starts, loading, ws, rows, live, sock, refused, outbox, srv, test, at, endone, stray>>
  BY DEF PollSends, storeVars, serverVars
<1>2. ws # 0 /\ sock[ws] = "open" /\ ws \in Runs /\ ws = starts
  BY <1>1, SessionAssumption DEF Current, SessionInv, TypeOK, Connected, Runs
<1>3. /\ poll' \in [Runs -> {"none", "waiting", "sent", "failed", "gaveup"}]
      /\ attempts' \in [Runs -> 0 .. MaxAttempts] /\ leaked' \in BOOLEAN
      /\ poll' = [poll EXCEPT ![r] = "sent"]
      /\ (UNCHANGED stray /\ Undisturbed') => Undisturbed /\ r = starts
  BY <1>1, ChainFacts
<1>4. TypeOK'
  <2>1. inbox[ws] \in Seq(Runs) /\ inbox \in [Runs -> Seq(Runs)]
    BY <1>2 DEF SessionInv, TypeOK
  <2>2. Append(inbox[ws], r) \in Seq(Runs)
    BY <2>1, AppendProperties
  <2>3. inbox' \in [Runs -> Seq(Runs)]
    BY <1>1, <2>1, <2>2
  <2>. QED
    BY <1>1, <1>3, <2>3, Zenon DEF SessionInv, TypeOK
<1>5. Connected'
  BY <1>1, <1>2 DEF SessionInv, Connected
<1>6. ASSUME Undisturbed' PROVE Separate'
  <2>1. Separate /\ r = starts /\ OwnConnection(r)
    BY <1>1, <1>3, <1>6 DEF SessionInv, Separate
  <2>2. inbox[r] = <<>> /\ outbox[r] = <<>> /\ test[r] = "none"
    BY <1>1, <2>1 DEF OwnConnection
  <2>3. /\ inbox'[r] = <<r>> /\ outbox'[r] = <<>> /\ test'[r] = "none" /\ poll'[r] = "sent"
        /\ sock'[r] = "open" /\ at'[r] = at[r]
    BY <1>1, <1>2, <1>3, <2>1, <2>2 DEF SessionInv, TypeOK
  <2>4. OwnConnection(r)'
    <3>1. Len(<<>>) = 0 /\ DOMAIN <<>> = {}
      BY EmptySeq
    <3>. QED
      BY <2>3, <3>1 DEF OwnConnection
  <2>5. \A q \in Runs \ {r} : Of(q)' = Of(q)
    BY <1>1, <1>2, <1>3, <2>1 DEF Of, SessionInv, TypeOK
  <2>6. loading
    BY <1>1, <1>2, <2>1, <2>3 DEF Separate, Silent
  <2>7. ~(starts < r)
    BY <2>1 DEF SessionInv, TypeOK
  <2>8. /\ \A q \in Runs : OwnConnection(q)'
        /\ \A q \in Runs : starts' < q => poll'[q] = "none" /\ sock'[q] = "none"
        /\ \A q \in Runs : q < starts' \/ (q = starts' /\ ~loading') => Silent(q)'
    BY <1>1, <2>1, <2>4, <2>5, <2>6, <2>7, OneRun DEF SessionInv
  <2>. QED
    BY <1>1, <2>1, <2>8 DEF Separate
<1>7. QuietWhenIdle' /\ RowsOfLastRun'
  BY <1>1, <1>3, Zenon DEF SessionInv, QuietWhenIdle, RowsOfLastRun
<1>. QED
  BY <1>4, <1>5, <1>6, <1>7 DEF SessionInv

LEMMA PollFailsStep ==
  ASSUME SessionInv, NEW r \in Runs, PollFails(r)
  PROVE  SessionInv'
<1>1. /\ poll[r] = "waiting" /\ ChainEnds(r, "failed") /\ loading' = FALSE
      /\ UNCHANGED <<starts, ws, rows, live, sock, refused, inbox, outbox, srv, test, at, endone, stray>>
  BY DEF PollFails, netVars, serverVars
<1>2. /\ poll' \in [Runs -> {"none", "waiting", "sent", "failed", "gaveup"}]
      /\ attempts' \in [Runs -> 0 .. MaxAttempts] /\ leaked' \in BOOLEAN
      /\ poll' = [poll EXCEPT ![r] = "failed"]
      /\ (UNCHANGED stray /\ Undisturbed') => Undisturbed /\ r = starts
  BY <1>1, ChainFacts
<1>3. TypeOK'
  <2>1. loading' \in BOOLEAN
    BY <1>1, Zenon
  <2>. QED
    BY <1>1, <1>2, <2>1, Zenon DEF SessionInv, TypeOK
<1>4. Connected'
  BY <1>1 DEF SessionInv, Connected
<1>5. ASSUME Undisturbed'
      PROVE  Separate' /\ rows = <<>> /\ ~live
  <2>1. Separate /\ r = starts /\ OwnConnection(r)
    BY <1>1, <1>2, <1>5 DEF SessionInv, Separate
  <2>2. inbox[r] = <<>> /\ outbox[r] = <<>> /\ test[r] = "none"
    BY <1>1, <2>1 DEF OwnConnection
  <2>3. poll'[r] = "failed"
    BY <1>2 DEF SessionInv, TypeOK
  <2>4. OwnConnection(r)' /\ Silent(r)'
    <3>1. Len(<<>>) = 0 /\ DOMAIN <<>> = {}
      BY EmptySeq
    <3>2. OwnConnection(r)'
      BY <1>1, <2>1, <2>2, <2>3, <3>1 DEF OwnConnection
    <3>3. Silent(r)'
      BY <1>1, <2>2, <2>3, <3>1 DEF Silent
    <3>. QED
      BY <3>2, <3>3
  <2>5. \A q \in Runs \ {r} : Of(q)' = Of(q)
    BY <1>1, <1>2 DEF Of, SessionInv, TypeOK
  <2>6. ~(starts < r)
    BY <2>1 DEF SessionInv, TypeOK
  <2>7. /\ \A q \in Runs : OwnConnection(q)'
        /\ \A q \in Runs : starts' < q => poll'[q] = "none" /\ sock'[q] = "none"
        /\ \A q \in Runs : q < starts' \/ (q = starts' /\ ~loading') => Silent(q)'
    BY <1>1, <2>1, <2>4, <2>5, <2>6, OneRun DEF SessionInv
  <2>8. rows = <<>> /\ ~live
    BY <2>1, <2>2 DEF Separate
  <2>. QED
    BY <1>1, <2>7, <2>8 DEF Separate
<1>6. QuietWhenIdle' /\ RowsOfLastRun'
  BY <1>1, <1>5, NoRows DEF QuietWhenIdle, RowsOfLastRun
<1>. QED
  BY <1>3, <1>4, <1>5, <1>6 DEF SessionInv

LEMMA PollAgainStep ==
  ASSUME SessionInv, NEW r \in Runs, PollAgain(r)
  PROVE  SessionInv'
<1>1. /\ attempts' = [attempts EXCEPT ![r] = @ + 1] /\ attempts[r] < MaxAttempts
      /\ UNCHANGED <<starts, poll, loading, ws, rows, live, sock, refused, inbox, outbox, srv, test, at, endone,
                     stray, leaked>>
  BY DEF PollAgain, storeVars, netVars, serverVars, history
<1>2. attempts' \in [Runs -> 0 .. MaxAttempts]
  BY <1>1, SessionAssumption DEF SessionInv, TypeOK
<1>3. TypeOK'
  BY <1>1, <1>2, Zenon DEF SessionInv, TypeOK
<1>4. Connected' /\ QuietWhenIdle' /\ RowsOfLastRun'
  BY <1>1, Zenon DEF SessionInv, Connected, QuietWhenIdle, RowsOfLastRun, Undisturbed
<1>5. ASSUME Undisturbed' PROVE Separate'
  <2>1. Separate
    BY <1>1, <1>5 DEF SessionInv, Undisturbed
  <2>2. \A q \in Runs : Of(q)' = Of(q)
    BY <1>1 DEF Of
  <2>. QED
    BY <1>1, <2>1, <2>2, OthersKept DEF Separate
<1>. QED
  BY <1>3, <1>4, <1>5 DEF SessionInv

LEMMA PollGivesUpStep ==
  ASSUME SessionInv, NEW r \in Runs, PollGivesUp(r)
  PROVE  SessionInv'
<1>1. /\ poll[r] = "waiting" /\ Current = "connecting" /\ ChainEnds(r, "gaveup") /\ Disconnect
      /\ UNCHANGED <<starts, rows, live, inbox, srv, test, at, endone, stray>>
  BY DEF PollGivesUp, serverVars
<1>2. ws # 0
  BY <1>1 DEF Current
<1>3. /\ poll' \in [Runs -> {"none", "waiting", "sent", "failed", "gaveup"}]
      /\ attempts' \in [Runs -> 0 .. MaxAttempts] /\ leaked' \in BOOLEAN
      /\ poll' = [poll EXCEPT ![r] = "gaveup"]
      /\ (UNCHANGED stray /\ Undisturbed') => Undisturbed /\ r = starts
  BY <1>1, ChainFacts
<1>4. /\ sock' \in [Runs -> States] /\ refused' \in [Runs -> BOOLEAN] /\ outbox' \in [Runs -> Seq(Message)]
      /\ ws' = 0 /\ loading' \in BOOLEAN /\ loading' = FALSE /\ starts \in Runs
      /\ sock' = [sock EXCEPT ![starts] = "closing"] /\ outbox' = [outbox EXCEPT ![starts] = <<>>]
  BY <1>1, <1>2, DisconnectFacts
<1>5. TypeOK'
  <2>1. ws' \in 0 .. starts'
    BY <1>1, <1>4 DEF SessionInv, TypeOK
  <2>. QED
    BY <1>1, <1>3, <1>4, <2>1, Zenon DEF SessionInv, TypeOK
<1>6. Connected'
  BY <1>1, <1>4 DEF SessionInv, Connected
<1>7. ASSUME Undisturbed'
      PROVE  Separate' /\ rows = <<>> /\ ~live
  <2>1. Separate /\ r = starts /\ OwnConnection(r)
    BY <1>1, <1>3, <1>7 DEF SessionInv, Separate
  <2>2. test[r] = "none"
    BY <1>1, <2>1 DEF OwnConnection
  <2>3. OwnConnection(r)' /\ Silent(r)'
    <3>1. sock'[r] = "closing" /\ outbox'[r] = <<>>
      BY <1>4, <2>1 DEF SessionInv, TypeOK
    <3>. QED
      BY <1>1, <2>1, <3>1, ClosingIsSilent
  <2>4. \A q \in Runs \ {r} : Of(q)' = Of(q)
    BY <1>1, <1>3, <1>4, <2>1 DEF Of, SessionInv, TypeOK
  <2>5. ~(starts < r)
    BY <2>1 DEF SessionInv, TypeOK
  <2>6. /\ \A q \in Runs : OwnConnection(q)'
        /\ \A q \in Runs : starts' < q => poll'[q] = "none" /\ sock'[q] = "none"
        /\ \A q \in Runs : q < starts' \/ (q = starts' /\ ~loading') => Silent(q)'
    BY <1>1, <2>1, <2>3, <2>4, <2>5, OneRun DEF SessionInv
  <2>7. rows = <<>> /\ ~live
    BY <2>1, <2>2 DEF Separate
  <2>. QED
    BY <1>1, <2>6, <2>7 DEF Separate
<1>8. QuietWhenIdle' /\ RowsOfLastRun'
  BY <1>1, <1>7, NoRows DEF QuietWhenIdle, RowsOfLastRun
<1>. QED
  BY <1>5, <1>6, <1>7, <1>8 DEF SessionInv

-----------------------------------------------------------------------------
\* The connections.

LEMMA OpenedStep ==
  ASSUME SessionInv, NEW s \in Runs, Opened(s)
  PROVE  SessionInv'
<1>1. /\ sock[s] = "connecting" /\ sock' = [sock EXCEPT ![s] = "open"] /\ srv' = [srv EXCEPT ![s] = "reading"]
      /\ UNCHANGED <<starts, poll, attempts, loading, ws, rows, live, refused, inbox, outbox, test, at, endone,
                     stray, leaked>>
  BY DEF Opened, storeVars, formVars, history
<1>2. TypeOK'
  <2>1. sock' \in [Runs -> States] /\ srv' \in [Runs -> {"none", "reading", "ended"}]
    BY <1>1 DEF SessionInv, TypeOK, States
  <2>. QED
    BY <1>1, <2>1, Zenon DEF SessionInv, TypeOK
<1>3. Connected'
  BY <1>1 DEF SessionInv, TypeOK, Connected
<1>4. QuietWhenIdle' /\ RowsOfLastRun'
  BY <1>1, Zenon DEF SessionInv, QuietWhenIdle, RowsOfLastRun, Undisturbed
<1>5. ASSUME Undisturbed' PROVE Separate'
  <2>1. Separate /\ OwnConnection(s)
    BY <1>1, <1>5 DEF SessionInv, Undisturbed, Separate
  <2>2. sock'[s] = "open"
    BY <1>1 DEF SessionInv, TypeOK
  <2>3. OwnConnection(s)'
    BY <1>1, <2>1, <2>2 DEF OwnConnection
  <2>4. Silent(s) => Silent(s)'
    BY <1>1, <2>2 DEF Silent
  <2>5. ~(starts < s)
    BY <1>1, <2>1 DEF Separate
  <2>6. \A r \in Runs \ {s} : Of(r)' = Of(r)
    BY <1>1 DEF Of, SessionInv, TypeOK
  <2>7. s < starts \/ (s = starts /\ ~loading') => Silent(s)'
    BY <1>1, <2>1, <2>4 DEF Separate
  <2>8. /\ \A r \in Runs : OwnConnection(r)'
        /\ \A r \in Runs : starts' < r => poll'[r] = "none" /\ sock'[r] = "none"
        /\ \A r \in Runs : r < starts' \/ (r = starts' /\ ~loading') => Silent(r)'
    BY <1>1, <2>1, <2>3, <2>5, <2>6, <2>7, OneRun DEF SessionInv
  <2>. QED
    BY <1>1, <2>1, <2>8 DEF Separate
<1>. QED
  BY <1>2, <1>3, <1>4, <1>5 DEF SessionInv

\* An error event that is none of the exceptions ends a test only when the
\* connection of the last click has not opened.
LEMMA ErrorFacts ==
  ASSUME SessionInv, NEW s \in Runs, OnError(s), UNCHANGED leaked
  PROVE  /\ ws' = 0 /\ loading' = FALSE /\ stray' \in BOOLEAN
         /\ Undisturbed' => Undisturbed /\ (loading => s = starts /\ sock[s] = "connecting")
<1>1. ws' = 0 /\ loading' = FALSE
  BY DEF OnError
<1>2. stray' \in BOOLEAN
  BY Zenon DEF OnError
<1>3. ~stray' => ~stray /\ (loading => ws = s /\ sock[s] # "open")
  BY DEF OnError
<1>4. ws = s => s = starts /\ sock[s] \in {"connecting", "open"}
  BY SessionAssumption DEF SessionInv, Connected, Runs
<1>. QED
  BY <1>1, <1>2, <1>3, <1>4 DEF Undisturbed

\* A connection is lost, in any of three ways.
LEMMA LostStep ==
  ASSUME SessionInv, NEW s \in Runs, sock[s] \in {"connecting", "open", "closing"},
         sock' = [sock EXCEPT ![s] = "closed"],
         UNCHANGED outbox \/ outbox' = [outbox EXCEPT ![s] = <<>>],
         refused' \in [Runs -> BOOLEAN], OnClose \/ OnError(s),
         UNCHANGED <<starts, poll, attempts, rows, live, inbox, srv, test, at, endone, leaked>>
  PROVE  SessionInv'
<1>1. /\ ws' = 0 /\ loading' \in BOOLEAN /\ stray' \in BOOLEAN
      /\ Undisturbed' => /\ Undisturbed
                         /\ loading' = loading \/ (s = starts /\ sock[s] = "connecting" /\ loading' = FALSE)
  <2>1. CASE OnClose
    <3>1. ws' = 0 /\ loading' = loading /\ stray' = stray /\ leaked' = leaked
      BY <2>1 DEF OnClose
    <3>2. loading' \in BOOLEAN /\ stray' \in BOOLEAN
      BY <3>1, Zenon DEF SessionInv, TypeOK
    <3>3. Undisturbed' => Undisturbed
      BY <3>1 DEF Undisturbed
    <3>. QED
      BY <3>1, <3>2, <3>3, Zenon
  <2>2. CASE OnError(s)
    <3>1. /\ ws' = 0 /\ loading' = FALSE /\ stray' \in BOOLEAN
          /\ Undisturbed' => Undisturbed /\ (loading => s = starts /\ sock[s] = "connecting")
      BY <2>2, ErrorFacts
    <3>2. loading = TRUE \/ loading = FALSE
      BY Zenon DEF SessionInv, TypeOK
    <3>3. Undisturbed' => loading' = loading \/ (s = starts /\ sock[s] = "connecting" /\ loading' = FALSE)
      BY <3>1, <3>2, Zenon
    <3>4. loading' \in BOOLEAN
      BY <3>1, Zenon
    <3>. QED
      BY <3>1, <3>3, <3>4, Zenon
  <2>. QED
    BY <2>1, <2>2
<1>2. TypeOK'
  <2>1. sock' \in [Runs -> States] /\ ws' \in 0 .. starts'
    BY <1>1 DEF SessionInv, TypeOK, States
  <2>2. outbox' \in [Runs -> Seq(Message)]
    <3>1. outbox \in [Runs -> Seq(Message)] /\ <<>> \in Seq(Message)
      BY EmptySeq DEF SessionInv, TypeOK
    <3>2. CASE outbox' = outbox
      BY <3>1, <3>2
    <3>3. CASE outbox' = [outbox EXCEPT ![s] = <<>>]
      BY <3>1, <3>3
    <3>. QED
      BY <3>2, <3>3
  <2>. QED
    BY <1>1, <2>1, <2>2, Zenon DEF SessionInv, TypeOK
<1>3. Connected'
  BY <1>1 DEF SessionInv, Connected
<1>4. ASSUME Undisturbed' PROVE Separate' /\ (loading' = loading \/ (rows = <<>> /\ ~live))
  <2>1. Separate /\ OwnConnection(s)
    BY <1>1, <1>4 DEF SessionInv, Separate
  <2>2. sock'[s] = "closed" /\ outbox'[s] \in {<<>>, outbox[s]}
    BY DEF SessionInv, TypeOK
  <2>3. OwnConnection(s)'
    <3>1. Len(<<>>) = 0 /\ DOMAIN <<>> = {}
      BY EmptySeq
    <3>. QED
      BY <2>1, <2>2, <3>1 DEF OwnConnection
  <2>4. Silent(s)'
    BY <2>2 DEF Silent
  <2>5. ~(starts < s)
    BY <2>1 DEF Separate
  <2>6. \A r \in Runs \ {s} : Of(r)' = Of(r)
    BY DEF Of, SessionInv, TypeOK
  <2>7. s # starts => UNCHANGED loading
    BY <1>1, <1>4, Zenon
  <2>8. /\ \A r \in Runs : OwnConnection(r)'
        /\ \A r \in Runs : starts' < r => poll'[r] = "none" /\ sock'[r] = "none"
        /\ \A r \in Runs : r < starts' \/ (r = starts' /\ ~loading') => Silent(r)'
    BY <2>1, <2>3, <2>4, <2>5, <2>6, <2>7, OneRun DEF SessionInv
  <2>9. s = starts /\ sock[s] = "connecting" => rows = <<>> /\ ~live
    BY <2>1 DEF OwnConnection, Separate
  <2>. QED
    BY <1>1, <1>4, <2>1, <2>8, <2>9 DEF Separate
<1>5. QuietWhenIdle'
  <2>1. ASSUME Undisturbed', ~loading' PROVE ~live' /\ \A k \in DOMAIN rows' : ~rows'[k].testing
    <3>1. CASE loading' = loading
      BY <1>1, <2>1, <3>1 DEF SessionInv, QuietWhenIdle
    <3>2. CASE rows = <<>> /\ ~live
      BY <3>2, NoRows
    <3>. QED
      BY <1>4, <2>1, <3>1, <3>2
  <2>. QED
    BY <2>1 DEF QuietWhenIdle
<1>6. RowsOfLastRun'
  BY <1>1 DEF SessionInv, RowsOfLastRun
<1>. QED
  BY <1>2, <1>3, <1>4, <1>5, <1>6 DEF SessionInv

LEMMA CloseEventsStep ==
  ASSUME SessionInv, NEW s \in Runs, ConnectFails(s) \/ Closed(s) \/ Dropped(s)
  PROVE  SessionInv'
<1>1. /\ sock[s] \in {"connecting", "open", "closing"} /\ sock' = [sock EXCEPT ![s] = "closed"]
      /\ UNCHANGED outbox \/ outbox' = [outbox EXCEPT ![s] = <<>>]
      /\ OnClose \/ OnError(s)
      /\ UNCHANGED <<starts, poll, attempts, rows, live, inbox, srv, test, at, endone, leaked>>
  BY DEF ConnectFails, Closed, Dropped, formVars, serverVars
<1>2. refused' \in [Runs -> BOOLEAN]
  BY Zenon DEF ConnectFails, Closed, Dropped, SessionInv, TypeOK
<1>. QED
  BY <1>1, <1>2, LostStep

-----------------------------------------------------------------------------
\* handleMessage.

Row == [run: Runs, testing: BOOLEAN, tested: BOOLEAN]

LEMMA FieldsChanged ==
  ASSUME NEW R, NEW T, NEW U, NEW x \in [run: R, testing: T, tested: U], NEW a \in T, NEW b \in U
  PROVE  /\ [x EXCEPT !.testing = a, !.tested = b] \in [run: R, testing: T, tested: U]
         /\ [x EXCEPT !.testing = a] \in [run: R, testing: T, tested: U]
         /\ [x EXCEPT !.testing = a, !.tested = b].run = x.run /\ [x EXCEPT !.testing = a].run = x.run
         /\ [x EXCEPT !.testing = a, !.tested = b].testing = a
  OBVIOUS

LEMMA RowChanged ==
  ASSUME NEW x \in Row, NEW a \in BOOLEAN, NEW b \in BOOLEAN
  PROVE  /\ [x EXCEPT !.testing = a, !.tested = b] \in Row
         /\ [x EXCEPT !.testing = a] \in Row
         /\ [x EXCEPT !.testing = a, !.tested = b].run = x.run /\ [x EXCEPT !.testing = a].run = x.run
         /\ [x EXCEPT !.testing = a, !.tested = b].testing = a
  BY FieldsChanged, Zenon DEF Row

\* The rows one by one.
LEMMA RowByRow ==
  ASSUME rows \in Rows, NEW new, DOMAIN new = DOMAIN rows, new = [k \in DOMAIN rows |-> new[k]],
         \A k \in DOMAIN rows : new[k] \in Row
  PROVE  new \in Rows /\ (rows = <<>> => new = <<>>)
<1>1. Len(rows) \in Nat /\ DOMAIN rows = 1 .. Len(rows)
  BY LenProperties DEF Rows
<1>2. new \in [1 .. Len(rows) -> Row]
  BY <1>1
<1>3. new \in Seq(Row) /\ Len(new) = Len(rows)
  BY <1>1, <1>2
<1>4. rows = <<>> => new = <<>>
  <2>1. rows = <<>> => Len(rows) = 0
    BY EmptySeq
  <2>. QED
    BY <1>3, <2>1, EmptySeq
<1>. QED
  BY <1>3, <1>4 DEF Rows, Row

LEMMA HandleFacts ==
  ASSUME SessionInv, NEW m \in Message, Handle(m)
  PROVE  /\ rows' \in Rows /\ loading' \in BOOLEAN /\ live' \in BOOLEAN
         /\ \A k \in DOMAIN rows' :
              \/ m.kind = "gotservers" /\ rows'[k].run = m.run
              \/ k \in DOMAIN rows /\ rows'[k].run = rows[k].run
         /\ m.kind # "gotservers" /\ rows = <<>> => rows' = <<>>
         /\ m.kind \in {"endone", "eof"} => ~live' /\ \A k \in DOMAIN rows' : ~rows'[k].testing
         /\ m.kind = "error" => UNCHANGED <<rows, live>>
         /\ m.kind \in {"gotservers", "startping", "endone"} => loading' = loading
<1>1. m.kind \in Kinds /\ m.run \in Runs /\ rows \in Rows /\ loading \in BOOLEAN /\ live \in BOOLEAN
  BY Zenon DEF Message, SessionInv, TypeOK, Rows
<1>2. rows \in Seq(Row) /\ Len(rows) \in Nat /\ DOMAIN rows = 1 .. Len(rows) /\ \A k \in DOMAIN rows : rows[k] \in Row
  BY <1>1, LenProperties, ElementOfSeq DEF Rows, Row
<1>3. CASE m.kind = "gotservers"
  <2>1. PICK row : row = [run |-> m.run, testing |-> FALSE, tested |-> FALSE]
    OBVIOUS
  <2>2. row \in Row /\ row.run = m.run
    BY <1>1, <2>1, Zenon DEF Row
  <2>3. rows' = Append(rows, row) /\ live' = live /\ loading' = loading
    BY <1>3, <2>1 DEF Handle
  <2>4. rows' \in Rows
    BY <1>2, <2>2, <2>3, Appended DEF Rows, Row
  <2>5. ASSUME NEW k \in DOMAIN rows'
        PROVE rows'[k].run = m.run \/ (k \in DOMAIN rows /\ rows'[k].run = rows[k].run)
    BY <1>2, <2>2, <2>3, Appended
  <2>6. live' \in BOOLEAN /\ loading' \in BOOLEAN
    BY <1>1, <2>3, Zenon
  <2>. QED
    BY <1>3, <2>3, <2>4, <2>5, <2>6, Zenon
<1>4. CASE m.kind = "startping"
  <2>1. rows' = [k \in DOMAIN rows |-> [rows[k] EXCEPT !.testing = TRUE]] /\ live' = TRUE /\ loading' = loading
    BY <1>4 DEF Handle
  <2>2. \A k \in DOMAIN rows : rows'[k] \in Row /\ rows'[k].run = rows[k].run
    BY <1>2, <2>1, RowChanged
  <2>3. rows' \in Rows /\ (rows = <<>> => rows' = <<>>) /\ DOMAIN rows' = DOMAIN rows
    BY <1>1, <2>1, <2>2, RowByRow
  <2>4. live' \in BOOLEAN /\ loading' \in BOOLEAN
    BY <1>1, <2>1, Zenon
  <2>. QED
    BY <1>4, <2>1, <2>2, <2>3, <2>4, Zenon
<1>5. CASE m.kind = "endone"
  <2>1. /\ rows' = [k \in DOMAIN rows |-> [rows[k] EXCEPT !.testing = FALSE, !.tested = TRUE]]
        /\ live' = FALSE /\ loading' = loading
    BY <1>5 DEF Handle, MarkRows
  <2>2. \A k \in DOMAIN rows : rows'[k] \in Row /\ rows'[k].run = rows[k].run /\ ~rows'[k].testing
    BY <1>2, <2>1, RowChanged
  <2>3. rows' \in Rows /\ (rows = <<>> => rows' = <<>>) /\ DOMAIN rows' = DOMAIN rows
    BY <1>1, <2>1, <2>2, RowByRow
  <2>4. live' \in BOOLEAN /\ loading' \in BOOLEAN
    BY <1>1, <2>1, Zenon
  <2>. QED
    BY <1>5, <2>1, <2>2, <2>3, <2>4, Zenon
<1>6. CASE m.kind = "eof"
  <2>1. /\ rows' = [k \in DOMAIN rows |->
                      IF rows[k].testing THEN [rows[k] EXCEPT !.testing = FALSE, !.tested = TRUE] ELSE rows[k]]
        /\ live' = FALSE /\ loading' = FALSE
    BY <1>6 DEF Handle, HandleEof
  <2>2. \A k \in DOMAIN rows : rows'[k] \in Row /\ rows'[k].run = rows[k].run /\ ~rows'[k].testing
    BY <1>2, <2>1, RowChanged
  <2>3. rows' \in Rows /\ (rows = <<>> => rows' = <<>>) /\ DOMAIN rows' = DOMAIN rows
    BY <1>1, <2>1, <2>2, RowByRow
  <2>4. live' \in BOOLEAN /\ loading' \in BOOLEAN
    BY <2>1, Zenon
  <2>. QED
    BY <1>6, <2>1, <2>2, <2>3, <2>4, Zenon
<1>7. CASE m.kind = "error"
  <2>1. rows' = rows /\ live' = live /\ loading' = FALSE
    BY <1>7 DEF Handle
  <2>2. live' \in BOOLEAN /\ loading' \in BOOLEAN
    BY <1>1, <2>1, Zenon
  <2>. QED
    BY <1>1, <1>7, <2>1, <2>2, Zenon
<1>. QED
  BY <1>1, <1>3, <1>4, <1>5, <1>6, <1>7 DEF Kinds

LEMMA ReceiveStep ==
  ASSUME SessionInv, NEW s \in Runs, Receive(s)
  PROVE  SessionInv'
<1>1. PICK m : m = Head(outbox[s])
  OBVIOUS
<1>2. /\ sock[s] = "open" /\ outbox[s] # <<>> /\ outbox' = [outbox EXCEPT ![s] = Tail(@)] /\ Handle(m)
      /\ UNCHANGED <<ws, starts, poll, attempts, sock, refused, inbox, srv, test, at, endone, stray, leaked>>
  BY <1>1 DEF Receive, formVars, serverVars, history
<1>3. outbox \in [Runs -> Seq(Message)] /\ outbox[s] \in Seq(Message) /\ starts \in Nat
  BY DEF SessionInv, TypeOK
<1>4. PICK old, new : old = outbox[s] /\ new = Tail(old)
  OBVIOUS
<1>5. /\ m = old[1] /\ m \in Message /\ new \in Seq(Message) /\ Len(old) \in Nat \ {0}
      /\ DOMAIN old = 1 .. Len(old) /\ Len(new) = Len(old) - 1 /\ DOMAIN new = 1 .. Len(old) - 1
      /\ \A i \in 1 .. Len(old) - 1 : new[i] = old[i + 1]
  BY <1>1, <1>2, <1>3, <1>4, Taken
<1>6. outbox' = [outbox EXCEPT ![s] = new] /\ outbox'[s] = new
  BY <1>2, <1>3, <1>4
<1>7. /\ rows' \in Rows /\ loading' \in BOOLEAN /\ live' \in BOOLEAN
      /\ \A k \in DOMAIN rows' :
           \/ m.kind = "gotservers" /\ rows'[k].run = m.run
           \/ k \in DOMAIN rows /\ rows'[k].run = rows[k].run
      /\ m.kind # "gotservers" /\ rows = <<>> => rows' = <<>>
      /\ m.kind \in {"endone", "eof"} => ~live' /\ \A k \in DOMAIN rows' : ~rows'[k].testing
      /\ m.kind = "error" => UNCHANGED <<rows, live>>
      /\ m.kind \in {"gotservers", "startping", "endone"} => loading' = loading
  BY <1>2, <1>5, HandleFacts
<1>8. TypeOK'
  <2>1. outbox' \in [Runs -> Seq(Message)]
    BY <1>3, <1>5, <1>6
  <2>. QED
    BY <1>2, <1>7, <2>1, Zenon DEF SessionInv, TypeOK, Rows
<1>9. Connected'
  BY <1>2 DEF SessionInv, Connected
<1>10. m.kind \in {"gotservers", "startping", "endone", "eof", "error"}
  BY <1>5 DEF Message, Kinds
<1>11. ASSUME Undisturbed'
       PROVE  /\ Separate /\ OwnConnection(s) /\ Undisturbed
              /\ m.run = s /\ (m.kind = "error" <=> test[s] = "none") /\ ~(starts < s)
              /\ m.kind # "endone" => s = starts /\ loading
              /\ poll[s] # "waiting" /\ inbox[s] = <<>>
  <2>1. Separate /\ OwnConnection(s) /\ Undisturbed
    BY <1>2, <1>11 DEF SessionInv, Separate, Undisturbed
  <2>2. m.run = s /\ (m.kind = "error" <=> test[s] = "none")
    BY <1>4, <1>5, <2>1 DEF OwnConnection
  <2>3. ~(starts < s)
    BY <1>2, <2>1 DEF Separate
  <2>4. poll[s] # "waiting" /\ inbox[s] = <<>>
    BY <1>2, <2>1 DEF OwnConnection
  <2>5. Silent(s) => m.kind = "endone"
    BY <1>2, <1>4, <1>5 DEF Silent
  <2>6. s < starts \/ (s = starts /\ ~loading) => m.kind = "endone"
    BY <2>1, <2>5 DEF Separate
  <2>7. s < starts \/ s = starts
    BY <1>3, <2>3 DEF Runs
  <2>. QED
    BY <2>1, <2>2, <2>3, <2>4, <2>6, <2>7
<1>12. ASSUME Undisturbed' PROVE Separate'
  <2>1. OwnConnection(s)'
    <3>1. ASSUME NEW i \in DOMAIN new
          PROVE /\ new[i].run = s /\ (new[i].kind = "error" <=> test[s] = "none")
                /\ new[i].kind = "eof" =>
                     test[s] = "ended" /\ \A j \in DOMAIN new : i < j => new[j].kind = "endone"
      <4>1. i + 1 \in DOMAIN old /\ new[i] = old[i + 1]
        BY <1>5
      <4>2. \A j \in DOMAIN new : j + 1 \in DOMAIN old /\ new[j] = old[j + 1] /\ (i < j => i + 1 < j + 1)
        BY <1>5
      <4>. QED
        BY <1>4, <1>11, <1>12, <4>1, <4>2 DEF OwnConnection
    <3>2. test[s] = "none" => Len(new) <= 1
      BY <1>4, <1>5, <1>11, <1>12 DEF OwnConnection
    <3>3. sock'[s] = "open" /\ poll'[s] # "waiting" /\ inbox'[s] = <<>> /\ test'[s] = test[s] /\ at'[s] = at[s]
      BY <1>2, <1>11, <1>12
    <3>4. test[s] # "none" => at[s] = s
      BY <1>11, <1>12 DEF OwnConnection
    <3>. QED
      BY <1>6, <3>1, <3>2, <3>3, <3>4 DEF OwnConnection
  <2>2. ASSUME s < starts \/ (s = starts /\ ~loading') PROVE Silent(s)'
    <3>1. poll'[s] # "waiting" /\ inbox'[s] = <<>> /\ test'[s] = test[s]
      BY <1>2, <1>11, <1>12
    <3>2. test[s] \in {"none", "ended"} /\ \A i \in DOMAIN new : new[i].kind = "endone"
      <4>1. CASE Silent(s)
        BY <1>2, <1>4, <1>5, <4>1 DEF Silent
      <4>2. CASE ~Silent(s)
        <5>1. s = starts /\ loading /\ ~loading'
          BY <1>11, <1>12, <2>2, <4>2 DEF Separate
        <5>2. m.kind \in {"eof", "error"}
          BY <1>7, <1>10, <5>1
        <5>3. CASE m.kind = "eof"
          <6>1. test[s] = "ended" /\ \A j \in DOMAIN old : 1 < j => old[j].kind = "endone"
            BY <1>4, <1>5, <1>11, <1>12, <5>3 DEF OwnConnection
          <6>2. \A i \in DOMAIN new : i + 1 \in DOMAIN old /\ 1 < i + 1 /\ new[i] = old[i + 1]
            BY <1>5
          <6>. QED
            BY <6>1, <6>2
        <5>4. CASE m.kind = "error"
          <6>1. test[s] = "none" /\ Len(old) <= 1
            BY <1>4, <1>11, <1>12, <5>4 DEF OwnConnection
          <6>2. DOMAIN new = {}
            BY <1>5, <6>1
          <6>. QED
            BY <6>1, <6>2
        <5>. QED
          BY <5>2, <5>3, <5>4
      <4>. QED
        BY <4>1, <4>2
    <3>. QED
      BY <1>6, <3>1, <3>2 DEF Silent
  <2>3. s # starts => UNCHANGED loading
    BY <1>7, <1>11, <1>12
  <2>4. \A r \in Runs \ {s} : Of(r)' = Of(r)
    BY <1>2, <1>3 DEF Of
  <2>5. /\ \A r \in Runs : OwnConnection(r)'
        /\ \A r \in Runs : starts' < r => poll'[r] = "none" /\ sock'[r] = "none"
        /\ \A r \in Runs : r < starts' \/ (r = starts' /\ ~loading') => Silent(r)'
    BY <1>2, <1>11, <1>12, <2>1, <2>2, <2>3, <2>4, OneRun DEF SessionInv
  <2>6. starts' = 0 \/ test'[starts'] = "none" => rows' = <<>> /\ ~live'
    <3>1. SUFFICES ASSUME starts = 0 \/ test[starts] = "none" PROVE rows' = <<>> /\ ~live'
      BY <1>2
    <3>2. rows = <<>> /\ ~live
      BY <1>11, <1>12, <3>1 DEF Separate
    <3>3. m.kind = "endone" \/ m.kind = "error"
      <4>1. starts # 0
        BY <1>3, <1>11, <1>12 DEF Runs
      <4>. QED
        BY <1>11, <1>12, <3>1, <4>1
    <3>. QED
      BY <1>7, <3>2, <3>3
  <2>. QED
    BY <2>5, <2>6 DEF Separate
<1>13. QuietWhenIdle'
  <2>1. ASSUME Undisturbed', ~loading' PROVE ~live' /\ \A k \in DOMAIN rows' : ~rows'[k].testing
    <3>1. CASE m.kind \in {"endone", "eof"}
      BY <1>7, <3>1
    <3>2. CASE m.kind = "error"
      <4>1. test[starts] = "none"
        BY <1>11, <2>1, <3>2
      <4>2. rows = <<>> /\ ~live
        BY <1>11, <2>1, <4>1 DEF Separate
      <4>. QED
        BY <1>7, <3>2, <4>2, NoRows
    <3>3. CASE m.kind \in {"gotservers", "startping"}
      BY <1>7, <1>11, <2>1, <3>3
    <3>. QED
      BY <1>10, <3>1, <3>2, <3>3
  <2>. QED
    BY <2>1 DEF QuietWhenIdle
<1>14. RowsOfLastRun'
  <2>1. ASSUME Undisturbed', NEW k \in DOMAIN rows' PROVE rows'[k].run = starts'
    <3>1. CASE m.kind = "gotservers" /\ rows'[k].run = m.run
      BY <1>2, <1>11, <2>1, <3>1
    <3>2. CASE k \in DOMAIN rows /\ rows'[k].run = rows[k].run
      BY <1>2, <1>11, <2>1, <3>2 DEF SessionInv, RowsOfLastRun
    <3>. QED
      BY <1>7, <3>1, <3>2
  <2>. QED
    BY <2>1 DEF RowsOfLastRun
<1>. QED
  BY <1>8, <1>9, <1>12, <1>13, <1>14 DEF SessionInv

-----------------------------------------------------------------------------
\* The server.

LEMMA WriteFacts ==
  ASSUME SessionInv, NEW s \in Runs, NEW r \in Runs, NEW kind \in Kinds, Write(s, r, kind)
  PROVE  /\ outbox' \in [Runs -> Seq(Message)]
         /\ \/ outbox' = outbox
            \/ sock[s] = "open" /\ outbox' = [outbox EXCEPT ![s] = Append(outbox[s], [run |-> r, kind |-> kind])]
<1>1. outbox \in [Runs -> Seq(Message)] /\ outbox[s] \in Seq(Message)
  BY DEF SessionInv, TypeOK
<1>2. [run |-> r, kind |-> kind] \in Message
  BY DEF Message
<1>3. Append(outbox[s], [run |-> r, kind |-> kind]) \in Seq(Message)
  BY <1>1, <1>2, Appended
<1>4. CASE sock[s] = "open"
  BY <1>1, <1>3, <1>4 DEF Write
<1>5. CASE sock[s] # "open"
  BY <1>1, <1>5 DEF Write
<1>. QED
  BY <1>4, <1>5

LEMMA AcceptStep ==
  ASSUME SessionInv, NEW s \in Runs, Accept(s)
  PROVE  SessionInv'
<1>1. PICK r : r = Head(inbox[s])
  OBVIOUS
<1>2. /\ srv[s] = "reading" /\ inbox[s] # <<>> /\ inbox' = [inbox EXCEPT ![s] = Tail(@)]
      /\ \/ Write(s, r, "error") /\ UNCHANGED <<test, at>>
         \/ /\ test' = [test EXCEPT ![r] = "started"] /\ at' = [at EXCEPT ![r] = s]
            /\ UNCHANGED outbox
      /\ UNCHANGED <<starts, poll, attempts, loading, ws, rows, live, sock, refused, srv, endone, stray, leaked>>
  BY <1>1 DEF Accept, serverRest, storeVars, formVars, history
<1>3. inbox \in [Runs -> Seq(Runs)] /\ inbox[s] \in Seq(Runs)
  BY DEF SessionInv, TypeOK
<1>4. r \in Runs /\ Tail(inbox[s]) \in Seq(Runs)
  BY <1>1, <1>2, <1>3, Taken
<1>5. \/ /\ test' = test /\ at' = at /\ outbox' \in [Runs -> Seq(Message)]
         /\ \/ outbox' = outbox
            \/ sock[s] = "open" /\ outbox' = [outbox EXCEPT ![s] = Append(outbox[s], [run |-> r, kind |-> "error"])]
      \/ /\ test' = [test EXCEPT ![r] = "started"] /\ at' = [at EXCEPT ![r] = s]
         /\ outbox' = outbox
  BY <1>2, <1>4, WriteFacts DEF Kinds
<1>6. TypeOK'
  <2>1. inbox' \in [Runs -> Seq(Runs)]
    BY <1>2, <1>3, <1>4
  <2>2. outbox' \in [Runs -> Seq(Message)]
    BY <1>5 DEF SessionInv, TypeOK
  <2>3. /\ test' \in [Runs -> {"none", "started", "announced", "tested", "ended"}]
        /\ at' \in [Runs -> 0 .. MaxStarts]
    <3>1. /\ test \in [Runs -> {"none", "started", "announced", "tested", "ended"}]
          /\ at \in [Runs -> 0 .. MaxStarts]
      BY DEF SessionInv, TypeOK
    <3>2. s \in 0 .. MaxStarts
      BY SessionAssumption DEF Runs
    <3>3. CASE test' = test /\ at' = at
      BY <3>1, <3>3
    <3>4. CASE test' = [test EXCEPT ![r] = "started"] /\ at' = [at EXCEPT ![r] = s]
      BY <3>1, <3>2, <3>4
    <3>. QED
      BY <1>5, <3>3, <3>4
  <2>. QED
    BY <1>2, <2>1, <2>2, <2>3, Zenon DEF SessionInv, TypeOK
<1>7. Connected'
  BY <1>2, <1>4, <1>5 DEF SessionInv, TypeOK, Connected
<1>8. QuietWhenIdle' /\ RowsOfLastRun'
  BY <1>2, Zenon DEF SessionInv, QuietWhenIdle, RowsOfLastRun, Undisturbed
<1>9. ASSUME Undisturbed' PROVE Separate'
  <2>1. Separate /\ OwnConnection(s)
    BY <1>2, <1>9 DEF SessionInv, Separate, Undisturbed
  <2>2. /\ inbox[s] = <<s>> /\ outbox[s] = <<>> /\ test[s] = "none" /\ poll[s] # "waiting"
        /\ sock[s] \notin {"none", "connecting"}
    BY <1>2, <2>1 DEF OwnConnection
  <2>3. r = s /\ inbox'[s] = <<>>
    BY <1>1, <1>2, <1>3, <2>2
  <2>4. ~(starts < s)
    BY <2>1, <2>2 DEF Separate
  <2>5. Len(<<>>) = 0 /\ DOMAIN <<>> = {} /\ <<>> \in Seq(Message)
    BY EmptySeq
  <2>6. OwnConnection(s)'
    <3>1. CASE test' = test /\ at' = at /\ outbox' = outbox
      BY <1>2, <2>2, <2>3, <2>5, <3>1 DEF OwnConnection
    <3>2. CASE /\ test' = test /\ at' = at
               /\ outbox' = [outbox EXCEPT ![s] = Append(outbox[s], [run |-> r, kind |-> "error"])]
      <4>1. PICK m : m = [run |-> s, kind |-> "error"]
        OBVIOUS
      <4>2. m \in Message /\ m.run = s /\ m.kind = "error"
        BY <4>1 DEF Message, Kinds
      <4>3. PICK q : q = Append(<<>>, m)
        OBVIOUS
      <4>4. Len(q) = 1 /\ DOMAIN q = 1 .. 1 /\ q[1] = m
        BY <2>5, <4>2, <4>3, Appended
      <4>5. outbox'[s] = q
        BY <2>2, <2>3, <3>2, <4>1, <4>3 DEF SessionInv, TypeOK
      <4>. QED
        BY <1>2, <2>2, <2>3, <3>2, <4>2, <4>4, <4>5 DEF OwnConnection
    <3>3. CASE /\ test' = [test EXCEPT ![r] = "started"] /\ at' = [at EXCEPT ![r] = s] /\ outbox' = outbox
      <4>1. test'[s] = "started" /\ at'[s] = s /\ outbox'[s] = <<>>
        BY <2>2, <2>3, <3>3 DEF SessionInv, TypeOK
      <4>. QED
        BY <1>2, <2>2, <2>3, <2>5, <4>1 DEF OwnConnection
    <3>. QED
      BY <1>5, <3>1, <3>2, <3>3
  <2>7. Silent(s) => Silent(s)'
    BY <1>2, <2>2 DEF Silent
  <2>8. \A q \in Runs \ {s} : Of(q)' = Of(q)
    BY <1>2, <1>5, <2>3 DEF Of, SessionInv, TypeOK
  <2>9. s < starts \/ (s = starts /\ ~loading') => Silent(s)'
    BY <1>2, <2>1, <2>7 DEF Separate
  <2>10. /\ \A q \in Runs : OwnConnection(q)'
         /\ \A q \in Runs : starts' < q => poll'[q] = "none" /\ sock'[q] = "none"
         /\ \A q \in Runs : q < starts' \/ (q = starts' /\ ~loading') => Silent(q)'
    BY <1>2, <2>1, <2>4, <2>6, <2>8, <2>9, OneRun DEF SessionInv
  <2>11. test'[starts] = "none" => test[starts] = "none"
    <3>1. starts \in Runs
      BY <2>4, SessionAssumption DEF SessionInv, TypeOK, Runs
    <3>2. test' = test \/ test' = [test EXCEPT ![r] = "started"]
      BY <1>5
    <3>. QED
      BY <3>1, <3>2 DEF SessionInv, TypeOK
  <2>. QED
    BY <1>2, <2>1, <2>10, <2>11 DEF Separate
<1>. QED
  BY <1>6, <1>7, <1>8, <1>9 DEF SessionInv

LEMMA ReadEndsStep ==
  ASSUME SessionInv, NEW s \in Runs, ReadEnds(s)
  PROVE  SessionInv'
<1>1. /\ srv' = [srv EXCEPT ![s] = "ended"]
      /\ UNCHANGED <<starts, poll, attempts, loading, ws, rows, live, sock, refused, inbox, outbox, test, at, endone,
                     stray, leaked>>
  BY DEF ReadEnds, serverRest, storeVars, formVars, history
<1>2. TypeOK'
  <2>1. srv' \in [Runs -> {"none", "reading", "ended"}]
    BY <1>1 DEF SessionInv, TypeOK
  <2>. QED
    BY <1>1, <2>1, Zenon DEF SessionInv, TypeOK
<1>3. Connected' /\ QuietWhenIdle' /\ RowsOfLastRun'
  BY <1>1, Zenon DEF SessionInv, Connected, QuietWhenIdle, RowsOfLastRun, Undisturbed
<1>4. ASSUME Undisturbed' PROVE Separate'
  <2>1. Separate
    BY <1>1, <1>4 DEF SessionInv, Undisturbed
  <2>2. \A q \in Runs : Of(q)' = Of(q)
    BY <1>1 DEF Of
  <2>. QED
    BY <1>1, <2>1, <2>2, OthersKept DEF Separate
<1>. QED
  BY <1>2, <1>3, <1>4 DEF SessionInv

\* A test goes on, and may write a message of its kind to its connection.
LEMMA TestGoesOn ==
  ASSUME SessionInv, NEW r \in Runs, test[r] # "none",
         NEW to \in {"announced", "tested", "ended"}, test' = [test EXCEPT ![r] = to],
         NEW kind \in {"gotservers", "startping", "endone", "eof"}, Write(at[r], r, kind) \/ UNCHANGED outbox,
         kind = "eof" => to = "ended",
         test[r] = "ended" => to = "ended" /\ kind = "endone",
         endone' \in [Runs -> BOOLEAN],
         UNCHANGED <<starts, poll, attempts, loading, ws, rows, live, sock, refused, inbox, srv, at, stray, leaked>>
  PROVE  SessionInv'
<1>1. at[r] \in Runs
  BY DEF SessionInv, Connected
<1>2. PICK m : m = [run |-> r, kind |-> kind]
  OBVIOUS
<1>3. m \in Message /\ m.run = r /\ m.kind = kind /\ kind \in Kinds
  BY <1>2 DEF Message, Kinds
<1>4. /\ outbox' \in [Runs -> Seq(Message)]
      /\ \/ outbox' = outbox
         \/ sock[at[r]] = "open" /\ outbox' = [outbox EXCEPT ![at[r]] = Append(outbox[at[r]], m)]
  <2>1. CASE UNCHANGED outbox
    BY <2>1 DEF SessionInv, TypeOK
  <2>2. CASE Write(at[r], r, kind)
    BY <1>1, <1>2, <1>3, <2>2, WriteFacts
  <2>. QED
    BY <2>1, <2>2
<1>5. test'[r] = to /\ test' \in [Runs -> {"none", "started", "announced", "tested", "ended"}]
  BY DEF SessionInv, TypeOK
<1>6. TypeOK'
  BY <1>4, <1>5, Zenon DEF SessionInv, TypeOK
<1>7. Connected'
  BY <1>1 DEF SessionInv, TypeOK, Connected
<1>8. QuietWhenIdle' /\ RowsOfLastRun'
  BY Zenon DEF SessionInv, QuietWhenIdle, RowsOfLastRun, Undisturbed
<1>9. ASSUME Undisturbed' PROVE Separate'
  <2>1. Separate /\ OwnConnection(r)
    BY <1>9 DEF SessionInv, Separate, Undisturbed
  <2>2. /\ at[r] = r /\ inbox[r] = <<>> /\ poll[r] # "waiting" /\ sock[r] \notin {"none", "connecting"}
    BY <2>1 DEF OwnConnection
  <2>3. ~(starts < r)
    BY <2>1, <2>2 DEF Separate
  <2>4. PICK old, new : old = outbox[r] /\ new = outbox'[r]
    OBVIOUS
  <2>5. /\ old \in Seq(Message) /\ DOMAIN old = 1 .. Len(old) /\ Len(old) \in Nat
        /\ \A i \in DOMAIN old :
             /\ old[i].run = r /\ old[i].kind # "error"
             /\ old[i].kind = "eof" => test[r] = "ended" /\ \A j \in DOMAIN old : i < j => old[j].kind = "endone"
    <3>1. old \in Seq(Message)
      BY <2>4 DEF SessionInv, TypeOK
    <3>. QED
      BY <2>1, <2>4, <3>1, LenProperties DEF OwnConnection
  <2>6. \/ new = old
        \/ /\ DOMAIN new = 1 .. Len(old) + 1 /\ new[Len(old) + 1] = m
           /\ \A i \in 1 .. Len(old) : new[i] = old[i]
    <3>1. new = old \/ new = Append(old, m)
      <4>1. CASE outbox' = outbox
        BY <2>4, <4>1
      <4>2. CASE outbox' = [outbox EXCEPT ![at[r]] = Append(outbox[at[r]], m)]
        <5>1. outbox' = [outbox EXCEPT ![r] = Append(outbox[r], m)]
          BY <2>2, <4>2
        <5>. QED
          BY <2>4, <5>1 DEF SessionInv, TypeOK
      <4>. QED
        BY <1>4, <4>1, <4>2
    <3>. QED
      BY <1>3, <2>5, <3>1, Appended
  <2>7. OwnConnection(r)'
    <3>1. ASSUME NEW i \in DOMAIN new
          PROVE /\ new[i].run = r /\ new[i].kind # "error"
                /\ new[i].kind = "eof" => to = "ended" /\ \A j \in DOMAIN new : i < j => new[j].kind = "endone"
      <4>1. CASE new = old
        BY <2>5, <4>1
      <4>2. CASE /\ DOMAIN new = 1 .. Len(old) + 1 /\ new[Len(old) + 1] = m
                 /\ \A j \in 1 .. Len(old) : new[j] = old[j]
        <5>1. CASE i = Len(old) + 1
          BY <1>3, <2>5, <4>2, <5>1
        <5>2. CASE i \in 1 .. Len(old)
          BY <1>3, <2>5, <4>2, <5>2
        <5>. QED
          BY <2>5, <4>2, <5>1, <5>2
      <4>. QED
        BY <2>6, <4>1, <4>2
    <3>2. outbox'[r] = new /\ at'[r] = r /\ inbox'[r] = <<>> /\ poll'[r] # "waiting" /\ to # "none"
          /\ sock'[r] \notin {"none", "connecting"}
      BY <2>2, <2>4
    <3>. QED
      BY <1>5, <3>1, <3>2 DEF OwnConnection
  <2>8. Silent(r) => Silent(r)'
    <3>1. CASE sock[r] \in {"closing", "closed"}
      BY <3>1 DEF Silent
    <3>2. CASE test[r] = "ended" /\ \A i \in DOMAIN old : old[i].kind = "endone"
      <4>1. \A i \in DOMAIN new : new[i].kind = "endone"
        BY <1>3, <2>5, <2>6, <3>2
      <4>. QED
        BY <1>5, <2>2, <2>4, <3>2, <4>1 DEF Silent
    <3>3. Silent(r) => \/ sock[r] \in {"closing", "closed"}
                       \/ test[r] = "ended" /\ \A i \in DOMAIN old : old[i].kind = "endone"
      BY <2>4 DEF Silent
    <3>. QED
      BY <3>1, <3>2, <3>3
  <2>9. \A q \in Runs \ {r} : Of(q)' = Of(q)
    BY <1>4, <2>2 DEF Of, SessionInv, TypeOK
  <2>10. r < starts \/ (r = starts /\ ~loading') => Silent(r)'
    BY <2>1, <2>8 DEF Separate
  <2>11. /\ \A q \in Runs : OwnConnection(q)'
         /\ \A q \in Runs : starts' < q => poll'[q] = "none" /\ sock'[q] = "none"
         /\ \A q \in Runs : q < starts' \/ (q = starts' /\ ~loading') => Silent(q)'
    BY <2>1, <2>3, <2>7, <2>9, <2>10, OneRun DEF SessionInv
  <2>12. test'[starts] = "none" => test[starts] = "none"
    BY <1>5 DEF SessionInv, TypeOK
  <2>. QED
    BY <2>1, <2>11, <2>12 DEF Separate
<1>. QED
  BY <1>6, <1>7, <1>8, <1>9 DEF SessionInv

LEMMA TestStep ==
  ASSUME SessionInv, NEW r \in Runs, Test(r)
  PROVE  SessionInv'
<1>1. UNCHANGED <<starts, poll, attempts, loading, ws, rows, live, sock, refused, inbox, srv, at, stray, leaked>>
  BY DEF Test, Advance, WriteEof, WriteEndone, Abandon, serverRest, storeVars, formVars, history
<1>2. endone \in [Runs -> BOOLEAN]
  BY Zenon DEF SessionInv, TypeOK
<1>3. ASSUME NEW from, NEW to, NEW kind, Advance(r, from, to, kind)
      PROVE  /\ test[r] = from /\ test' = [test EXCEPT ![r] = to] /\ Write(at[r], r, kind)
             /\ endone' \in [Runs -> BOOLEAN]
  BY <1>2, <1>3 DEF Advance
<1>4. CASE Advance(r, "started", "announced", "gotservers")
  BY <1>1, <1>3, <1>4, TestGoesOn
<1>5. CASE Advance(r, "announced", "tested", "startping")
  BY <1>1, <1>3, <1>5, TestGoesOn
<1>6. CASE WriteEof(r)
  <2>1. Advance(r, "tested", "ended", "eof")
    BY <1>6 DEF WriteEof
  <2>. QED
    BY <1>1, <1>3, <2>1, TestGoesOn
<1>7. CASE WriteEndone(r)
  <2>1. /\ test[r] \in {"tested", "ended"} /\ endone' = [endone EXCEPT ![r] = TRUE] /\ test' = test
        /\ Write(at[r], r, "endone")
    BY <1>7 DEF WriteEndone
  <2>2. endone' \in [Runs -> BOOLEAN]
    BY <1>2, <2>1, Zenon
  <2>3. PICK to \in {"announced", "tested", "ended"} : to = test[r]
    BY <2>1
  <2>4. test' = [test EXCEPT ![r] = to]
    BY <2>1, <2>3 DEF SessionInv, TypeOK
  <2>. QED
    BY <1>1, <2>1, <2>2, <2>3, <2>4, TestGoesOn
<1>8. CASE Abandon(r)
  <2>1. /\ test[r] = "announced" /\ test' = [test EXCEPT ![r] = "ended"] /\ outbox' = outbox
        /\ endone' = [endone EXCEPT ![r] = TRUE]
    BY <1>8 DEF Abandon
  <2>2. endone' \in [Runs -> BOOLEAN]
    BY <1>2, <2>1, Zenon
  <2>. QED
    BY <1>1, <2>1, <2>2, TestGoesOn
<1>. QED
  BY <1>4, <1>5, <1>6, <1>7, <1>8 DEF Test

-----------------------------------------------------------------------------
LEMMA SessionStep == SessionInv /\ [Next]_vars => SessionInv'
<1>. SUFFICES ASSUME SessionInv, [Next]_vars PROVE SessionInv'
  OBVIOUS
<1>1. CASE UNCHANGED vars
  <2>1. UNCHANGED <<starts, poll, attempts, loading, ws, rows, live, sock, refused, inbox, outbox, srv, test, at,
                    endone, stray, leaked>>
    BY <1>1 DEF vars, storeVars, formVars, netVars, serverVars, history
  <2>2. TypeOK'
    BY <2>1, Zenon DEF SessionInv, TypeOK
  <2>3. Connected' /\ QuietWhenIdle' /\ RowsOfLastRun'
    BY <2>1, Zenon DEF SessionInv, Connected, QuietWhenIdle, RowsOfLastRun, Undisturbed
  <2>4. ASSUME Undisturbed' PROVE Separate'
    <3>1. Separate
      BY <2>1, <2>4 DEF SessionInv, Undisturbed
    <3>2. \A q \in Runs : Of(q)' = Of(q)
      BY <2>1 DEF Of
    <3>. QED
      BY <2>1, <3>1, <3>2, OthersKept DEF Separate
  <2>. QED
    BY <2>2, <2>3, <2>4 DEF SessionInv
<1>2. CASE Start
  BY <1>2, StartStep
<1>3. CASE Terminate
  BY <1>3, TerminateStep
<1>4. ASSUME NEW r \in Runs, Poll(r) PROVE SessionInv'
  BY <1>4, PollSendsStep, PollFailsStep, PollAgainStep, PollGivesUpStep DEF Poll
<1>5. ASSUME NEW s \in Runs, Network(s) PROVE SessionInv'
  BY <1>5, OpenedStep, CloseEventsStep, ReceiveStep, AcceptStep, ReadEndsStep DEF Network
<1>6. ASSUME NEW r \in Runs, Test(r) PROVE SessionInv'
  BY <1>6, TestStep
<1>. QED
  BY <1>1, <1>2, <1>3, <1>4, <1>5, <1>6, Zenon DEF Next

\* The inductive invariant of the page and the server, for any number of clicks
\* and polls: whose messages a connection carries, and what may still come.
THEOREM SessionSound == Spec => []SessionInv
<1>. QED
  BY InitInd, SessionStep, PTL DEF Spec

\* Every variable of the page and the server keeps its type.
THEOREM SessionTypes == Spec => []TypeOK
<1>1. SessionInv => TypeOK
  BY DEF SessionInv
<1>. QED
  BY <1>1, SessionSound, PTL

\* A page that shows no test shows no meter and no highlighted row, whatever
\* became of the tests and connections before; error events in the course of a
\* test and leaked timers are excepted.
THEOREM IdleIsQuiet == Spec => []QuietWhenIdle
<1>1. SessionInv => QuietWhenIdle
  BY DEF SessionInv
<1>. QED
  BY <1>1, SessionSound, PTL

\* The table shows the rows of the last Start only, although nobody closes the
\* connections of earlier runs and ids start from zero in each.
THEOREM RunsNeverMix == Spec => []RowsOfLastRun
<1>1. SessionInv => RowsOfLastRun
  BY DEF SessionInv
<1>. QED
  BY <1>1, SessionSound, PTL
=============================================================================
