---------------------------- MODULE NetworkProofs ----------------------------
(***************************************************************************)
(* Proofs about the network below the tests: the dual dial (DualStack),    *)
(* the dialer through the xray core (XrayDialer), the resolver (Dns, which *)
(* implements Resolver) and the outbounds that links become (Links), for   *)
(* every outcome of lookups, dials and exchanges, for any set of callers,  *)
(* threads and name servers, and for any links.                            *)
(***************************************************************************)
EXTENDS DualStack, XrayDialer, DnsHistory, Links, SequenceTheorems, WellFoundedInduction, TLAPS

-----------------------------------------------------------------------------
\* DualStack.

LEMMA DialInitInd == DialInit => DialInv
<1>. SUFFICES ASSUME DialInit PROVE DialInv
  OBVIOUS
<1>. USE DEF DialInit
<1>1. DialTypeOK
  BY DEF DialTypeOK, DialNetworks, DialHosts, NoConn, Result, NoResult, Fresh, Families
<1>2. DialSafe
  BY DEF DialSafe, NoConnLeaks, FailsOnlyIfBothFail, WinnerStaysOpen, ErrorTellsMost
<1>3. CallOK
  BY DEF CallOK, Alone, NoResult
<1>4. \A f \in Families : RacerOK(f)
  BY DEF RacerOK, NoResult, Fresh
<1>. QED
  BY <1>1, <1>2, <1>3, <1>4 DEF DialInv

\* What a lookup may find.
LEMMA LookupType ==
  ASSUME NEW host, NEW f, NEW e \in Lookup(host, f)
  PROVE  e \in {"none", "version", "notfound"}
BY DEF Lookup

-----------------------------------------------------------------------------
\* The call starts: no racer has run.
LEMMA DialCallStep ==
  ASSUME DialInv, NEW net \in DialNetworks, NEW host \in DialHosts, DialCall(net, host)
  PROVE  DialInv'
<1>0. /\ dialPc = "idle" /\ Alone /\ open = {} /\ open' = {}
      /\ racerResult' = racerResult /\ dialSeen' = dialSeen
      /\ \A f \in Families : ~dialSeen[f].done
  BY DEF DialInv, CallOK, Alone, DialCall
<1>1. DialTypeOK'
  BY <1>0 DEF DialInv, DialTypeOK, DialCall, DialReturn
<1>2. (\A f \in Families : RacerOK(f))'
  <2>1. \A f \in Families : racerPc'[f] \in {"off", "resolve"}
    BY <1>0 DEF DialInv, DialTypeOK, Alone, DialCall
  <2>. QED
    BY <1>0, <2>1 DEF DialInv, RacerOK, Alone
<1>3. CallOK'
  <2>1. CASE dialPc' = "returned"
    BY <1>0, <2>1 DEF CallOK, Alone, DialCall
  <2>2. CASE dialPc' = "single"
    BY <1>0, <2>2 DEF CallOK, Alone, DialCall, DialReturn
  <2>3. CASE dialPc' = "waiting"
    BY <1>0, <2>3 DEF CallOK, Racing, DialCall, DialReturn
  <2>. QED
    BY <2>1, <2>2, <2>3 DEF DialCall, DialReturn
<1>4. DialSafe'
  <2>1. \/ dialPc' # "returned"
        \/ /\ dialRet' = [conn |-> NoConn, error |-> "address"]
           /\ dialNet' = "invalid" \/ dialHost' = "noport"
    BY DEF DialCall, DialReturn
  <2>. QED
    BY <1>0, <2>1 DEF DialSafe, NoConnLeaks, FailsOnlyIfBothFail, WinnerStaysOpen, ErrorTellsMost
<1>. QED
  BY <1>1, <1>2, <1>3, <1>4 DEF DialInv

\* A dial over one family: its connection is the caller's, or there is none.
LEMMA DialSingleStep == DialInv /\ DialSingle => DialInv'
<1>. SUFFICES ASSUME DialInv, DialSingle PROVE DialInv'
  OBVIOUS
<1>0. /\ dialPc = "single" /\ dialPc' = "returned" /\ Alone /\ Alone'
      /\ open = {} /\ dialNet \in Families
      /\ UNCHANGED <<dialNet, dialHost, dialSeen, racerPc, racerResult>>
  BY DEF DialInv, CallOK, Alone, DialSingle, DialReturn
<1>1. PICK e \in {"none", "version", "notfound", "dial"} :
        \/ dialRet' = [conn |-> NoConn, error |-> e] /\ open' = {}
        \/ dialRet' = [conn |-> dialNet, error |-> "none"] /\ open' = {dialNet}
  BY <1>0, LookupType DEF DialSingle, DialReturn
<1>2. DialTypeOK'
  BY <1>0, <1>1 DEF DialInv, DialTypeOK
<1>3. CallOK'
  BY <1>0 DEF CallOK
<1>4. (\A f \in Families : RacerOK(f))'
  BY <1>0 DEF DialInv, RacerOK, Alone
<1>5. dialNet' # "dual"
  BY <1>0 DEF Families
<1>6. NoConnLeaks' /\ WinnerStaysOpen'
  BY <1>0, <1>1 DEF NoConnLeaks, WinnerStaysOpen
<1>7. DialSafe'
  BY <1>5, <1>6 DEF DialSafe, FailsOnlyIfBothFail, ErrorTellsMost
<1>. QED
  BY <1>2, <1>3, <1>4, <1>7 DEF DialInv

-----------------------------------------------------------------------------
\* While a racer runs, the call is a race, and if the caller has returned, it
\* was with the connection of the other racer, which is over.
LEMMA RacerRuns ==
  ASSUME DialInv, NEW f \in Families, racerPc[f] \notin {"off", "ended"}
  PROVE  /\ Racing
         /\ dialPc \in {"waiting", "returned"}
         /\ dialPc = "returned" =>
              /\ dialRet.conn \in Families \ {f} /\ dialRet.error = "none"
              /\ racerPc[dialRet.conn] = "ended"
<1>1. Racing /\ dialPc \in {"waiting", "returned"}
  BY DEF DialInv, DialTypeOK, CallOK, Alone
<1>2. ASSUME dialPc = "returned"
      PROVE  dialRet.conn # NoConn
  BY <1>1, <1>2 DEF DialInv, DialSafe, FailsOnlyIfBothFail, Racing
<1>3. dialRet.conn \in Families \cup {NoConn}
  BY DEF DialInv, DialTypeOK
<1>. QED
  BY <1>1, <1>2, <1>3 DEF DialInv, CallOK, Alone

\* The lookup of a racer tells only that racer.
LEMMA RacerResolveStep ==
  ASSUME DialInv, NEW f \in Families, RacerResolve(f)
  PROVE  DialInv'
<1>. USE DEF DialInv
<1>0. /\ racerPc[f] = "resolve"
      /\ UNCHANGED <<dialNet, dialHost, dialPc, dialRet, dialSeen, open>>
      /\ racerPc \in [Families -> {"off", "resolve", "dial", "handover", "ended"}]
      /\ racerResult \in [Families -> Result]
  BY DEF RacerResolve, DialTypeOK
<1>1. PICK e \in Lookup(dialHost, f) :
        /\ racerResult' = [racerResult EXCEPT ![f].error = e, ![f].resolved = (e = "none")]
        /\ racerPc' = [racerPc EXCEPT ![f] = IF e = "none" THEN "dial" ELSE "handover"]
  BY Zenon DEF RacerResolve
<1>. e \in {"none", "version", "notfound"}
  BY LookupType
<1>2. /\ racerResult'[f].error = e /\ racerResult'[f].resolved = (e = "none")
      /\ racerResult'[f].conn = FALSE /\ racerResult'[f].done
      /\ racerPc'[f] = IF e = "none" THEN "dial" ELSE "handover"
      /\ \A g \in Families \ {f} : racerResult'[g] = racerResult[g] /\ racerPc'[g] = racerPc[g]
  BY <1>0, <1>1 DEF Result, RacerOK
<1>3. racerResult' \in [Families -> Result]
  BY <1>0, <1>1 DEF Result
<1>4. DialTypeOK'
  BY <1>0, <1>1, <1>3 DEF DialTypeOK
<1>5. (\A g \in Families : RacerOK(g))'
  BY <1>0, <1>1, <1>2 DEF RacerOK
<1>6. CallOK'
  BY <1>0, <1>1, <1>2, RacerRuns DEF CallOK, Racing
<1>7. DialSafe'
  <2>1. f \notin open /\ open \subseteq Families
    BY <1>0, RacerRuns DEF DialSafe, NoConnLeaks, DialTypeOK
  <2>2. NoConnLeaks' /\ WinnerStaysOpen'
    BY <1>0, <1>2, <2>1 DEF DialSafe, NoConnLeaks, WinnerStaysOpen
  <2>3. FailsOnlyIfBothFail' /\ ErrorTellsMost'
    BY <1>0, RacerRuns DEF FailsOnlyIfBothFail, ErrorTellsMost, NoConn, Families
  <2>. QED
    BY <2>2, <2>3 DEF DialSafe
<1>. QED
  BY <1>4, <1>5, <1>6, <1>7

\* A connection that a racer makes is its own until it is handed over.
LEMMA RacerDialStep ==
  ASSUME DialInv, NEW f \in Families, RacerDial(f)
  PROVE  DialInv'
<1>. USE DEF DialInv
<1>0. /\ racerPc[f] = "dial" /\ racerPc' = [racerPc EXCEPT ![f] = "handover"]
      /\ UNCHANGED <<dialNet, dialHost, dialPc, dialRet, dialSeen>>
      /\ racerPc \in [Families -> {"off", "resolve", "dial", "handover", "ended"}]
      /\ racerResult \in [Families -> Result]
  BY DEF RacerDial, DialTypeOK
<1>1. /\ racerPc'[f] = "handover"
      /\ \A g \in Families \ {f} : racerResult'[g] = racerResult[g] /\ racerPc'[g] = racerPc[g]
      /\ racerResult'[f].done /\ racerResult'[f].resolved
      /\ open \subseteq open' /\ open' \subseteq open \cup {f}
  BY <1>0 DEF RacerDial, RacerOK, Result
<1>2. \/ racerResult'[f].conn /\ racerResult'[f].error = "none" /\ f \in open'
      \/ ~racerResult'[f].conn /\ racerResult'[f].error = "dial" /\ open' = open
  BY <1>0 DEF RacerDial, RacerOK, Result
<1>3. racerResult' \in [Families -> Result]
  <2>1. /\ [racerResult[f] EXCEPT !.conn = TRUE] \in Result
        /\ [racerResult[f] EXCEPT !.error = "dial"] \in Result
    BY <1>0 DEF Result
  <2>. QED
    BY <1>0, <2>1 DEF RacerDial
<1>4. DialTypeOK'
  BY <1>0, <1>1, <1>3 DEF DialTypeOK
<1>5. (\A g \in Families : RacerOK(g))'
  BY <1>0, <1>1, <1>2 DEF RacerOK
<1>6. CallOK'
  BY <1>0, <1>1, RacerRuns DEF CallOK, Racing
<1>7. DialSafe'
  <2>1. f \notin open /\ open \subseteq Families
    BY <1>0, RacerRuns DEF DialSafe, NoConnLeaks, DialTypeOK
  <2>2. NoConnLeaks' /\ WinnerStaysOpen'
    BY <1>0, <1>1, <1>2, <2>1 DEF DialSafe, NoConnLeaks, WinnerStaysOpen
  <2>3. FailsOnlyIfBothFail' /\ ErrorTellsMost'
    BY <1>0, RacerRuns DEF FailsOnlyIfBothFail, ErrorTellsMost, NoConn, Families
  <2>. QED
    BY <2>2, <2>3 DEF DialSafe
<1>. QED
  BY <1>4, <1>5, <1>6, <1>7

-----------------------------------------------------------------------------
\* The error of two failures is that of a family that had an address, if any.
LEMMA ErrorOfTellsMost ==
  ASSUME NEW seen \in [Families -> Result],
         \A f \in Families : seen[f].resolved <=> seen[f].error \in {"none", "dial"},
         ErrorOf(seen) \in {"version", "notfound"}
  PROVE  \A f \in Families : ~seen[f].resolved
BY DEF ErrorOf, Families

\* The caller takes the result: a connection ends the race, an error does when
\* it is the second.
LEMMA RacerHandoverStep ==
  ASSUME DialInv, NEW f \in Families, RacerHandover(f)
  PROVE  DialInv'
<1>. USE DEF DialInv
<1>0. /\ racerPc[f] = "handover" /\ dialPc = "waiting"
      /\ racerPc' = [racerPc EXCEPT ![f] = "ended"]
      /\ UNCHANGED <<dialNet, dialHost, racerResult, open>>
      /\ racerPc \in [Families -> {"off", "resolve", "dial", "handover", "ended"}]
      /\ racerResult \in [Families -> Result] /\ dialSeen \in [Families -> Result]
      /\ Racing
  BY RacerRuns DEF RacerHandover, DialTypeOK
<1>1. racerPc'[f] = "ended" /\ \A g \in Families \ {f} : racerPc'[g] = racerPc[g]
  BY <1>0
<1>2. (\A g \in Families : RacerOK(g))'
  BY <1>0, <1>1 DEF RacerOK
<1>3. Racing'
  BY <1>0, <1>1 DEF Racing
<1>4. CASE racerResult[f].error = "none"
  <2>1. /\ dialPc' = "returned" /\ dialRet' = [conn |-> f, error |-> "none"]
        /\ dialSeen' = dialSeen /\ f # NoConn /\ racerResult[f].conn /\ f \in open
    BY <1>0, <1>4 DEF RacerHandover, DialReturn, RacerOK, NoConn, Families
  <2>2. DialTypeOK'
    BY <1>0, <2>1 DEF DialTypeOK
  <2>3. CallOK'
    BY <1>1, <1>3, <2>1 DEF CallOK
  <2>4. NoConnLeaks'
    BY <1>0, <1>1, <2>1 DEF DialSafe, NoConnLeaks
  <2>5. DialSafe'
    BY <1>0, <2>1, <2>4 DEF DialSafe, FailsOnlyIfBothFail, WinnerStaysOpen, ErrorTellsMost
  <2>. QED
    BY <1>2, <2>2, <2>3, <2>5
<1>5. CASE racerResult[f].error # "none"
  <2>1. /\ dialSeen' = [dialSeen EXCEPT ![f] = racerResult[f]]
        /\ ~racerResult[f].conn /\ racerResult[f].done
        /\ dialSeen' \in [Families -> Result]
    BY <1>0, <1>5 DEF RacerHandover, RacerOK
  <2>2. \A g \in Families : racerPc'[g] = "ended" =>
          dialSeen'[g] = racerResult[g] /\ ~racerResult[g].conn
    BY <1>0, <1>1, <2>1 DEF CallOK
  <2>3. \A g \in Families : dialSeen'[g].done => racerPc'[g] = "ended"
    BY <1>0, <1>1, <2>1 DEF CallOK
  <2>4. CASE \A g \in Families : dialSeen'[g].done
    <3>1. dialPc' = "returned" /\ dialRet' = [conn |-> NoConn, error |-> ErrorOf(dialSeen')]
      BY <1>5, <2>4 DEF RacerHandover, DialReturn
    <3>2. \A g \in Families : racerPc'[g] = "ended" /\ dialSeen'[g] = racerResult[g]
                              /\ ~racerResult[g].conn
      BY <2>2, <2>3, <2>4
    <3>3. ErrorOf(dialSeen') \in {"none", "version", "notfound", "dial"}
      BY <2>1 DEF ErrorOf, Result, Families
    <3>4. DialTypeOK'
      BY <1>0, <2>1, <3>1, <3>3 DEF DialTypeOK
    <3>5. CallOK'
      BY <1>3, <3>1 DEF CallOK
    <3>6. NoConnLeaks'
      BY <1>0, <3>2 DEF DialSafe, NoConnLeaks
    <3>7. ErrorTellsMost'
      <4>1. \A g \in Families : dialSeen'[g].resolved <=> dialSeen'[g].error \in {"none", "dial"}
        BY <1>0, <1>2, <3>2 DEF RacerOK
      <4>. QED
        BY <1>0, <2>1, <3>1, <3>2, <4>1, ErrorOfTellsMost DEF ErrorTellsMost
    <3>8. FailsOnlyIfBothFail' /\ WinnerStaysOpen'
      BY <1>0, <3>1, <3>2 DEF FailsOnlyIfBothFail, WinnerStaysOpen
    <3>. QED
      BY <1>2, <3>4, <3>5, <3>6, <3>7, <3>8 DEF DialSafe
  <2>5. CASE ~\A g \in Families : dialSeen'[g].done
    <3>1. dialPc' = "waiting" /\ dialRet' = dialRet
      BY <1>0, <1>5, <2>5 DEF RacerHandover
    <3>2. DialTypeOK'
      BY <1>0, <2>1, <3>1 DEF DialTypeOK
    <3>3. CallOK'
      BY <1>0, <1>3, <2>2, <2>3, <3>1 DEF CallOK
    <3>4. NoConnLeaks'
      BY <1>0, <1>1, <2>1, <3>1 DEF DialSafe, NoConnLeaks
    <3>. QED
      BY <1>2, <3>1, <3>2, <3>3, <3>4
      DEF DialSafe, FailsOnlyIfBothFail, WinnerStaysOpen, ErrorTellsMost
  <2>. QED
    BY <2>4, <2>5
<1>. QED
  BY <1>4, <1>5

\* The loser closes its own connection, which is not the caller's.
LEMMA RacerDiscardStep ==
  ASSUME DialInv, NEW f \in Families, RacerDiscard(f)
  PROVE  DialInv'
<1>. USE DEF DialInv
<1>0. /\ racerPc[f] = "handover" /\ dialPc = "returned"
      /\ racerPc' = [racerPc EXCEPT ![f] = "ended"] /\ open' = open \ {f}
      /\ UNCHANGED <<dialNet, dialHost, dialPc, dialRet, dialSeen, racerResult>>
      /\ racerPc \in [Families -> {"off", "resolve", "dial", "handover", "ended"}]
      /\ Racing /\ dialRet.conn \in Families \ {f} /\ dialRet.error = "none"
      /\ racerPc[dialRet.conn] = "ended" /\ dialRet.conn # NoConn
  BY RacerRuns DEF RacerDiscard, DialTypeOK, Families, NoConn
<1>1. racerPc'[f] = "ended" /\ \A g \in Families \ {f} : racerPc'[g] = racerPc[g]
  BY <1>0
<1>2. DialTypeOK'
  BY <1>0 DEF DialTypeOK
<1>3. (\A g \in Families : RacerOK(g))'
  BY <1>0, <1>1 DEF RacerOK
<1>4. CallOK'
  BY <1>0, <1>1 DEF CallOK, Racing
<1>5. DialSafe'
  BY <1>0, <1>1 DEF DialSafe, NoConnLeaks, FailsOnlyIfBothFail, WinnerStaysOpen, ErrorTellsMost
<1>. QED
  BY <1>2, <1>3, <1>4, <1>5

LEMMA DialStutter == DialInv /\ UNCHANGED dialVars => DialInv'
BY DEF DialInv, DialTypeOK, DialSafe, NoConnLeaks, FailsOnlyIfBothFail, WinnerStaysOpen,
       ErrorTellsMost, CallOK, Alone, Racing, RacerOK, dialVars

\* dualStackDialContext leaks no connection and gives away none that a racer
\* closes, reports a failure only when both families failed, and then with the
\* error of one that had an address.
THEOREM DialIsSafe == DialSpec => []DialSafe
<1>1. DialInv /\ [DialNext]_dialVars => DialInv'
  BY DialCallStep, DialSingleStep, RacerResolveStep, RacerDialStep, RacerHandoverStep,
     RacerDiscardStep, DialStutter DEF DialNext, Racer
<1>2. DialInv => DialSafe
  BY DEF DialInv
<1>. QED
  BY DialInitInd, <1>1, <1>2, PTL DEF DialSpec

-----------------------------------------------------------------------------
\* XrayDialer.

LEMMA XrayInitInd == XrayInit => XrayInv
BY OwnerAssumption DEF XrayInit, XrayInv, XrayTypeOK, XraySafe, Users, Owner, Ended

\* Nobody dials while the mutex is free: every dial holds it.
LEMMA FreeMeansNoDial ==
  ASSUME XrayInv, mutex = "free"
  PROVE  \A u \in Users : user[u] # "dial"
BY OwnerAssumption DEF XrayInv, XraySafe, Users

-----------------------------------------------------------------------------
\* A new instance has no user yet.
LEMMA NewDialerStep == XrayInv /\ NewDialer => XrayInv'
<1>. SUFFICES ASSUME XrayInv, NewDialer PROVE XrayInv'
  OBVIOUS
<1>1. XrayTypeOK'
  BY DEF XrayInv, XrayTypeOK, NewDialer
<1>2. XraySafe' /\ (user[Owner] # "dial")'
  BY DEF XrayInv, XraySafe, NewDialer
<1>. QED
  BY <1>1, <1>2 DEF XrayInv

LEMMA BeginStep ==
  ASSUME XrayInv, NEW u \in Users, Begin(u)
  PROVE  XrayInv'
<1>1. XrayTypeOK'
  BY DEF XrayInv, XrayTypeOK, Begin
<1>2. \A v \in Users : user'[v] = "dial" <=> user[v] = "dial"
  BY DEF XrayInv, XrayTypeOK, Begin
<1>3. XraySafe' /\ (user[Owner] # "dial")'
  BY <1>2 DEF XrayInv, XrayTypeOK, XraySafe, Begin, Users
<1>. QED
  BY <1>1, <1>3 DEF XrayInv

\* A dial starts only with the mutex and an instance that is still held.
LEMMA DialLockStep ==
  ASSUME XrayInv, NEW u \in Users, DialLock(u)
  PROVE  XrayInv'
<1>0. u \in XThreads /\ \A v \in Users : user[v] # "dial"
  BY FreeMeansNoDial DEF DialLock, Users
<1>1. XrayTypeOK'
  BY <1>0 DEF XrayInv, XrayTypeOK, DialLock, Ended
<1>2. (user[Owner] # "dial")'
  BY DEF XrayInv, XrayTypeOK, DialLock, Users
<1>3. CASE mutex' = u
  <2>1. held /\ user' = [user EXCEPT ![u] = "dial"]
    BY <1>0, <1>3, OwnerAssumption DEF DialLock
  <2>2. XraySafe'
    BY <1>0, <1>3, <2>1 DEF XrayInv, XrayTypeOK, XraySafe, DialLock, Users
  <2>. QED
    BY <1>1, <1>2, <2>2 DEF XrayInv
<1>4. CASE mutex' = "free"
  <2>1. \A v \in Users : user'[v] # "dial"
    BY <1>0, <1>4, OwnerAssumption DEF XrayInv, XrayTypeOK, DialLock
  <2>2. XraySafe'
    BY <1>4, <2>1 DEF XrayInv, XraySafe, DialLock, Users
  <2>. QED
    BY <1>1, <1>2, <2>2 DEF XrayInv
<1>. QED
  BY <1>3, <1>4 DEF DialLock

\* The dial that ends is the only one, because it had the mutex.
LEMMA CoreDialStep ==
  ASSUME XrayInv, NEW u \in Users, CoreDial(u)
  PROVE  XrayInv'
<1>1. u \in XThreads /\ mutex = u
  BY DEF XrayInv, XraySafe, CoreDial, Users
<1>2. XrayTypeOK'
  BY DEF XrayInv, XrayTypeOK, CoreDial, Ended
<1>3. \A v \in XThreads : user'[v] # "dial"
  BY <1>1 DEF XrayInv, XrayTypeOK, XraySafe, CoreDial, Users
<1>4. (user[Owner] # "dial")'
  BY <1>1, OwnerAssumption DEF XrayInv, XrayTypeOK, CoreDial, Users
<1>5. XraySafe'
  BY <1>3 DEF XrayInv, XraySafe, CoreDial
<1>. QED
  BY <1>2, <1>4, <1>5 DEF XrayInv

\* Close has the mutex, so no dial is under way.
LEMMA CloseLockStep == XrayInv /\ CloseLock => XrayInv'
<1>. SUFFICES ASSUME XrayInv, CloseLock PROVE XrayInv'
  OBVIOUS
<1>0. \A v \in Users : user[v] # "dial"
  BY FreeMeansNoDial DEF CloseLock
<1>1. XrayTypeOK'
  BY DEF XrayInv, XrayTypeOK, CloseLock, Ended
<1>2. \A v \in Users : user'[v] # "dial"
  BY <1>0 DEF XrayInv, XrayTypeOK, CloseLock
<1>3. XraySafe' /\ (user[Owner] # "dial")'
  BY <1>2 DEF XrayInv, XrayTypeOK, XraySafe, CloseLock, Users
<1>. QED
  BY <1>1, <1>3 DEF XrayInv

LEMMA CloseAgainStep == XrayInv /\ CloseAgain => XrayInv'
<1>. SUFFICES ASSUME XrayInv, CloseAgain PROVE XrayInv'
  OBVIOUS
<1>1. XrayTypeOK'
  BY DEF XrayInv, XrayTypeOK, CloseAgain
<1>2. \A v \in Users : user'[v] = "dial" <=> user[v] = "dial"
  BY DEF XrayInv, XrayTypeOK, CloseAgain
<1>3. XraySafe' /\ (user[Owner] # "dial")'
  BY <1>2 DEF XrayInv, XrayTypeOK, XraySafe, CloseAgain, Users
<1>. QED
  BY <1>1, <1>3 DEF XrayInv

LEMMA XrayStutter == XrayInv /\ UNCHANGED xrayVars => XrayInv'
BY DEF XrayInv, XrayTypeOK, XraySafe, xrayVars

\* Nobody dials through an instance that has been closed: DialContext holds
\* d.mu for the whole dial and Close takes it, so the two never overlap, and
\* d.instance is dropped exactly when the instance is closed.
THEOREM XrayDialSafe == XraySpec => []XraySafe
<1>1. XrayInv /\ [XrayNext]_xrayVars => XrayInv'
  BY NewDialerStep, BeginStep, DialLockStep, CoreDialStep, CloseLockStep, CloseAgainStep,
     XrayStutter DEF XrayNext
<1>2. XrayInv => XraySafe
  BY DEF XrayInv
<1>. QED
  BY XrayInitInd, <1>1, <1>2, PTL DEF XraySpec

-----------------------------------------------------------------------------
\* Dns.

BatchType ==
  [pc : {"off", "on"}, asked : SUBSET NameServers, failed : SUBSET NameServers,
   won : Answers \cup {NoAnswer}, timeout : BOOLEAN]
AskerType == [pc : {"off", "lookup", "fetch", "waiting", "done"}, msg : Answers \cup {NoAnswer}]
CallType ==
  [pc : {"idle", "waiting", "returned"}, kind : {"A", "AAAA", "IP"}, host : DnsHosts,
   result : {"none", "ip", "error", "notfound"}]

LEMMA DnsTypes ==
  ASSUME DnsInv
  PROVE  /\ servers \in DnsConfigs /\ refreshing \subseteq Questions
         /\ \A g \in Groups : servers[g] \subseteq NameServers
         /\ dnsCall \in [DnsCallers -> CallType] /\ asker \in [Askers -> AskerType]
         /\ cached \in [Questions -> [hit : BOOLEAN, msg : Answers \cup {NoAnswer}, old : BOOLEAN]]
         /\ flight \in [Questions -> [on : BOOLEAN, waiters : SUBSET Askers]]
         /\ batch \in [Questions -> [Groups -> BatchType]]
<1>1. servers \in DnsConfigs
  BY DEF DnsInv, DnsTypeOK
<1>2. \A g \in Groups : servers[g] \subseteq NameServers
  BY <1>1 DEF NameServers
<1>. QED
  BY <1>1, <1>2, Zenon DEF DnsInv, DnsTypeOK, CallType, AskerType, BatchType

LEMMA DnsInitInd == DnsInit => DnsInv
<1>. SUFFICES ASSUME DnsInit PROVE DnsInv
  OBVIOUS
<1>. USE DEF DnsInit
<1>1. DnsTypeOK
  <2>1. NoCall \in CallType /\ AskerOff \in AskerType /\ BatchOff \in BatchType
        /\ NotCached \in [hit : BOOLEAN, msg : Answers \cup {NoAnswer}, old : BOOLEAN]
        /\ [on |-> FALSE, waiters |-> {}] \in [on : BOOLEAN, waiters : SUBSET Askers]
    BY DEF NoCall, CallType, AskerOff, AskerType, BatchOff, BatchType, NotCached, DnsHosts, Answers,
           NoAnswer
  <2>2. /\ dnsCall \in [DnsCallers -> CallType] /\ asker \in [Askers -> AskerType]
        /\ cached \in [Questions -> [hit : BOOLEAN, msg : Answers \cup {NoAnswer}, old : BOOLEAN]]
        /\ flight \in [Questions -> [on : BOOLEAN, waiters : SUBSET Askers]]
        /\ batch \in [Questions -> [Groups -> BatchType]]
    BY <2>1
  <2>. QED
    BY <2>2, Zenon DEF DnsTypeOK, CallType, AskerType, BatchType
<1>2. StillAsked /\ WaitersWait
  BY DEF StillAsked, WaitersWait, BatchOff, AskerOff
<1>3. OneCallEach /\ EitherFamilyWill
  BY DEF OneCallEach, EitherFamilyWill, NoCall, AskerOff, Askers
<1>. QED
  BY <1>1, <1>2, <1>3 DEF DnsInv

\* A caller calls: its askers start from nothing.
LEMMA ResolveStep ==
  ASSUME DnsInv, NEW c \in DnsCallers, NEW call \in DnsCalls[c], DnsResolve(c, call.kind, call.host)
  PROVE  DnsInv'
<1>0. UNCHANGED <<servers, cached, refreshing, flight, batch>>
  BY DEF DnsResolve
<1>1. call.kind \in {"A", "AAAA", "IP"} /\ call.host \in DnsHosts
  BY DnsAssumption DEF DnsHosts
<1>2. PICK new \in CallType :
        /\ dnsCall' = [dnsCall EXCEPT ![c] = new] /\ new.pc = "waiting" /\ new.result = "none"
  <2>1. PICK new : new = [pc |-> "waiting", kind |-> call.kind, host |-> call.host, result |-> "none"]
    OBVIOUS
  <2>2. new \in CallType /\ new.pc = "waiting" /\ new.result = "none"
    BY <1>1, <2>1 DEF CallType
  <2>. QED
    BY <2>1, <2>2 DEF DnsResolve
<1>3. \A q \in Questions : asker[<<c, q>>].pc = "off"
  BY DEF DnsResolve, DnsInv, OneCallEach
<1>4. \A a \in Askers : a = <<a[1], a[2]>> /\ a[1] \in DnsCallers /\ a[2] \in Questions
  BY DEF Askers
<1>5. \A a \in Askers :
        /\ (asker'[a] \in AskerType /\ asker'[a].pc # "waiting") \/ asker'[a] = asker[a]
        /\ a[1] # c => asker'[a] = asker[a]
        /\ a[1] = c => asker[a].pc # "waiting" /\ asker'[a].pc # "waiting"
  <2>. SUFFICES ASSUME NEW a \in Askers
                PROVE  /\ (asker'[a] \in AskerType /\ asker'[a].pc # "waiting") \/ asker'[a] = asker[a]
                       /\ a[1] # c => asker'[a] = asker[a]
                       /\ a[1] = c => asker[a].pc # "waiting" /\ asker'[a].pc # "waiting"
    OBVIOUS
  <2>1. asker[a] \in AskerType /\ (a[1] = c => asker[a].pc = "off")
    BY <1>3, <1>4, DnsTypes
  <2>2. [asker[a] EXCEPT !.pc = "lookup"] \in AskerType /\ [asker[a] EXCEPT !.pc = "lookup"].pc = "lookup"
    BY <2>1 DEF AskerType
  <2>3. /\ Got(Literal(call.host, a[2])) \in AskerType
        /\ Got(Literal(call.host, a[2])).pc = "done"
    BY DEF Got, Literal, AskerType, Answers, NoAnswer
  <2>. QED
    BY <2>1, <2>2, <2>3 DEF DnsResolve
<1>6. DnsTypeOK'
  <2>1. asker' \in [Askers -> AskerType]
    BY <1>5, DnsTypes DEF DnsResolve
  <2>2. dnsCall' \in [DnsCallers -> CallType]
    BY <1>2, DnsTypes
  <2>. QED
    BY <1>0, <2>1, <2>2, Zenon DEF DnsInv, DnsTypeOK, CallType, AskerType
<1>7. StillAsked'
  BY <1>0 DEF DnsInv, StillAsked
<1>8. WaitersWait'
  <2>1. \A a \in Askers : asker'[a].pc = "waiting" <=> asker[a].pc = "waiting"
    BY <1>5
  <2>. QED
    BY <1>0, <2>1 DEF DnsInv, WaitersWait
<1>a. ASSUME NEW d \in DnsCallers, d # c
      PROVE  dnsCall'[d] = dnsCall[d] /\ \A q \in Questions : asker'[<<d, q>>] = asker[<<d, q>>]
  <2>1. dnsCall'[d] = dnsCall[d]
    BY <1>2, <1>a, DnsTypes
  <2>2. \A q \in Questions : <<d, q>> \in Askers /\ <<d, q>>[1] # c
    BY <1>a DEF Askers
  <2>. QED
    BY <1>5, <2>1, <2>2
<1>9. OneCallEach'
  <2>1. dnsCall'[c] = new
    BY <1>2, DnsTypes
  <2>. QED
    BY <1>2, <1>a, <2>1 DEF DnsInv, OneCallEach
<1>10. EitherFamilyWill'
  <2>1. dnsCall'[c].result = "none"
    BY <1>2, DnsTypes
  <2>. QED
    BY <1>a, <2>1 DEF DnsInv, EitherFamilyWill
<1>. QED
  BY <1>6, <1>7, <1>8, <1>9, <1>10 DEF DnsInv

\* An asker that has not its message moves on, without waiting for an exchange.
LEMMA ExchangeStep ==
  ASSUME DnsInv, NEW a \in Askers, DnsExchange(a)
  PROVE  DnsInv'
<1>. USE DEF DnsExchange
<1>1. asker[a].pc = "lookup" /\ a[2] \in Questions /\ a = <<a[1], a[2]>> /\ a[1] \in DnsCallers
  BY DEF Askers
<1>2. PICK new \in AskerType : asker' = [asker EXCEPT ![a] = new] /\ new.pc \in {"fetch", "done"}
  <2>1. CASE asker' = [asker EXCEPT ![a] = Got(cached[a[2]].msg)]
    <3>1. Got(cached[a[2]].msg) \in AskerType /\ Got(cached[a[2]].msg).pc = "done"
      BY <1>1, DnsTypes DEF Got, AskerType
    <3>. QED
      BY <2>1, <3>1
  <2>2. CASE asker' = [asker EXCEPT ![a].pc = "fetch"]
    <3>1. [asker[a] EXCEPT !.pc = "fetch"] \in AskerType /\ [asker[a] EXCEPT !.pc = "fetch"].pc = "fetch"
      BY DnsTypes DEF AskerType
    <3>2. asker' = [asker EXCEPT ![a] = [asker[a] EXCEPT !.pc = "fetch"]]
      BY <2>2, DnsTypes
    <3>. QED
      BY <3>1, <3>2
  <2>. QED
    BY <2>1, <2>2
<1>3. refreshing' \subseteq Questions
  BY <1>1, DnsTypes
<1>4. asker' \in [Askers -> AskerType] /\ \A b \in Askers : asker'[b] = IF b = a THEN new ELSE asker[b]
  BY <1>2, DnsTypes
<1>5. DnsTypeOK'
  BY <1>3, <1>4, Zenon DEF DnsInv, DnsTypeOK, AskerType
<1>6. StillAsked' /\ WaitersWait'
  BY <1>1, <1>2, <1>4 DEF DnsInv, StillAsked, WaitersWait
<1>7. OneCallEach' /\ EitherFamilyWill'
  BY <1>1, <1>2, <1>4 DEF DnsInv, OneCallEach, EitherFamilyWill, Askers
<1>. QED
  BY <1>5, <1>6, <1>7 DEF DnsInv

\* An exchange is joined, or begun with every server of each group asked.
LEMMA JoinStep ==
  ASSUME DnsInv, NEW q \in Questions, NEW W \in SUBSET Askers, Join(q, W), UNCHANGED servers
  PROVE  /\ flight' \in [Questions -> [on : BOOLEAN, waiters : SUBSET Askers]]
         /\ flight'[q].on /\ flight'[q].waiters = flight[q].waiters \cup W
         /\ \A r \in Questions : r # q => flight'[r] = flight[r]
         /\ batch' \in [Questions -> [Groups -> BatchType]] /\ StillAsked'
<1>1. PICK new \in [on : BOOLEAN, waiters : SUBSET Askers] :
        flight' = [flight EXCEPT ![q] = new] /\ new.on /\ new.waiters = flight[q].waiters \cup W
  <2>1. PICK new : new = [on |-> TRUE, waiters |-> flight[q].waiters \cup W]
    OBVIOUS
  <2>2. flight[q].waiters \cup W \in SUBSET Askers
    BY DnsTypes
  <2>3. new \in [on : BOOLEAN, waiters : SUBSET Askers] /\ new.on /\ new.waiters = flight[q].waiters \cup W
    BY <2>1, <2>2, Zenon
  <2>4. flight' = [flight EXCEPT ![q] = new]
    BY <2>1, DnsTypes DEF Join
  <2>. QED
    BY <2>3, <2>4
<1>2. /\ flight' \in [Questions -> [on : BOOLEAN, waiters : SUBSET Askers]]
      /\ flight'[q] = new /\ \A r \in Questions : r # q => flight'[r] = flight[r]
  BY <1>1, DnsTypes
<1>3. CASE flight[q].on
  BY <1>1, <1>2, <1>3, DnsTypes DEF Join, DnsInv, StillAsked
<1>4. CASE ~flight[q].on
  <2>1. PICK begun : begun = [g \in Groups |->
                       IF servers[g] = {} THEN BatchOff
                       ELSE [BatchOff EXCEPT !.pc = "on", !.asked = servers[g]]]
    OBVIOUS
  <2>2. batch' = [batch EXCEPT ![q] = begun]
    BY <1>4, <2>1 DEF Join
  <2>3. \A g \in Groups :
          /\ begun[g] \in BatchType
          /\ begun[g].pc = "on" => begun[g].asked \cup begun[g].failed = servers[g]
    <3>. SUFFICES ASSUME NEW g \in Groups
                  PROVE  /\ begun[g] \in BatchType
                         /\ begun[g].pc = "on" => begun[g].asked \cup begun[g].failed = servers[g]
      OBVIOUS
    <3>1. begun[g] = [pc |-> "off", asked |-> {}, failed |-> {}, won |-> NoAnswer, timeout |-> FALSE]
          \/ begun[g] = [pc |-> "on", asked |-> servers[g], failed |-> {}, won |-> NoAnswer, timeout |-> FALSE]
      BY <2>1 DEF BatchOff
    <3>2. servers[g] \in SUBSET NameServers
      BY DnsTypes
    <3>3. begun[g] \in BatchType
      <4>1. [pc |-> "off", asked |-> {}, failed |-> {}, won |-> NoAnswer, timeout |-> FALSE] \in BatchType
        BY DEF BatchType
      <4>2. [pc |-> "on", asked |-> servers[g], failed |-> {}, won |-> NoAnswer, timeout |-> FALSE] \in BatchType
        BY <3>2 DEF BatchType
      <4>. QED
        BY <3>1, <4>1, <4>2
    <3>4. begun[g].pc = "on" => begun[g].asked = servers[g] /\ begun[g].failed = {}
      BY <3>1
    <3>. QED
      BY <3>3, <3>4
  <2>4. batch' \in [Questions -> [Groups -> BatchType]]
        /\ batch'[q] = begun /\ \A r \in Questions : r # q => batch'[r] = batch[r]
    BY <2>1, <2>2, <2>3, DnsTypes
  <2>5. StillAsked'
    BY <2>3, <2>4 DEF DnsInv, StillAsked
  <2>. QED
    BY <1>1, <1>2, <2>4, <2>5
<1>. QED
  BY <1>3, <1>4

LEMMA FetchStep ==
  ASSUME DnsInv, NEW a \in Askers, DnsFetch(a)
  PROVE  DnsInv'
<1>1. /\ asker[a].pc = "fetch" /\ a[2] \in Questions /\ a = <<a[1], a[2]>> /\ a[1] \in DnsCallers
      /\ asker' = [asker EXCEPT ![a].pc = "waiting"] /\ Join(a[2], {a})
      /\ UNCHANGED <<servers, dnsCall, cached, refreshing>>
  BY DEF DnsFetch, Askers
<1>2. /\ flight' \in [Questions -> [on : BOOLEAN, waiters : SUBSET Askers]]
      /\ flight'[a[2]].on /\ flight'[a[2]].waiters = flight[a[2]].waiters \cup {a}
      /\ \A r \in Questions : r # a[2] => flight'[r] = flight[r]
      /\ batch' \in [Questions -> [Groups -> BatchType]] /\ StillAsked'
  <2>1. {a} \in SUBSET Askers
    OBVIOUS
  <2>. QED
    BY <1>1, <2>1, JoinStep
<1>3. PICK new \in AskerType : asker' = [asker EXCEPT ![a] = new] /\ new.pc = "waiting"
  <2>1. [asker[a] EXCEPT !.pc = "waiting"] \in AskerType /\ [asker[a] EXCEPT !.pc = "waiting"].pc = "waiting"
    BY DnsTypes DEF AskerType
  <2>2. asker' = [asker EXCEPT ![a] = [asker[a] EXCEPT !.pc = "waiting"]]
    BY <1>1, DnsTypes
  <2>. QED
    BY <2>1, <2>2
<1>4. asker' \in [Askers -> AskerType] /\ \A b \in Askers : asker'[b] = IF b = a THEN new ELSE asker[b]
  BY <1>3, DnsTypes
<1>5. DnsTypeOK'
  BY <1>1, <1>2, <1>4, Zenon DEF DnsInv, DnsTypeOK, AskerType, BatchType
<1>6. WaitersWait'
  <2>1. ASSUME NEW r \in Questions, NEW b \in Askers
        PROVE  b \in flight'[r].waiters <=> asker'[b].pc = "waiting" /\ b[2] = r
    <3>1. b \in flight[r].waiters <=> asker[b].pc = "waiting" /\ b[2] = r
      BY DEF DnsInv, WaitersWait
    <3>2. CASE b = a
      BY <1>1, <1>2, <1>3, <1>4, <3>1, <3>2
    <3>3. CASE b # a
      BY <1>1, <1>2, <1>4, <3>1, <3>3
    <3>. QED
      BY <3>2, <3>3
  <2>2. \A r \in Questions : flight'[r].waiters # {} => flight'[r].on
    BY <1>1, <1>2 DEF DnsInv, WaitersWait
  <2>. QED
    BY <2>1, <2>2 DEF WaitersWait
<1>7. OneCallEach' /\ EitherFamilyWill'
  BY <1>1, <1>3, <1>4 DEF DnsInv, OneCallEach, EitherFamilyWill, Askers
<1>. QED
  BY <1>2, <1>5, <1>6, <1>7 DEF DnsInv

LEMMA RefreshStep ==
  ASSUME DnsInv, NEW q \in Questions, DnsRefresh(q)
  PROVE  DnsInv'
<1>1. UNCHANGED <<servers, dnsCall, asker, cached>> /\ refreshing' = refreshing \ {q} /\ Join(q, {})
  BY DEF DnsRefresh
<1>2. /\ flight' \in [Questions -> [on : BOOLEAN, waiters : SUBSET Askers]]
      /\ flight'[q].on /\ flight'[q].waiters = flight[q].waiters
      /\ \A r \in Questions : r # q => flight'[r] = flight[r]
      /\ batch' \in [Questions -> [Groups -> BatchType]] /\ StillAsked'
  <2>1. {} \in SUBSET Askers /\ flight[q].waiters \cup {} = flight[q].waiters
    OBVIOUS
  <2>. QED
    BY <1>1, <2>1, JoinStep, Zenon
<1>3. DnsTypeOK'
  <2>1. refreshing' \subseteq Questions
    BY <1>1, DnsTypes
  <2>. QED
    BY <1>1, <1>2, <2>1, Zenon DEF DnsInv, DnsTypeOK, BatchType
<1>4. WaitersWait'
  <2>1. \A r \in Questions : flight'[r].waiters = flight[r].waiters /\ (flight[r].on => flight'[r].on)
    BY <1>2
  <2>. QED
    BY <1>1, <2>1 DEF DnsInv, WaitersWait
<1>5. OneCallEach' /\ EitherFamilyWill'
  BY <1>1 DEF DnsInv, OneCallEach, EitherFamilyWill
<1>. QED
  BY <1>2, <1>3, <1>4, <1>5 DEF DnsInv

\* A server answers or fails, or the picker's context ends.
LEMMA PickerStep ==
  ASSUME DnsInv, NEW q \in Questions, NEW g \in Groups,
         PickerDone(q, g) \/ \E s \in servers[g] : ServerAnswers(q, g, s)
  PROVE  DnsInv'
<1>1. UNCHANGED <<servers, dnsCall, asker, cached, refreshing, flight>>
  BY DEF PickerDone, ServerAnswers
<1>2. PICK b \in BatchType : b = batch[q][g]
  BY DnsTypes
<1>3. b.pc = "on" /\ b.won = NoAnswer /\ ~b.timeout => b.asked \cup b.failed = servers[g]
  BY <1>2 DEF DnsInv, StillAsked
<1>4. PICK new \in BatchType :
        /\ batch' = [batch EXCEPT ![q][g] = new]
        /\ new.pc = "on" /\ new.won = NoAnswer /\ ~new.timeout => new.asked \cup new.failed = servers[g]
  <2>1. CASE PickerDone(q, g)
    <3>1. PICK new : new = PickerEnds(b)
      OBVIOUS
    <3>2. new \in BatchType
      BY <3>1, Zenon DEF PickerEnds, BatchType
    <3>3. new.won = b.won /\ new.timeout = (b.won = NoAnswer)
      BY <3>1, Zenon DEF PickerEnds, BatchType
    <3>4. batch' = [batch EXCEPT ![q][g] = new]
      BY <1>2, <2>1, <3>1, DnsTypes DEF PickerDone
    <3>. QED
      BY <3>2, <3>3, <3>4
  <2>2. ASSUME NEW s \in servers[g], NEW msg \in Answers,
               batch' = [batch EXCEPT ![q][g] = PickerTakes(@, s, msg)]
        PROVE  \E new \in BatchType :
                 /\ batch' = [batch EXCEPT ![q][g] = new]
                 /\ new.pc = "on" /\ new.won = NoAnswer /\ ~new.timeout => new.asked \cup new.failed = servers[g]
    <3>1. PICK new : new = PickerTakes(b, s, msg)
      OBVIOUS
    <3>2. new \in BatchType /\ new.won # NoAnswer
      BY <3>1 DEF PickerTakes, BatchType, Answers, NoAnswer
    <3>3. batch' = [batch EXCEPT ![q][g] = new]
      BY <1>2, <2>2, <3>1, DnsTypes
    <3>. QED
      BY <3>2, <3>3
  <2>3. ASSUME NEW s \in servers[g], batch' = [batch EXCEPT ![q][g] = PickerFails(@, s)]
        PROVE  \E new \in BatchType :
                 /\ batch' = [batch EXCEPT ![q][g] = new]
                 /\ new.pc = "on" /\ new.won = NoAnswer /\ ~new.timeout => new.asked \cup new.failed = servers[g]
    <3>1. PICK new : new = PickerFails(b, s)
      OBVIOUS
    <3>2. s \in NameServers
      BY DnsTypes
    <3>3. /\ new \in BatchType /\ new.pc = b.pc /\ new.won = b.won /\ new.timeout = b.timeout
          /\ new.asked = b.asked \ {s} /\ new.failed = b.failed \cup {s}
      BY <3>1, <3>2 DEF PickerFails, BatchType
    <3>4. batch' = [batch EXCEPT ![q][g] = new]
      BY <1>2, <2>3, <3>1, DnsTypes
    <3>. QED
      BY <1>3, <3>3, <3>4
  <2>. QED
    BY <2>1, <2>2, <2>3 DEF ServerAnswers
<1>5. /\ batch' \in [Questions -> [Groups -> BatchType]]
      /\ batch'[q][g] = new
      /\ \A r \in Questions, h \in Groups : r # q \/ h # g => batch'[r][h] = batch[r][h]
  BY <1>4, DnsTypes
<1>6. DnsTypeOK'
  BY <1>1, <1>5, Zenon DEF DnsInv, DnsTypeOK, BatchType
<1>7. StillAsked'
  BY <1>1, <1>4, <1>5 DEF DnsInv, StillAsked
<1>8. WaitersWait' /\ OneCallEach' /\ EitherFamilyWill'
  BY <1>1 DEF DnsInv, WaitersWait, OneCallEach, EitherFamilyWill
<1>. QED
  BY <1>6, <1>7, <1>8 DEF DnsInv

\* The exchange ends: its waiters, and nobody else, get its message.
LEMMA FlightEndStep ==
  ASSUME DnsInv, NEW q \in Questions, FlightEnd(q)
  PROVE  DnsInv'
<1>1. PICK msg : msg = FlightResult(q)
  OBVIOUS
<1>2. /\ cached' = [cached EXCEPT ![q] = Put(@, msg)]
      /\ asker' = [a \in Askers |-> IF a \in flight[q].waiters THEN Got(msg) ELSE asker[a]]
      /\ flight' = [flight EXCEPT ![q] = [on |-> FALSE, waiters |-> {}]]
      /\ batch' = [batch EXCEPT ![q] = [g \in Groups |-> BatchOff]]
      /\ UNCHANGED <<servers, dnsCall, refreshing>>
  BY <1>1 DEF FlightEnd
<1>3. msg \in Answers \cup {NoAnswer}
  BY <1>1, DnsTypes DEF FlightResult, BatchType, Groups
<1>4. /\ asker' \in [Askers -> AskerType]
      /\ \A a \in Askers : IF a \in flight[q].waiters THEN asker'[a].pc = "done" ELSE asker'[a] = asker[a]
  BY <1>2, <1>3, DnsTypes DEF Got, AskerType
<1>5. /\ flight' \in [Questions -> [on : BOOLEAN, waiters : SUBSET Askers]]
      /\ flight'[q].waiters = {} /\ \A r \in Questions : r # q => flight'[r] = flight[r]
  <2>1. [on |-> FALSE, waiters |-> {}] \in [on : BOOLEAN, waiters : SUBSET Askers]
    BY Zenon
  <2>. QED
    BY <1>2, <2>1, DnsTypes
<1>6. /\ batch' \in [Questions -> [Groups -> BatchType]]
      /\ \A g \in Groups : batch'[q][g].pc = "off"
      /\ \A r \in Questions : r # q => batch'[r] = batch[r]
  <2>1. BatchOff \in BatchType /\ BatchOff.pc = "off"
    BY DEF BatchOff, BatchType
  <2>. QED
    BY <1>2, <2>1, DnsTypes
<1>7. cached' \in [Questions -> [hit : BOOLEAN, msg : Answers \cup {NoAnswer}, old : BOOLEAN]]
  <2>1. PICK entry \in [hit : BOOLEAN, msg : Answers \cup {NoAnswer}, old : BOOLEAN] :
          cached' = [cached EXCEPT ![q] = entry]
    <3>1. Put(cached[q], msg) \in [hit : BOOLEAN, msg : Answers \cup {NoAnswer}, old : BOOLEAN]
      BY <1>3, DnsTypes DEF Put
    <3>. QED
      BY <1>2, <3>1
  <2>. QED
    BY <2>1, DnsTypes
<1>8. DnsTypeOK'
  BY <1>2, <1>4, <1>5, <1>6, <1>7, Zenon DEF DnsInv, DnsTypeOK, AskerType, BatchType
<1>9. StillAsked'
  BY <1>2, <1>6 DEF DnsInv, StillAsked
<1>10. WaitersWait'
  BY <1>4, <1>5 DEF DnsInv, WaitersWait
<1>11. \A a \in Askers : a \in flight[q].waiters => asker[a].pc = "waiting"
  BY DEF DnsInv, WaitersWait
<1>12. OneCallEach' /\ EitherFamilyWill'
  <2>1. \A c \in DnsCallers, r \in Questions :
          asker[<<c, r>>].pc \in {"off", "done"} => asker'[<<c, r>>] = asker[<<c, r>>]
    BY <1>4, <1>11 DEF Askers
  <2>2. dnsCall' = dnsCall
    BY <1>2
  <2>3. OneCallEach'
    BY <2>1, <2>2 DEF DnsInv, OneCallEach
  <2>4. EitherFamilyWill'
    BY <2>1, <2>2 DEF DnsInv, EitherFamilyWill
  <2>. QED
    BY <2>3, <2>4
<1>. QED
  BY <1>8, <1>9, <1>10, <1>12 DEF DnsInv

LEMMA ReturnStep ==
  ASSUME DnsInv, NEW c \in DnsCallers, DnsReturn(c)
  PROVE  DnsInv'
<1>1. UNCHANGED <<servers, asker, cached, refreshing, flight, batch>>
  BY DEF DnsReturn
<1>2. PICK call \in CallType : call = dnsCall[c] /\ call.pc = "waiting"
  BY DnsTypes DEF DnsReturn
<1>3. PICK r \in {"ip", "error", "notfound"} :
        /\ dnsCall' = [dnsCall EXCEPT ![c].pc = "returned", ![c].result = r]
        /\ call.kind = "IP" /\ r # "ip" =>
             \A q \in Questions : asker[<<c, q>>].pc = "done" /\ Outcome(asker[<<c, q>>].msg) # "ip"
  <2>1. PICK first : first = <<c, IF call.kind = "IP" THEN "A" ELSE call.kind>>
    OBVIOUS
  <2>2. \A msg : Outcome(msg) \in {"ip", "error", "notfound"}
    BY DEF Outcome
  <2>3. asker[first].pc = "done"
    BY <1>2, <2>1 DEF DnsReturn
  <2>4. CASE /\ call.kind # "IP" \/ Outcome(asker[first].msg) = "ip"
             /\ dnsCall' = [dnsCall EXCEPT ![c].pc = "returned", ![c].result = Outcome(asker[first].msg)]
    BY <2>2, <2>4
  <2>5. CASE /\ call.kind = "IP" /\ Outcome(asker[first].msg) # "ip" /\ asker[<<c, "AAAA">>].pc = "done"
             /\ dnsCall' = [dnsCall EXCEPT ![c].pc = "returned", ![c].result =
                              IF Outcome(asker[<<c, "AAAA">>].msg) = "ip" THEN "ip" ELSE "notfound"]
    <3>1. first = <<c, "A">>
      BY <2>1, <2>5
    <3>. QED
      BY <2>3, <2>5, <3>1 DEF Questions
  <2>. QED
    BY <1>2, <2>1, <2>4, <2>5 DEF DnsReturn
<1>4. PICK new \in CallType :
        /\ dnsCall' = [dnsCall EXCEPT ![c] = new]
        /\ new.pc = "returned" /\ new.result = r /\ new.kind = call.kind
  <2>1. PICK new : new = [call EXCEPT !.pc = "returned", !.result = r]
    OBVIOUS
  <2>2. new \in CallType /\ new.pc = "returned" /\ new.result = r /\ new.kind = call.kind
    BY <2>1 DEF CallType
  <2>. QED
    BY <1>2, <1>3, <2>1, <2>2, DnsTypes
<1>5. dnsCall' \in [DnsCallers -> CallType]
      /\ \A d \in DnsCallers : dnsCall'[d] = IF d = c THEN new ELSE dnsCall[d]
  BY <1>4, DnsTypes
<1>6. DnsTypeOK'
  BY <1>1, <1>5, Zenon DEF DnsInv, DnsTypeOK, CallType
<1>7. StillAsked' /\ WaitersWait'
  BY <1>1 DEF DnsInv, StillAsked, WaitersWait
<1>8. OneCallEach'
  BY <1>1, <1>4, <1>5 DEF DnsInv, OneCallEach
<1>9. EitherFamilyWill'
  <2>1. ASSUME NEW d \in DnsCallers, dnsCall'[d].kind = "IP", dnsCall'[d].result \in {"error", "notfound"},
               NEW q \in Questions
        PROVE  asker[<<d, q>>].pc = "done" /\ Outcome(asker[<<d, q>>].msg) # "ip"
    <3>1. CASE d = c
      BY <1>3, <1>4, <1>5, <2>1, <3>1
    <3>2. CASE d # c
      BY <1>5, <2>1, <3>2 DEF DnsInv, EitherFamilyWill
    <3>. QED
      BY <3>1, <3>2
  <2>. QED
    BY <1>1, <2>1 DEF EitherFamilyWill
<1>. QED
  BY <1>6, <1>7, <1>8, <1>9 DEF DnsInv

LEMMA ExpireStep ==
  ASSUME DnsInv, NEW q \in Questions, DnsExpire(q)
  PROVE  DnsInv'
<1>1. UNCHANGED <<servers, dnsCall, asker, refreshing, flight, batch>>
  BY DEF DnsExpire
<1>2. cached' \in [Questions -> [hit : BOOLEAN, msg : Answers \cup {NoAnswer}, old : BOOLEAN]]
  BY DnsTypes DEF DnsExpire
<1>3. DnsTypeOK'
  BY <1>1, <1>2, Zenon DEF DnsInv, DnsTypeOK
<1>. QED
  BY <1>1, <1>3 DEF DnsInv, StillAsked, WaitersWait, OneCallEach, EitherFamilyWill

LEMMA DnsStep == DnsInv /\ [DnsNext]_dnsVars => DnsInv'
<1>. SUFFICES ASSUME DnsInv, [DnsNext]_dnsVars PROVE DnsInv'
  OBVIOUS
<1>1. CASE DnsNext
  BY <1>1, ResolveStep, ExchangeStep, FetchStep, RefreshStep, PickerStep, FlightEndStep, ReturnStep,
     ExpireStep, Zenon DEF DnsNext
<1>2. CASE UNCHANGED dnsVars
  <2>1. UNCHANGED <<servers, dnsCall, asker, cached, refreshing, flight, batch>>
    BY <1>2 DEF dnsVars
  <2>2. DnsTypeOK'
    BY <2>1, Zenon DEF DnsInv, DnsTypeOK
  <2>. QED
    BY <2>1, <2>2 DEF DnsInv, StillAsked, WaitersWait, OneCallEach, EitherFamilyWill
<1>. QED
  BY <1>1, <1>2

\* The resolver, for any callers, servers and configuration: one server's failure
\* hides no other server's answer, nobody waits for an exchange that has ended,
\* and ResolveIP fails only when neither type has an address.
THEOREM ResolverIsSafe == DnsSpec => []DnsSafe
<1>1. DnsInv => DnsSafe
  <2>. SUFFICES ASSUME DnsInv PROVE DnsSafe
    OBVIOUS
  <2>1. FailsOnlyIfAllFail
    BY DEF DnsInv, StillAsked, FailsOnlyIfAllFail, Posted
  <2>2. NobodyForgotten
    <3>1. \A a \in Askers : a[2] \in Questions
      BY DEF Askers
    <3>. QED
      BY <3>1 DEF DnsInv, WaitersWait, NobodyForgotten
  <2>. QED
    BY <2>1, <2>2 DEF DnsInv, DnsSafe
<1>. QED
  BY DnsInitInd, DnsStep, <1>1, PTL DEF DnsSpec

-----------------------------------------------------------------------------
\* Dns implements Resolver.

LEMMA HistoryInitInd == HistoryInit => HistoryInv /\ Promised!Init
<1>. SUFFICES ASSUME HistoryInit PROVE HistoryInv /\ Promised!Init
  OBVIOUS
<1>. USE DEF HistoryInit, DnsInit
<1>1. InCache = {} /\ \A q \in Questions : Posts(q) = {}
  BY DEF InCache, Posts, Posted, NotCached, BatchOff
<1>2. \A c \in DnsCallers : dnsCall[c].pc = "idle" /\ knew[c] = {}
  BY DEF NoCall
<1>3. HistoryInv
  BY <1>1, <1>2 DEF HistoryInv, HeardTypeOK, PostsHeard, CacheHeard, KnewStays, LiteralsAlone, NamesHeard
<1>4. resolverCall = [c \in DnsCallers |-> Promised!NoCall]
  BY <1>2 DEF resolverCall, NoCall, Promised!NoCall
<1>. QED
  BY <1>1, <1>3, <1>4 DEF Promised!Init, Questions, Promised!Questions

\* What is heard is only added to; a step after which the groups have come to
\* nothing new adds nothing.
LEMMA HeardGrows ==
  ASSUME HistoryInv, Remember, \A q \in Questions : Posts(q)' \subseteq Answers \cup {NoAnswer}
  PROVE  /\ heard' \in [Questions -> SUBSET (Answers \cup {NoAnswer})]
         /\ PostsHeard'
         /\ \A q \in Questions : heard[q] \subseteq heard'[q] /\ heard'[q] = heard[q] \cup Posts(q)'
  BY Zenon DEF HistoryInv, HeardTypeOK, PostsHeard, Remember

LEMMA NothingNew ==
  ASSUME HistoryInv, Remember, \A q \in Questions : Posts(q)' \subseteq heard[q]
  PROVE  heard' = heard /\ PostsHeard'
<1>1. \A q \in Questions : heard[q] \cup Posts(q)' = heard[q]
  OBVIOUS
<1>2. heard' = heard
  BY <1>1 DEF HistoryInv, HeardTypeOK, Remember
<1>. QED
  BY <1>2 DEF PostsHeard

LEMMA NoneBegins ==
  ASSUME HistoryInv, Remember,
         \A c \in DnsCallers : dnsCall[c].pc = "idle" <=> dnsCall'[c].pc = "idle"
  PROVE  knew' = knew
  BY DEF HistoryInv, HeardTypeOK, Remember

LEMMA SameCalls == UNCHANGED <<dnsCall, knew>> => UNCHANGED resolverCall
  BY DEF resolverCall

LEMMA SamePosts == ASSUME HistoryInv, UNCHANGED batch PROVE \A q \in Questions : Posts(q)' \subseteq heard[q]
  BY DEF HistoryInv, PostsHeard, Posts, Posted
\* A step that leaves the calls alone keeps the invariant if the cache holds what
\* was heard and grows, and each asker that moved got what was heard.
LEMMA HistoryFrame ==
  ASSUME HistoryInv, Remember, UNCHANGED <<dnsCall, heard>>, PostsHeard', CacheHeard',
         InCache \subseteq InCache',
         \A c \in DnsCallers, q \in Questions :
           \/ asker'[<<c, q>>] = asker[<<c, q>>]
           \/ /\ dnsCall[c].host = "name"
              /\ asker'[<<c, q>>].pc = "done" => asker'[<<c, q>>].msg \in heard[q]
              /\ q \in knew[c] => /\ asker'[<<c, q>>].pc \notin {"fetch", "waiting"}
                                  /\ asker'[<<c, q>>].pc = "done" => asker'[<<c, q>>].msg \in {"addr", "none"}
  PROVE  HistoryInv' /\ knew' = knew
<1>1. knew' = knew
  BY NoneBegins
<1>2. HeardTypeOK' /\ KnewStays'
  BY <1>1 DEF HistoryInv, HeardTypeOK, KnewStays
<1>3. LiteralsAlone'
  <2>. SUFFICES ASSUME NEW c \in DnsCallers, NEW q \in Questions, dnsCall[c].pc # "idle",
                       dnsCall[c].host # "name"
                PROVE  asker'[<<c, q>>].pc = "off" \/ asker'[<<c, q>>] = Got(Literal(dnsCall[c].host, q))
    BY DEF LiteralsAlone
  <2>1. asker'[<<c, q>>] = asker[<<c, q>>]
    OBVIOUS
  <2>. QED
    BY <2>1, Zenon DEF HistoryInv, LiteralsAlone
<1>4. NamesHeard'
  <2>. SUFFICES ASSUME NEW c \in DnsCallers, NEW q \in Questions, dnsCall[c].pc # "idle",
                       dnsCall[c].host = "name"
                PROVE  /\ asker'[<<c, q>>].pc = "done" => asker'[<<c, q>>].msg \in heard[q]
                       /\ q \in knew[c] =>
                            /\ asker'[<<c, q>>].pc \notin {"fetch", "waiting"}
                            /\ asker'[<<c, q>>].pc = "done" => asker'[<<c, q>>].msg \in {"addr", "none"}
    BY <1>1 DEF NamesHeard
  <2>. QED
    BY DEF HistoryInv, NamesHeard
<1>. QED
  BY <1>1, <1>2, <1>3, <1>4 DEF HistoryInv

LEMMA Unseen == UNCHANGED <<heard, dnsCall, knew, InCache>> => UNCHANGED Promised!vars
  BY SameCalls DEF Promised!vars

\* An asker that is under way asks for a name, in a call that has begun.
LEMMA AskersOfNames ==
  ASSUME DnsInv, HistoryInv, NEW a \in Askers, asker[a].pc \in {"lookup", "fetch", "waiting"}
  PROVE  /\ a[1] \in DnsCallers /\ a[2] \in Questions /\ a = <<a[1], a[2]>>
         /\ dnsCall[a[1]].pc # "idle" /\ dnsCall[a[1]].host = "name"
         /\ a[2] \in knew[a[1]] => asker[a].pc = "lookup"
<1>1. a[1] \in DnsCallers /\ a[2] \in Questions /\ a = <<a[1], a[2]>>
  BY DEF Askers
<1>2. dnsCall[a[1]].pc # "idle"
  BY <1>1 DEF DnsInv, OneCallEach
<1>3. PICK c \in DnsCallers, q \in Questions : a = <<c, q>> /\ c = a[1] /\ q = a[2]
  BY <1>1
<1>4. dnsCall[c].host = "name"
  <2>1. \A host : Got(Literal(host, q)).pc = "done"
    BY DEF Got
  <2>. QED
    BY <1>2, <1>3, <2>1 DEF HistoryInv, LiteralsAlone
<1>. QED
  BY <1>1, <1>2, <1>3, <1>4 DEF HistoryInv, NamesHeard

\* A caller calls: what is in the cache is known to its call.
LEMMA HistoryResolve ==
  ASSUME DnsInv, HistoryInv, Remember, NEW c \in DnsCallers, NEW call \in DnsCalls[c],
         DnsResolve(c, call.kind, call.host)
  PROVE  HistoryInv' /\ Promised!Begin(c, call.kind, call.host)
<1>0. UNCHANGED <<servers, cached, refreshing, flight, batch>> /\ InCache' = InCache
  BY DEF DnsResolve, InCache
<1>1. heard' = heard /\ PostsHeard'
  BY <1>0, SamePosts, NothingNew
<1>2. PICK new : new = [pc |-> "waiting", kind |-> call.kind, host |-> call.host, result |-> "none"]
  OBVIOUS
<1>3. /\ dnsCall[c].pc = "idle" /\ dnsCall'[c] = new
      /\ \A d \in DnsCallers : d # c => dnsCall'[d] = dnsCall[d]
  BY <1>2, DnsTypes DEF DnsResolve
<1>4. \A d \in DnsCallers : knew'[d] = IF d = c THEN InCache ELSE knew[d]
  BY <1>2, <1>3 DEF Remember
<1>5. knew' \in [DnsCallers -> SUBSET Questions]
  BY <1>4 DEF Remember, HistoryInv, HeardTypeOK, InCache
<1>6. \A d \in DnsCallers, q \in Questions :
        /\ d # c => asker'[<<d, q>>] = asker[<<d, q>>]
        /\ call.host = "name" => asker'[<<c, q>>].pc \in {"off", "lookup"}
        /\ call.host # "name" => asker'[<<c, q>>].pc = "off" \/ asker'[<<c, q>>] = Got(Literal(call.host, q))
  <2>. SUFFICES ASSUME NEW d \in DnsCallers, NEW q \in Questions
                PROVE  /\ d # c => asker'[<<d, q>>] = asker[<<d, q>>]
                       /\ call.host = "name" => asker'[<<c, q>>].pc \in {"off", "lookup"}
                       /\ call.host # "name" => \/ asker'[<<c, q>>].pc = "off"
                                                \/ asker'[<<c, q>>] = Got(Literal(call.host, q))
    OBVIOUS
  <2>1. <<d, q>> \in Askers /\ <<c, q>> \in Askers
    BY DEF Askers
  <2>2. asker[<<c, q>>].pc = "off" /\ asker[<<c, q>>] \in AskerType
    BY <1>3, <2>1, DnsTypes DEF DnsInv, OneCallEach
  <2>3. [asker[<<c, q>>] EXCEPT !.pc = "lookup"].pc = "lookup"
    BY <2>2 DEF AskerType
  <2>4. d # c => asker'[<<d, q>>] = asker[<<d, q>>]
    BY <2>1 DEF DnsResolve
  <2>5. \/ asker'[<<c, q>>] = asker[<<c, q>>]
        \/ call.host = "name" /\ asker'[<<c, q>>] = [asker[<<c, q>>] EXCEPT !.pc = "lookup"]
        \/ call.host # "name" /\ asker'[<<c, q>>] = Got(Literal(call.host, q))
    BY <2>1 DEF DnsResolve
  <2>. QED
    BY <2>2, <2>3, <2>4, <2>5
<1>7. new.pc = "waiting" /\ new.host = call.host
  BY <1>2
<1>8. LiteralsAlone'
  BY <1>3, <1>6, <1>7 DEF HistoryInv, LiteralsAlone
<1>9. NamesHeard'
  <2>. SUFFICES ASSUME NEW d \in DnsCallers, NEW q \in Questions, dnsCall'[d].pc # "idle",
                       dnsCall'[d].host = "name"
                PROVE  /\ asker'[<<d, q>>].pc = "done" => asker'[<<d, q>>].msg \in heard[q]
                       /\ q \in knew'[d] =>
                            /\ asker'[<<d, q>>].pc \notin {"fetch", "waiting"}
                            /\ asker'[<<d, q>>].pc = "done" => asker'[<<d, q>>].msg \in {"addr", "none"}
    BY <1>1, Zenon DEF NamesHeard
  <2>1. CASE d = c
    BY <1>3, <1>6, <1>7, <2>1
  <2>2. CASE d # c
    <3>1. dnsCall'[d] = dnsCall[d] /\ knew'[d] = knew[d] /\ asker'[<<d, q>>] = asker[<<d, q>>]
      BY <1>3, <1>4, <1>6, <2>2
    <3>. QED
      BY <3>1 DEF HistoryInv, NamesHeard
  <2>. QED
    BY <2>1, <2>2
<1>10. HeardTypeOK' /\ CacheHeard' /\ KnewStays'
  BY <1>0, <1>1, <1>4, <1>5 DEF HistoryInv, HeardTypeOK, CacheHeard, KnewStays
<1>11. HistoryInv'
  BY <1>1, <1>3, <1>4, <1>7, <1>8, <1>9, <1>10 DEF HistoryInv
<1>12. Promised!Begin(c, call.kind, call.host)
  <2>1. resolverCall[c].pc = "idle"
    BY <1>3 DEF resolverCall
  <2>2. PICK shown : shown = [pc |-> "waiting", kind |-> call.kind, host |-> call.host,
                              knew |-> InCache, result |-> "none"]
    OBVIOUS
  <2>3. resolverCall'[c] = shown
    BY <1>2, <1>3, <1>4, <2>2 DEF resolverCall
  <2>4. \A d \in DnsCallers : d # c => resolverCall'[d] = resolverCall[d]
    BY <1>3, <1>4 DEF resolverCall
  <2>5. resolverCall' = [resolverCall EXCEPT ![c] = shown]
    BY <2>3, <2>4 DEF resolverCall
  <2>. QED
    BY <1>0, <1>1, <2>1, <2>2, <2>5 DEF Promised!Begin
<1>. QED
  BY <1>11, <1>12
\* An asker takes what is cached, or finds that nothing is: its question was not
\* known then when its call began.
LEMMA HistoryExchange ==
  ASSUME DnsInv, HistoryInv, Remember, NEW a \in Askers, DnsExchange(a)
  PROVE  HistoryInv' /\ UNCHANGED Promised!vars
<1>0. UNCHANGED <<servers, dnsCall, cached, flight, batch>> /\ InCache' = InCache
  BY DEF DnsExchange, InCache
<1>1. heard' = heard /\ PostsHeard' /\ CacheHeard'
  BY <1>0, SamePosts, NothingNew DEF HistoryInv, CacheHeard
<1>2. PICK c \in DnsCallers, q \in Questions : a = <<c, q>> /\ c = a[1] /\ q = a[2]
  BY DEF Askers
<1>3. asker[a].pc = "lookup" /\ dnsCall[c].host = "name"
  BY <1>2, AskersOfNames DEF DnsExchange
<1>4. /\ asker'[a].pc = "done" => asker'[a].msg \in heard[q]
      /\ q \in knew[c] => /\ asker'[a].pc \notin {"fetch", "waiting"}
                          /\ asker'[a].pc = "done" => asker'[a].msg \in {"addr", "none"}
  <2>1. CASE cached[q].hit
    <3>1. asker'[a] = Got(cached[q].msg)
      BY <1>2, <2>1, DnsTypes DEF DnsExchange
    <3>2. cached[q].msg \in heard[q] \cap {"addr", "none"}
      BY <2>1 DEF HistoryInv, CacheHeard, InCache
    <3>. QED
      BY <3>1, <3>2 DEF Got
  <2>2. CASE ~cached[q].hit
    <3>1. asker'[a].pc = "fetch"
      BY <1>2, <2>2, DnsTypes DEF DnsExchange, AskerType
    <3>2. q \notin knew[c]
      BY <2>2 DEF HistoryInv, KnewStays, InCache
    <3>. QED
      BY <3>1, <3>2
  <2>. QED
    BY <2>1, <2>2
<1>5. \A b \in Askers : b # a => asker'[b] = asker[b]
  BY DnsTypes DEF DnsExchange
<1>6. HistoryInv' /\ knew' = knew
  <2>1. \A d \in DnsCallers, r \in Questions : <<d, r>> \in Askers /\ (<<d, r>> = a => d = c /\ r = q)
    BY <1>2 DEF Askers
  <2>. QED
    BY <1>0, <1>1, <1>2, <1>3, <1>4, <1>5, <2>1, HistoryFrame
<1>. QED
  BY <1>0, <1>1, <1>6, Unseen

\* Who joins an exchange or begins it hears nothing yet.
LEMMA JoinHears ==
  ASSUME DnsInv, HistoryInv, Remember, NEW q \in Questions, NEW W \in SUBSET Askers, Join(q, W),
         UNCHANGED <<servers, cached>>
  PROVE  heard' = heard /\ PostsHeard' /\ InCache' = InCache /\ CacheHeard'
<1>1. \A r \in Questions, g \in Groups : Posted(batch'[r][g]) => batch'[r][g] = batch[r][g]
  <2>1. CASE flight[q].on
    BY <2>1 DEF Join
  <2>2. CASE ~flight[q].on
    <3>1. \A r \in Questions : r # q => batch'[r] = batch[r]
      BY <2>2, DnsTypes DEF Join
    <3>2. ASSUME NEW g \in Groups PROVE ~Posted(batch'[q][g])
      <4>1. batch'[q][g] = IF servers[g] = {} THEN BatchOff
                           ELSE [BatchOff EXCEPT !.pc = "on", !.asked = servers[g]]
        BY <2>2, DnsTypes DEF Join
      <4>. QED
        BY <4>1 DEF BatchOff, Posted
    <3>. QED
      BY <3>1, <3>2
  <2>. QED
    BY <2>1, <2>2
<1>2. \A r \in Questions : Posts(r)' \subseteq Posts(r)
  <2>. SUFFICES ASSUME NEW r \in Questions, NEW g \in Groups, Posted(batch'[r][g])
                PROVE  batch'[r][g].won \in Posts(r)
    BY DEF Posts
  <2>. QED
    BY <1>1 DEF Posts
<1>3. heard' = heard /\ PostsHeard'
  BY <1>2, NothingNew DEF HistoryInv, PostsHeard
<1>4. InCache' = InCache
  BY DEF InCache
<1>. QED
  BY <1>3, <1>4 DEF HistoryInv, CacheHeard

LEMMA HistoryFetch ==
  ASSUME DnsInv, HistoryInv, Remember, NEW a \in Askers, DnsFetch(a)
  PROVE  HistoryInv' /\ UNCHANGED Promised!vars
<1>1. PICK c \in DnsCallers, q \in Questions : a = <<c, q>> /\ c = a[1] /\ q = a[2]
  BY DEF Askers
<1>2. asker[a].pc = "fetch" /\ dnsCall[c].host = "name" /\ q \notin knew[c]
  BY <1>1, AskersOfNames DEF DnsFetch
<1>3. UNCHANGED <<servers, dnsCall, cached>> /\ Join(q, {a}) /\ {a} \in SUBSET Askers
  BY <1>1 DEF DnsFetch
<1>4. heard' = heard /\ PostsHeard' /\ InCache' = InCache /\ CacheHeard'
  BY <1>3, JoinHears
<1>5. asker'[a].pc = "waiting" /\ \A b \in Askers : b # a => asker'[b] = asker[b]
  BY DnsTypes DEF DnsFetch, AskerType
<1>6. HistoryInv' /\ knew' = knew
  <2>1. \A d \in DnsCallers, r \in Questions : <<d, r>> \in Askers /\ (<<d, r>> = a => d = c /\ r = q)
    BY <1>1 DEF Askers
  <2>. QED
    BY <1>1, <1>2, <1>3, <1>4, <1>5, <2>1, HistoryFrame
<1>. QED
  BY <1>3, <1>4, <1>6, Unseen

LEMMA HistoryRefresh ==
  ASSUME DnsInv, HistoryInv, Remember, NEW q \in Questions, DnsRefresh(q)
  PROVE  HistoryInv' /\ UNCHANGED Promised!vars
<1>1. UNCHANGED <<servers, dnsCall, asker, cached>> /\ Join(q, {}) /\ {} \in SUBSET Askers
  BY DEF DnsRefresh
<1>2. heard' = heard /\ PostsHeard' /\ InCache' = InCache /\ CacheHeard'
  BY <1>1, JoinHears
<1>3. HistoryInv' /\ knew' = knew
  BY <1>1, <1>2, HistoryFrame
<1>. QED
  BY <1>1, <1>2, <1>3, Unseen

LEMMA HistoryExpire ==
  ASSUME DnsInv, HistoryInv, Remember, NEW q \in Questions, DnsExpire(q)
  PROVE  HistoryInv' /\ UNCHANGED Promised!vars
<1>1. UNCHANGED <<dnsCall, asker, batch>>
  BY DEF DnsExpire
<1>2. \A r \in Questions : cached'[r].hit = cached[r].hit /\ cached'[r].msg = cached[r].msg
  BY DnsTypes DEF DnsExpire
<1>3. InCache' = InCache
  BY <1>2 DEF InCache
<1>4. heard' = heard /\ PostsHeard'
  BY <1>1, SamePosts, NothingNew
<1>5. CacheHeard'
  BY <1>2, <1>3, <1>4 DEF HistoryInv, CacheHeard, InCache
<1>6. HistoryInv' /\ knew' = knew
  BY <1>1, <1>3, <1>4, <1>5, HistoryFrame
<1>. QED
  BY <1>1, <1>3, <1>4, <1>6, Unseen
\* A group that has come to its message, or to none, says it.
LEMMA HistoryPicker ==
  ASSUME DnsInv, DnsInv', HistoryInv, Remember, NEW q \in Questions, NEW g \in Groups,
         PickerDone(q, g) \/ \E s \in servers[g] : ServerAnswers(q, g, s)
  PROVE  HistoryInv' /\ [Promised!Next]_(Promised!vars)
<1>1. UNCHANGED <<dnsCall, asker, cached>> /\ InCache' = InCache
  BY DEF PickerDone, ServerAnswers, InCache
<1>2. \A r \in Questions, h \in Groups : r # q \/ h # g => batch'[r][h] = batch[r][h]
  BY DnsTypes DEF PickerDone, ServerAnswers
<1>3. batch'[q][g].won \in Answers \cup {NoAnswer}
  <2>1. batch' \in [Questions -> [Groups -> BatchType]]
    BY Zenon DEF DnsInv, DnsTypeOK, BatchType
  <2>. QED
    BY <2>1 DEF BatchType
<1>4. /\ \A r \in Questions : r # q => Posts(r)' = Posts(r)
      /\ Posts(q)' \subseteq Posts(q) \cup {batch'[q][g].won}
      /\ Posted(batch'[q][g]) => batch'[q][g].won \in Posts(q)'
      /\ ~Posted(batch'[q][g]) => Posts(q)' \subseteq Posts(q)
  <2>1. \A r \in Questions : r # q => Posts(r)' = Posts(r)
    BY <1>2 DEF Posts
  <2>2. ASSUME NEW h \in Groups, Posted(batch'[q][h])
        PROVE  batch'[q][h].won \in Posts(q) \/ h = g
    BY <1>2, <2>2 DEF Posts
  <2>. QED
    BY <2>1, <2>2 DEF Posts
<1>5. /\ \A r \in Questions : Posts(r) \subseteq heard[r] /\ heard[r] \subseteq Answers \cup {NoAnswer}
      /\ heard \in [Questions -> SUBSET (Answers \cup {NoAnswer})]
  BY DEF HistoryInv, PostsHeard, HeardTypeOK
<1>6. knew' = knew
  BY <1>1, NoneBegins
<1>7. /\ heard' \in [Questions -> SUBSET (Answers \cup {NoAnswer})] /\ PostsHeard'
      /\ \A r \in Questions : heard[r] \subseteq heard'[r] /\ heard'[r] = heard[r] \cup Posts(r)'
  <2>1. \A r \in Questions : Posts(r)' \subseteq Answers \cup {NoAnswer}
    BY <1>3, <1>4, <1>5
  <2>. QED
    BY <2>1, HeardGrows
<1>8. HistoryInv'
  <2>1. HeardTypeOK' /\ KnewStays'
    BY <1>1, <1>6, <1>7 DEF HistoryInv, HeardTypeOK, KnewStays
  <2>2. CacheHeard'
    BY <1>1, <1>7 DEF HistoryInv, CacheHeard, InCache
  <2>3. LiteralsAlone'
    BY <1>1 DEF HistoryInv, LiteralsAlone
  <2>4. NamesHeard'
    BY <1>1, <1>6, <1>7 DEF HistoryInv, NamesHeard
  <2>. QED
    BY <1>1, <1>6, <1>7, <2>1, <2>2, <2>3, <2>4 DEF HistoryInv
<1>9. UNCHANGED resolverCall
  BY <1>1, <1>6, SameCalls
<1>10. CASE Posted(batch'[q][g])
  <2>1. heard'[q] = heard[q] \cup {batch'[q][g].won}
    BY <1>4, <1>5, <1>7, <1>10
  <2>2. \A r \in Questions : r # q => heard'[r] = heard[r]
    BY <1>4, <1>5, <1>7
  <2>3. heard' = [heard EXCEPT ![q] = @ \cup {batch'[q][g].won}]
    BY <1>5, <1>7, <2>1, <2>2
  <2>4. Promised!Say(q, batch'[q][g].won)
    BY <1>1, <1>9, <2>3 DEF Promised!Say
  <2>5. q \in Promised!Questions /\ batch'[q][g].won \in Promised!Messages
    BY <1>3 DEF Questions, Promised!Questions, Promised!Messages, Answers, NoAnswer
  <2>. QED
    BY <1>8, <2>4, <2>5 DEF Promised!Next
<1>11. CASE ~Posted(batch'[q][g])
  <2>1. \A r \in Questions : Posts(r)' \subseteq heard[r]
    BY <1>4, <1>5, <1>11
  <2>2. heard' = heard
    BY <2>1, NothingNew
  <2>. QED
    BY <1>1, <1>6, <1>8, <2>2, Unseen
<1>. QED
  BY <1>10, <1>11

\* An exchange ends with what one of its groups came to; a lasting answer is known
\* from then on.
LEMMA HistoryFlightEnd ==
  ASSUME DnsInv, HistoryInv, Remember, NEW q \in Questions, FlightEnd(q)
  PROVE  HistoryInv' /\ [Promised!Next]_(Promised!vars)
<1>1. PICK msg : msg = FlightResult(q)
  OBVIOUS
<1>2. /\ cached' = [cached EXCEPT ![q] = Put(@, msg)]
      /\ asker' = [a \in Askers |-> IF a \in flight[q].waiters THEN Got(msg) ELSE asker[a]]
      /\ batch' = [batch EXCEPT ![q] = [g \in Groups |-> BatchOff]]
      /\ UNCHANGED dnsCall
  BY <1>1 DEF FlightEnd
<1>3. msg \in heard[q]
  <2>1. PICK g \in Groups : Posted(batch[q][g]) /\ msg = batch[q][g].won
    BY <1>1 DEF FlightEnd, FlightResult, Groups
  <2>. QED
    BY <2>1 DEF Posts, HistoryInv, PostsHeard
<1>4. heard' = heard /\ PostsHeard'
  <2>1. \A r \in Questions, g \in Groups : Posted(batch'[r][g]) => r # q /\ batch'[r][g] = batch[r][g]
    BY <1>2, DnsTypes DEF Posted, BatchOff
  <2>2. \A r \in Questions : Posts(r)' \subseteq Posts(r)
    <3>. SUFFICES ASSUME NEW r \in Questions, NEW g \in Groups, Posted(batch'[r][g])
                  PROVE  batch'[r][g].won \in Posts(r)
      BY DEF Posts
    <3>. QED
      BY <2>1 DEF Posts
  <2>. QED
    BY <2>2, NothingNew DEF HistoryInv, PostsHeard
<1>5. /\ \A r \in Questions : r # q => cached'[r] = cached[r]
      /\ msg \in {"addr", "none"} => cached'[q].hit /\ cached'[q].msg = msg
      /\ msg \notin {"addr", "none"} => cached' = cached
  BY <1>2, DnsTypes DEF Put
<1>6. /\ msg \in {"addr", "none"} => InCache' = InCache \cup {q}
      /\ msg \notin {"addr", "none"} => InCache' = InCache
  BY <1>5 DEF InCache
<1>7. CacheHeard' /\ InCache \subseteq InCache'
  <2>1. ASSUME NEW r \in InCache' PROVE cached'[r].msg \in heard[r] \cap {"addr", "none"}
    BY <1>3, <1>5, <1>6, <2>1 DEF HistoryInv, CacheHeard, InCache
  <2>. QED
    BY <1>4, <1>6, <2>1 DEF CacheHeard
<1>8. HistoryInv' /\ knew' = knew
  <2>1. ASSUME NEW c \in DnsCallers, NEW r \in Questions
        PROVE  \/ asker'[<<c, r>>] = asker[<<c, r>>]
               \/ /\ dnsCall[c].host = "name"
                  /\ asker'[<<c, r>>].pc = "done" => asker'[<<c, r>>].msg \in heard[r]
                  /\ r \notin knew[c]
    <3>1. <<c, r>> \in Askers
      BY DEF Askers
    <3>2. CASE <<c, r>> \in flight[q].waiters
      <4>1. asker[<<c, r>>].pc = "waiting" /\ r = q
        BY <3>1, <3>2 DEF DnsInv, WaitersWait
      <4>2. asker'[<<c, r>>].msg = msg
        BY <1>2, <3>1, <3>2 DEF Got
      <4>. QED
        BY <1>3, <3>1, <4>1, <4>2, AskersOfNames
    <3>3. CASE <<c, r>> \notin flight[q].waiters
      BY <1>2, <3>1, <3>3
    <3>. QED
      BY <3>2, <3>3
  <2>. QED
    BY <1>2, <1>4, <1>7, <2>1, HistoryFrame
<1>9. CASE msg \in {"addr", "none"}
  <2>1. Promised!Learn(q)
    BY <1>2, <1>3, <1>4, <1>6, <1>8, <1>9, SameCalls DEF Promised!Learn, Promised!Lasting
  <2>. QED
    BY <1>8, <2>1 DEF Promised!Next, Questions, Promised!Questions
<1>10. CASE msg \notin {"addr", "none"}
  BY <1>2, <1>4, <1>6, <1>8, <1>10, Unseen
<1>. QED
  BY <1>9, <1>10
\* What an asker got is a reply the call may come to.
LEMMA AskersGotReplies ==
  ASSUME HistoryInv, NEW c \in DnsCallers, NEW q \in Questions, dnsCall[c].pc # "idle",
         asker[<<c, q>>].pc = "done"
  PROVE  asker[<<c, q>>].msg \in Promised!Replies(c, q)
<1>1. resolverCall[c].host = dnsCall[c].host /\ resolverCall[c].knew = knew[c]
  BY DEF resolverCall
<1>2. CASE dnsCall[c].host # "name"
  <2>1. asker[<<c, q>>] = Got(Literal(dnsCall[c].host, q))
    BY <1>2 DEF HistoryInv, LiteralsAlone
  <2>2. asker[<<c, q>>].msg = Promised!Literal(dnsCall[c].host, q)
    BY <2>1 DEF Got, Literal, Promised!Literal, NoAnswer
  <2>. QED
    BY <1>1, <1>2, <2>2 DEF Promised!Replies
<1>3. CASE dnsCall[c].host = "name"
  BY <1>1, <1>3 DEF HistoryInv, NamesHeard, Promised!Replies, Promised!Lasting
<1>. QED
  BY <1>2, <1>3

\* A call returns what the replies to its askers come to.
LEMMA HistoryReturn ==
  ASSUME DnsInv, HistoryInv, Remember, NEW c \in DnsCallers, DnsReturn(c)
  PROVE  HistoryInv' /\ Promised!Return(c)
<1>1. UNCHANGED <<asker, cached, batch>> /\ InCache' = InCache
  BY DEF DnsReturn, InCache
<1>2. PICK call \in CallType : call = dnsCall[c] /\ call.pc = "waiting"
  BY DnsTypes DEF DnsReturn
<1>3. resolverCall[c].kind = call.kind /\ resolverCall[c].pc = "waiting"
  BY <1>2 DEF resolverCall
<1>4. \A m : Outcome(m) = Promised!Outcome(m) /\ (Outcome(m) = "ip" <=> m = "addr")
  BY DEF Outcome, Promised!Outcome
<1>5. PICK r \in Promised!Results(c) : dnsCall' = [dnsCall EXCEPT ![c].pc = "returned", ![c].result = r]
  <2>1. \A q \in Questions : asker[<<c, q>>].pc = "done" => asker[<<c, q>>].msg \in Promised!Replies(c, q)
    BY <1>2, AskersGotReplies
  <2>2. CASE /\ call.kind # "IP" /\ asker[<<c, call.kind>>].pc = "done"
             /\ dnsCall' = [dnsCall EXCEPT ![c].pc = "returned", ![c].result = Outcome(asker[<<c, call.kind>>].msg)]
    <3>1. asker[<<c, call.kind>>].msg \in Promised!Replies(c, call.kind)
      BY <2>1, <2>2 DEF CallType, Questions
    <3>2. Outcome(asker[<<c, call.kind>>].msg) \in Promised!Results(c)
      BY <1>3, <1>4, <2>2, <3>1 DEF Promised!Results
    <3>. QED
      BY <2>2, <3>2
  <2>3. CASE /\ call.kind = "IP" /\ asker[<<c, "A">>].pc = "done" /\ Outcome(asker[<<c, "A">>].msg) = "ip"
             /\ dnsCall' = [dnsCall EXCEPT ![c].pc = "returned", ![c].result = Outcome(asker[<<c, "A">>].msg)]
    <3>1. "addr" \in Promised!Replies(c, "A")
      BY <1>4, <2>1, <2>3 DEF Questions
    <3>2. "ip" \in Promised!Results(c)
      BY <1>3, <2>3, <3>1 DEF Promised!Results
    <3>. QED
      BY <2>3, <3>2
  <2>4. CASE /\ call.kind = "IP" /\ asker[<<c, "A">>].pc = "done" /\ Outcome(asker[<<c, "A">>].msg) # "ip"
             /\ asker[<<c, "AAAA">>].pc = "done"
             /\ dnsCall' = [dnsCall EXCEPT ![c].pc = "returned", ![c].result =
                              IF Outcome(asker[<<c, "AAAA">>].msg) = "ip" THEN "ip" ELSE "notfound"]
    <3>1. PICK a, aaaa : a = asker[<<c, "A">>].msg /\ aaaa = asker[<<c, "AAAA">>].msg
      OBVIOUS
    <3>2. a \in Promised!Replies(c, "A") /\ aaaa \in Promised!Replies(c, "AAAA")
      BY <2>1, <2>4, <3>1 DEF Questions
    <3>3. (IF Outcome(aaaa) = "ip" THEN "ip" ELSE "notfound") = Promised!EitherOf(a, aaaa)
      BY <1>4, <2>4, <3>1 DEF Promised!EitherOf
    <3>4. Promised!EitherOf(a, aaaa) \in Promised!Results(c)
      BY <1>3, <2>4, <3>2 DEF Promised!Results
    <3>. QED
      BY <2>4, <3>1, <3>3, <3>4
  <2>. QED
    BY <1>2, <2>2, <2>3, <2>4 DEF DnsReturn
<1>6. PICK new : new = [call EXCEPT !.pc = "returned", !.result = r]
  OBVIOUS
<1>7. /\ new.pc = "returned" /\ new.kind = call.kind /\ new.host = call.host /\ new.result = r
      /\ \A d \in DnsCallers : dnsCall'[d] = IF d = c THEN new ELSE dnsCall[d]
  BY <1>2, <1>5, <1>6, DnsTypes DEF CallType
<1>8. knew' = knew
  BY <1>2, <1>7, NoneBegins
<1>9. heard' = heard /\ PostsHeard'
  BY <1>1, SamePosts, NothingNew
<1>10. HistoryInv'
  <2>1. HeardTypeOK' /\ KnewStays' /\ CacheHeard'
    BY <1>1, <1>8, <1>9 DEF HistoryInv, HeardTypeOK, KnewStays, CacheHeard
  <2>2. \A d \in DnsCallers : dnsCall'[d].host = dnsCall[d].host
                              /\ (dnsCall'[d].pc = "idle" <=> dnsCall[d].pc = "idle")
    BY <1>2, <1>7
  <2>3. LiteralsAlone'
    BY <1>1, <2>2, Zenon DEF HistoryInv, LiteralsAlone
  <2>4. NamesHeard'
    BY <1>1, <1>8, <1>9, <2>2 DEF HistoryInv, NamesHeard
  <2>. QED
    BY <1>8, <1>9, <2>1, <2>2, <2>3, <2>4 DEF HistoryInv
<1>11. resolverCall' = [resolverCall EXCEPT ![c].pc = "returned", ![c].result = r]
  <2>1. resolverCall'[c] = [resolverCall[c] EXCEPT !.pc = "returned", !.result = r]
    <3>1. resolverCall[c] = [pc |-> call.pc, kind |-> call.kind, host |-> call.host,
                             knew |-> knew[c], result |-> call.result]
      BY <1>2, Zenon DEF resolverCall
    <3>2. resolverCall'[c] = [pc |-> "returned", kind |-> call.kind, host |-> call.host,
                              knew |-> knew[c], result |-> r]
      BY <1>7, <1>8, Zenon DEF resolverCall
    <3>3. PICK shown : shown = resolverCall[c]
      OBVIOUS
    <3>4. PICK y : y = [shown EXCEPT !.pc = "returned"]
      OBVIOUS
    <3>5. y = [pc |-> "returned", kind |-> call.kind, host |-> call.host,
               knew |-> knew[c], result |-> call.result]
      BY <3>1, <3>3, <3>4
    <3>6. [y EXCEPT !.result = r] = [pc |-> "returned", kind |-> call.kind, host |-> call.host,
                                     knew |-> knew[c], result |-> r]
      BY <3>5
    <3>7. [shown EXCEPT !.pc = "returned", !.result = r] = [y EXCEPT !.result = r]
      BY <3>4
    <3>8. [shown EXCEPT !.pc = "returned", !.result = r] = resolverCall'[c]
      BY <3>2, <3>6, <3>7, Zenon
    <3>. QED
      BY <3>3, <3>8, Zenon
  <2>2. \A d \in DnsCallers : d # c => resolverCall'[d] = resolverCall[d]
    BY <1>7, <1>8 DEF resolverCall
  <2>. QED
    BY <2>1, <2>2 DEF resolverCall
<1>. QED
  BY <1>1, <1>3, <1>5, <1>9, <1>10, <1>11 DEF Promised!Return

LEMMA HistoryStep ==
  DnsInv /\ HistoryInv /\ [HistoryNext]_historyVars => HistoryInv' /\ [Promised!Next]_(Promised!vars)
<1>. SUFFICES ASSUME DnsInv, HistoryInv, [HistoryNext]_historyVars
              PROVE  HistoryInv' /\ [Promised!Next]_(Promised!vars)
  OBVIOUS
<1>1. CASE UNCHANGED historyVars
  <2>1. UNCHANGED <<dnsCall, asker, cached, batch, heard, knew>>
    BY <1>1 DEF historyVars, dnsVars
  <2>2. InCache' = InCache /\ \A q \in Questions : Posts(q)' = Posts(q)
    BY <2>1 DEF InCache, Posts
  <2>3. HistoryInv'
    BY <2>1, <2>2, Zenon DEF HistoryInv, HeardTypeOK, PostsHeard, CacheHeard, KnewStays, LiteralsAlone, NamesHeard
  <2>. QED
    BY <2>1, <2>2, <2>3, Unseen
<1>2. CASE HistoryNext
  <2>1. DnsNext /\ Remember
    BY <1>2 DEF HistoryNext
  <2>2. DnsInv'
    BY <2>1, DnsStep
  <2>3. ASSUME NEW c \in DnsCallers, NEW call \in DnsCalls[c], DnsResolve(c, call.kind, call.host)
        PROVE  HistoryInv' /\ [Promised!Next]_(Promised!vars)
    BY <2>1, <2>3, HistoryResolve DEF Promised!Next
  <2>4. ASSUME NEW c \in DnsCallers, DnsReturn(c)
        PROVE  HistoryInv' /\ [Promised!Next]_(Promised!vars)
    BY <2>1, <2>4, HistoryReturn DEF Promised!Next
  <2>. QED
    BY <2>1, <2>2, <2>3, <2>4, HistoryExchange, HistoryFetch, HistoryRefresh, HistoryExpire,
       HistoryPicker, HistoryFlightEnd, Zenon DEF DnsNext
<1>. QED
  BY <1>1, <1>2

\* The resolver keeps the promise of Resolver, for any callers, servers and
\* configuration: a call comes to what was said of its questions, and never fails
\* for want of an answer that was in the cache when it began, however old.
THEOREM ResolverKeepsPromise == HistorySpec => ResolvesAsPromised
<1>1. HistoryInit => DnsInv
  BY DnsInitInd DEF HistoryInit
<1>2. DnsInv /\ [HistoryNext]_historyVars => DnsInv'
  BY DnsStep DEF HistoryNext, historyVars
<1>. QED
  BY HistoryInitInd, HistoryStep, <1>1, <1>2, PTL DEF HistorySpec, ResolvesAsPromised, Promised!Spec

-----------------------------------------------------------------------------
\* Links and the outbounds they become.

LEMMA LeastIndex ==
  ASSUME NEW S \in SUBSET Nat, S # {}
  PROVE  \E i \in S : \A j \in S : i <= j
<1>1. PICK x \in S : \A y \in S : ~ (<<y, x>> \in OpToRel(<, Nat))
  BY NatLessThanWellFounded, WFMin, Zenon
<1>2. \A y \in S : <<y, x>> \in Nat \X Nat /\ <<y, x>>[1] = y /\ <<y, x>>[2] = x
  OBVIOUS
<1>3. \A y \in S : ~ (y < x)
  BY <1>1, <1>2, Zenon DEF OpToRel
<1>. QED
  BY <1>3

\* The first of the keys that are given is one of them, and the first of all
\* when that is given.
FirstOf(value, keys, given) ==
  \/ value = "" /\ \A i \in 1 .. Len(keys) : keys[i] \notin given
  \/ \E i \in 1 .. Len(keys) :
       value = keys[i] /\ keys[i] \in given /\ \A j \in 1 .. (i - 1) : keys[j] \notin given

LEMMA FirstIs == ASSUME NEW l, NEW keys, Len(keys) \in Nat PROVE FirstOf(First(l, keys), keys, l.given)
<1>1. PICK I : I = {i \in 1 .. Len(keys) : keys[i] \in l.given}
  OBVIOUS
<1>2. PICK i : i = SelectInSeq(keys, LAMBDA k : k \in l.given)
  OBVIOUS
<1>3. First(l, keys) = IF i = 0 THEN "" ELSE keys[i]
  BY <1>2, Zenon DEF First
<1>4. i = IF I # {} THEN Min(I) ELSE 0
  BY <1>1, <1>2, Zenon DEF SelectInSeq
<1>5. CASE I = {}
  BY <1>1, <1>3, <1>4, <1>5 DEF FirstOf
<1>6. CASE I # {}
  <2>1. I \in SUBSET Nat
    BY <1>1
  <2>2. \E n \in I : \A m \in I : n <= m
    BY <1>6, <2>1, LeastIndex
  <2>3. PICK m : m = Min(I)
    OBVIOUS
  <2>4. m \in I /\ \A n \in I : m <= n
    BY <2>2, <2>3, Zenon DEF Min
  <2>5. m \in 1 .. Len(keys) /\ m # 0 /\ keys[m] \in l.given
    BY <1>1, <2>4
  <2>6. \A j \in 1 .. (m - 1) : keys[j] \notin l.given
    <3>. SUFFICES ASSUME NEW j \in 1 .. (m - 1), keys[j] \in l.given PROVE FALSE
      OBVIOUS
    <3>1. j \in 1 .. Len(keys) /\ ~(m <= j)
      BY <2>5
    <3>2. j \in I
      BY <1>1, <3>1, Zenon
    <3>. QED
      BY <2>4, <3>1, <3>2, Zenon
  <2>7. First(l, keys) = keys[m]
    BY <1>3, <1>4, <1>6, <2>3, <2>5, Zenon
  <2>. QED
    BY <2>5, <2>6, <2>7, Zenon DEF FirstOf
<1>. QED
  BY <1>5, <1>6

LEMMA QIs == ASSUME NEW l, NEW key PROVE Q(l, key) = IF key \in l.given THEN key ELSE ""
<1>1. PICK keys : keys = <<key>>
  OBVIOUS
<1>2. PICK value, given : value = Q(l, key) /\ given = l.given
  OBVIOUS
<1>3. Len(keys) = 1 /\ keys[1] = key
  BY <1>1
<1>4. FirstOf(value, keys, given)
  BY <1>1, <1>2, <1>3, FirstIs, Zenon DEF Q
<1>5. value = IF key \in given THEN key ELSE ""
  <2>1. CASE value = "" /\ \A i \in 1 .. Len(keys) : keys[i] \notin given
    <3>1. 1 \in 1 .. Len(keys)
      BY <1>3
    <3>. QED
      BY <1>3, <2>1, <3>1, Zenon
  <2>2. CASE ~(value = "" /\ \A i \in 1 .. Len(keys) : keys[i] \notin given)
    <3>1. PICK i \in 1 .. Len(keys) :
               value = keys[i] /\ keys[i] \in given /\ \A j \in 1 .. (i - 1) : keys[j] \notin given
      BY <1>4, <2>2, Zenon DEF FirstOf
    <3>2. i = 1
      BY <1>3
    <3>3. CASE i = 1
      BY <1>3, <3>1, <3>3, Zenon
    <3>. QED
      BY <3>2, <3>3
  <2>. QED
    BY <2>1, <2>2
<1>. QED
  BY <1>2, <1>5, Zenon

LEMMA OfTwo ==
  ASSUME NEW l, NEW a, NEW b
  PROVE  First(l, <<a, b>>) = IF a \in l.given THEN a ELSE IF b \in l.given THEN b ELSE ""
<1>1. PICK keys : keys = <<a, b>>
  OBVIOUS
<1>2. PICK value, given : value = First(l, <<a, b>>) /\ given = l.given
  OBVIOUS
<1>3. Len(keys) = 2 /\ keys[1] = a /\ keys[2] = b
  BY <1>1
<1>4. FirstOf(value, keys, given)
  BY <1>1, <1>2, <1>3, FirstIs, Zenon
<1>5. value = IF a \in given THEN a ELSE IF b \in given THEN b ELSE ""
  <2>1. CASE value = "" /\ \A i \in 1 .. Len(keys) : keys[i] \notin given
    <3>1. 1 \in 1 .. Len(keys) /\ 2 \in 1 .. Len(keys)
      BY <1>3
    <3>. QED
      BY <1>3, <2>1, <3>1, Zenon
  <2>2. CASE ~(value = "" /\ \A i \in 1 .. Len(keys) : keys[i] \notin given)
    <3>1. PICK i \in 1 .. Len(keys) :
               value = keys[i] /\ keys[i] \in given /\ \A j \in 1 .. (i - 1) : keys[j] \notin given
      BY <1>4, <2>2, Zenon DEF FirstOf
    <3>2. i = 1 \/ i = 2
      BY <1>3
    <3>3. CASE i = 1
      BY <1>3, <3>1, <3>3, Zenon
    <3>4. CASE i = 2
      <4>1. 1 \in 1 .. (i - 1)
        BY <3>4
      <4>. QED
        BY <1>3, <3>1, <3>4, <4>1, Zenon
    <3>. QED
      BY <3>2, <3>3, <3>4
  <2>. QED
    BY <2>1, <2>2
<1>. QED
  BY <1>2, <1>5, Zenon

LEMMA OfThree ==
  ASSUME NEW l, NEW a, NEW b, NEW c
  PROVE  First(l, <<a, b, c>>) =
           IF a \in l.given THEN a ELSE IF b \in l.given THEN b ELSE IF c \in l.given THEN c ELSE ""
<1>1. PICK keys : keys = <<a, b, c>>
  OBVIOUS
<1>2. PICK value, given : value = First(l, <<a, b, c>>) /\ given = l.given
  OBVIOUS
<1>3. Len(keys) = 3 /\ keys[1] = a /\ keys[2] = b /\ keys[3] = c
  BY <1>1
<1>4. FirstOf(value, keys, given)
  BY <1>1, <1>2, <1>3, FirstIs, Zenon
<1>5. value = IF a \in given THEN a ELSE IF b \in given THEN b ELSE IF c \in given THEN c ELSE ""
  <2>1. CASE value = "" /\ \A i \in 1 .. Len(keys) : keys[i] \notin given
    <3>1. 1 \in 1 .. Len(keys) /\ 2 \in 1 .. Len(keys) /\ 3 \in 1 .. Len(keys)
      BY <1>3
    <3>. QED
      BY <1>3, <2>1, <3>1, Zenon
  <2>2. CASE ~(value = "" /\ \A i \in 1 .. Len(keys) : keys[i] \notin given)
    <3>1. PICK i \in 1 .. Len(keys) :
               value = keys[i] /\ keys[i] \in given /\ \A j \in 1 .. (i - 1) : keys[j] \notin given
      BY <1>4, <2>2, Zenon DEF FirstOf
    <3>2. i = 1 \/ i = 2 \/ i = 3
      BY <1>3
    <3>3. CASE i = 1
      BY <1>3, <3>1, <3>3, Zenon
    <3>4. CASE i = 2
      <4>1. 1 \in 1 .. (i - 1)
        BY <3>4
      <4>. QED
        BY <1>3, <3>1, <3>4, <4>1, Zenon
    <3>5. CASE i = 3
      <4>1. 1 \in 1 .. (i - 1) /\ 2 \in 1 .. (i - 1)
        BY <3>5
      <4>. QED
        BY <1>3, <3>1, <3>5, <4>1, Zenon
    <3>. QED
      BY <3>2, <3>3, <3>4, <3>5
  <2>. QED
    BY <2>1, <2>2
<1>. QED
  BY <1>2, <1>5, Zenon
-----------------------------------------------------------------------------
\* What every parser gives.

SoundStream(s) ==
  \/ s = NoStream
  \/ /\ s # NoStream
     /\ s.security \in {"none", "tls", "reality"}
     /\ s.tls # Nil => s.security = "tls" /\ s.tls.of = "tls" /\ "serverName" \in DOMAIN s.tls
     /\ s.reality # Nil => s.security = "reality" /\ s.reality.of = "reality" /\ "serverName" \in DOMAIN s.reality

KnownProtocols == {"vmess", "vless", "trojan", "shadowsocks", "ss2022", "http", "socks", "wireguard", "direct"}

SoundConfig(c) ==
  /\ c.protocol \in KnownProtocols
  /\ c.tag # "" \/ c.address # ""
  /\ SoundStream(c.stream)
  /\ c.protocol \in {"vmess", "vless"} => "id" \in DOMAIN c.fields
  /\ c.protocol \in {"trojan", "shadowsocks", "ss2022"} => "password" \in DOMAIN c.fields

Own(leaves, network, security) == \A leaf \in leaves : leaf[1] \in {"settings", network, security}

LEMMA LeavesOf ==
  ASSUME NEW part, NEW names, NEW settings
  PROVE  /\ \A leaf \in Leaves(part, names, settings) :
              \E n \in names \cap DOMAIN settings : settings[n] # "" /\ leaf = <<part, n, settings[n]>>
         /\ \A n \in names \cap DOMAIN settings :
              settings[n] # "" => <<part, n, settings[n]>> \in Leaves(part, names, settings)
  BY Zenon DEF Leaves

LEMMA LeavesPart ==
  ASSUME NEW part, NEW names, NEW settings
  PROVE  \A leaf \in Leaves(part, names, settings) : leaf[1] = part
<1>. SUFFICES ASSUME NEW leaf \in Leaves(part, names, settings) PROVE leaf[1] = part
  OBVIOUS
<1>1. PICK n \in names \cap DOMAIN settings : leaf = <<part, n, settings[n]>>
  BY Zenon DEF Leaves
<1>. QED
  BY <1>1

LEMMA CopiedPart ==
  ASSUME NEW settings, NEW named, NEW names
  PROVE  \A leaf \in Copied(settings, named, names) : leaf[1] = named
<1>1. CASE named # settings.of
  <2>1. Copied(settings, named, names) = {}
    BY <1>1, Zenon DEF Copied
  <2>. QED
    BY <2>1
<1>2. CASE named = settings.of
  <2>1. Copied(settings, named, names) = Leaves(named, names[named], settings)
    BY <1>2, Zenon DEF Copied
  <2>. QED
    BY <2>1, LeavesPart
<1>. QED
  BY <1>1, <1>2, Zenon

LEMMA SettingsPart ==
  ASSUME NEW c, c.protocol \in KnownProtocols
  PROVE  \A leaf \in buildSettings(c) : leaf[1] = "settings"
<1>1. \E names, fields : buildSettings(c) \in {{}, Leaves("settings", names, fields)}
  <2>1. CASE c.protocol \in {"vmess", "vless", "trojan", "shadowsocks", "ss2022"}
    BY <2>1, Zenon DEF buildSettings
  <2>2. CASE c.protocol \in {"http", "socks"}
    BY <2>2, Zenon DEF buildSettings
  <2>3. CASE c.protocol = "wireguard"
    BY <2>3, Zenon DEF buildSettings
  <2>4. CASE c.protocol = "direct"
    BY <2>4, Zenon DEF buildSettings
  <2>. QED
    BY <2>1, <2>2, <2>3, <2>4, Zenon DEF KnownProtocols
<1>2. CASE buildSettings(c) = {}
  BY <1>2, Zenon
<1>3. CASE buildSettings(c) # {}
  <2>1. PICK names, fields : buildSettings(c) = Leaves("settings", names, fields)
    BY <1>1, <1>3, Zenon
  <2>. QED
    BY <2>1, LeavesPart
<1>. QED
  BY <1>2, <1>3

LEMMA OutboundIs ==
  ASSUME NEW c
  PROVE  /\ buildOutboundJSON(c).address = c.address /\ buildOutboundJSON(c).port = c.port
         /\ buildOutboundJSON(c).network = buildStreamJSON(c.stream).network
         /\ buildOutboundJSON(c).security = buildStreamJSON(c.stream).security
         /\ buildOutboundJSON(c).leaves = buildSettings(c) \cup buildStreamJSON(c.stream).leaves
         /\ buildOutboundJSON(c).protocol =
              CASE c.protocol = "ss2022" -> "shadowsocks" [] c.protocol = "direct" -> "freedom" [] OTHER -> c.protocol
  BY Zenon DEF buildOutboundJSON

LEMMA StreamJSONIs ==
  ASSUME NEW s
  PROVE  /\ s = NoStream => buildStreamJSON(s).leaves = {}
         /\ s # NoStream =>
              /\ buildStreamJSON(s).network = Canonical(s.network)
              /\ buildStreamJSON(s).security = s.security
              /\ buildStreamJSON(s).leaves =
                   Copied(s.tls, s.security, SecurityNames) \cup Copied(s.reality, s.security, SecurityNames)
                   \cup Copied(s.transport, Canonical(s.network), TransportNames)
  BY Zenon DEF buildStreamJSON

\* The outbound has settings of its own network and security only.
LEMMA SettingsAreOwn ==
  ASSUME NEW c, SoundConfig(c)
  PROVE  Own(buildOutboundJSON(c).leaves, buildOutboundJSON(c).network, buildOutboundJSON(c).security)
<1>1. PICK out, stream : out = buildOutboundJSON(c) /\ stream = buildStreamJSON(c.stream)
  OBVIOUS
<1>2. out.leaves = buildSettings(c) \cup stream.leaves /\ out.network = stream.network /\ out.security = stream.security
  BY <1>1, OutboundIs, Zenon
<1>3. \A leaf \in buildSettings(c) : leaf[1] = "settings"
  BY SettingsPart, Zenon DEF SoundConfig
<1>4. \A leaf \in stream.leaves : leaf[1] \in {stream.network, stream.security}
  <2>1. CASE c.stream = NoStream
    <3>1. stream.leaves = {}
      BY <1>1, <2>1, StreamJSONIs, Zenon
    <3>. QED
      BY <3>1
  <2>2. CASE c.stream # NoStream
    <3>1. PICK network, security : network = Canonical(c.stream.network) /\ security = c.stream.security
      OBVIOUS
    <3>2. PICK L, M, N : /\ L = Copied(c.stream.tls, security, SecurityNames)
                         /\ M = Copied(c.stream.reality, security, SecurityNames)
                         /\ N = Copied(c.stream.transport, network, TransportNames)
      OBVIOUS
    <3>3. (\A leaf \in L : leaf[1] = security) /\ (\A leaf \in M : leaf[1] = security) /\ (\A leaf \in N : leaf[1] = network)
      BY <3>2, CopiedPart
    <3>4. stream.leaves = L \cup M \cup N /\ stream.network = network /\ stream.security = security
      BY <1>1, <2>2, <3>1, <3>2, StreamJSONIs, Zenon
    <3>. QED
      BY <3>3, <3>4
  <2>. QED
    BY <2>1, <2>2
<1>5. Own(out.leaves, out.network, out.security)
  BY <1>2, <1>3, <1>4 DEF Own
<1>. QED
  BY <1>1, <1>5, Zenon

\* What the row shows of a node is in its outbound.
RowTold(c) ==
  /\ proxyConfigToConfig(c).remarks # ""
  /\ proxyConfigToConfig(c).sni # "" => proxyConfigToConfig(c).sni \in Values(buildOutboundJSON(c))
  /\ proxyConfigToConfig(c).password # "" => proxyConfigToConfig(c).password \in Values(buildOutboundJSON(c))

LEMMA ValuesOf ==
  ASSUME NEW c
  PROVE  /\ \A leaf \in buildSettings(c) : leaf[3] \in Values(buildOutboundJSON(c))
         /\ \A leaf \in buildStreamJSON(c.stream).leaves : leaf[3] \in Values(buildOutboundJSON(c))
<1>1. PICK out, S, T : out = buildOutboundJSON(c) /\ S = buildSettings(c) /\ T = buildStreamJSON(c.stream).leaves
  OBVIOUS
<1>2. out.leaves = S \cup T
  BY <1>1, OutboundIs, Zenon
<1>3. Values(out) = {leaf[3] : leaf \in S \cup T}
  BY <1>2, Zenon DEF Values
<1>4. (\A leaf \in S : leaf[3] \in Values(out)) /\ (\A leaf \in T : leaf[3] \in Values(out))
  BY <1>3
<1>. QED
  BY <1>1, <1>4, Zenon

LEMMA RowIsTold == ASSUME NEW c, SoundConfig(c) PROVE RowTold(c)
<1>1. PICK row, out : row = proxyConfigToConfig(c) /\ out = buildOutboundJSON(c)
  OBVIOUS
<1>2. /\ row.remarks = Or(c.tag, c.address) /\ row.sni = ServerNameOf(c.stream)
      /\ row.password = CASE c.protocol \in {"vmess", "vless"} -> c.fields.id
                          [] c.protocol \in {"trojan", "shadowsocks", "ss2022"} -> c.fields.password [] OTHER -> ""
  BY <1>1, Zenon DEF proxyConfigToConfig
<1>3. row.remarks # ""
  BY <1>2, Zenon DEF SoundConfig, Or
<1>4. row.sni # "" => row.sni \in Values(out)
  <2>. SUFFICES ASSUME row.sni # "" PROVE row.sni \in Values(out)
    OBVIOUS
  <2>1. PICK s, stream : s = c.stream /\ stream = buildStreamJSON(s)
    OBVIOUS
  <2>2. SoundStream(s) /\ row.sni = ServerNameOf(s)
    BY <1>2, <2>1, Zenon DEF SoundConfig
  <2>3. CASE s = NoStream
    BY <2>2, <2>3, Zenon DEF ServerNameOf
  <2>4. ASSUME s # NoStream, NEW part \in {"tls", "reality"}, NEW settings, settings \in {s.tls, s.reality},
               s.security = part, settings.of = part,
               "serverName" \in DOMAIN settings, row.sni = settings.serverName
        PROVE  row.sni \in Values(out)
    <3>1. <<part, "serverName", row.sni>> \in Leaves(part, SecurityNames[part], settings)
      <4>1. "serverName" \in SecurityNames["tls"] /\ "serverName" \in SecurityNames["reality"]
        BY DEF SecurityNames
      <4>. QED
        <5>1. "serverName" \in SecurityNames[part] \cap DOMAIN settings /\ settings["serverName"] # ""
          BY <2>4, <4>1, Zenon
        <5>. QED
          BY <2>4, <5>1, LeavesOf, Zenon
    <3>2. Copied(settings, s.security, SecurityNames) = Leaves(part, SecurityNames[part], settings)
      BY <2>4, Zenon DEF Copied
    <3>3. \A leaf \in Copied(settings, s.security, SecurityNames) : leaf \in stream.leaves
      <4>1. PICK A, B, C : /\ A = Copied(s.tls, s.security, SecurityNames) /\ B = Copied(s.reality, s.security, SecurityNames)
                           /\ C = Copied(s.transport, Canonical(s.network), TransportNames)
        OBVIOUS
      <4>2. stream.leaves = A \cup B \cup C
        BY <2>1, <2>4, <4>1, StreamJSONIs, Zenon
      <4>3. Copied(settings, s.security, SecurityNames) \in {A, B}
        BY <2>4, <4>1, Zenon
      <4>. QED
        BY <4>2, <4>3
    <3>4. PICK leaf : leaf = <<part, "serverName", row.sni>>
      OBVIOUS
    <3>5. leaf \in stream.leaves
      BY <3>1, <3>2, <3>3, <3>4, Zenon
    <3>6. leaf[3] \in Values(out)
      BY <1>1, <2>1, <3>5, ValuesOf, Zenon
    <3>. QED
      BY <3>4, <3>6
  <2>5. CASE s # NoStream /\ s.reality # Nil
    <3>1. row.sni = s.reality.serverName
      BY <2>2, <2>5, Zenon DEF ServerNameOf
    <3>. QED
      BY <2>2, <2>4, <2>5, <3>1, Zenon DEF SoundStream
  <2>6. CASE s # NoStream /\ s.reality = Nil /\ s.tls # Nil
    <3>1. row.sni = s.tls.serverName
      BY <2>2, <2>6, Zenon DEF ServerNameOf
    <3>. QED
      BY <2>2, <2>4, <2>6, <3>1, Zenon DEF SoundStream
  <2>7. CASE s # NoStream /\ s.reality = Nil /\ s.tls = Nil
    BY <2>2, <2>7, Zenon DEF ServerNameOf
  <2>. QED
    BY <2>3, <2>5, <2>6, <2>7, Zenon
<1>5. row.password # "" => row.password \in Values(out)
  <2>. SUFFICES ASSUME row.password # "" PROVE row.password \in Values(out)
    OBVIOUS
  <2>1. PICK f : f = c.fields
    OBVIOUS
  <2>2. ASSUME NEW n \in {"id", "password"}, n \in DOMAIN f, row.password = f[n],
               c.protocol \in {"vmess", "vless", "trojan", "shadowsocks", "ss2022"}
        PROVE  row.password \in Values(out)
    <3>1. buildSettings(c) = Leaves("settings", DOMAIN f, f)
      BY <2>1, <2>2, Zenon DEF buildSettings
    <3>2. PICK leaf : leaf = <<"settings", n, row.password>>
      OBVIOUS
    <3>3. leaf \in buildSettings(c)
      <4>1. n \in DOMAIN f \cap DOMAIN f /\ f[n] # "" /\ leaf = <<"settings", n, f[n]>>
        BY <2>2, <3>2, Zenon
      <4>2. <<"settings", n, f[n]>> \in Leaves("settings", DOMAIN f, f)
        BY <4>1, LeavesOf, Zenon
      <4>. QED
        BY <3>1, <4>1, <4>2, Zenon
    <3>4. leaf[3] \in Values(out)
      BY <1>1, <3>3, ValuesOf, Zenon
    <3>. QED
      BY <3>2, <3>4
  <2>3. CASE c.protocol \in {"vmess", "vless"}
    <3>1. row.password = f["id"]
      BY <1>2, <2>1, <2>3, Zenon
    <3>. QED
      BY <2>1, <2>2, <2>3, <3>1, Zenon DEF SoundConfig
  <2>4. CASE c.protocol \in {"trojan", "shadowsocks", "ss2022"}
    <3>1. row.password = f["password"]
      BY <1>2, <2>1, <2>4, Zenon
    <3>. QED
      BY <2>1, <2>2, <2>4, <3>1, Zenon DEF SoundConfig
  <2>5. CASE c.protocol \notin {"vmess", "vless", "trojan", "shadowsocks", "ss2022"}
    BY <1>2, <2>5, Zenon
  <2>. QED
    BY <2>3, <2>4, <2>5, Zenon
<1>. QED
  BY <1>1, <1>3, <1>4, <1>5, Zenon DEF RowTold

-----------------------------------------------------------------------------
\* What each parser gives.

LEMMA ConfigIs ==
  ASSUME NEW protocol, NEW tag, NEW port, NEW fields, NEW stream
  PROVE  /\ Config(protocol, tag, port, fields, stream).protocol = protocol
         /\ Config(protocol, tag, port, fields, stream).tag = tag
         /\ Config(protocol, tag, port, fields, stream).address = Address
         /\ Config(protocol, tag, port, fields, stream).port = port
         /\ Config(protocol, tag, port, fields, stream).fields = fields
         /\ Config(protocol, tag, port, fields, stream).stream = stream
  BY Zenon DEF Config

LEMMA StreamIs ==
  ASSUME NEW l, NEW known, NEW security, NEW tls, NEW reality, NEW transport
  PROVE  /\ Stream(l, known, security, tls, reality, transport).network =
              IF Canonical(Or(l.type, "tcp")) \in known THEN Canonical(Or(l.type, "tcp")) ELSE Or(l.type, "tcp")
         /\ Stream(l, known, security, tls, reality, transport).security = security
         /\ Stream(l, known, security, tls, reality, transport).tls = tls
         /\ Stream(l, known, security, tls, reality, transport).reality = reality
         /\ Stream(l, known, security, tls, reality, transport).transport =
              IF Canonical(Or(l.type, "tcp")) \in known THEN transport ELSE Nil
         /\ Stream(l, known, security, tls, reality, transport) # NoStream
<1>1. PICK network, t : /\ network = IF Canonical(Or(l.type, "tcp")) \in known THEN Canonical(Or(l.type, "tcp")) ELSE Or(l.type, "tcp")
                        /\ t = IF Canonical(Or(l.type, "tcp")) \in known THEN transport ELSE Nil
  OBVIOUS
<1>2. PICK s : s = Stream(l, known, security, tls, reality, transport)
  OBVIOUS
<1>3. s = [network |-> network, security |-> security, tls |-> tls, reality |-> reality, transport |-> t]
  BY <1>1, <1>2, Zenon DEF Stream
<1>4. s # NoStream
  <2>1. "security" \in DOMAIN s
    BY <1>3
  <2>2. "security" \notin DOMAIN NoStream
    BY DEF NoStream
  <2>. QED
    BY <2>1, <2>2, Zenon
<1>5. s.network = network /\ s.security = security /\ s.tls = tls /\ s.reality = reality /\ s.transport = t
  BY <1>3
<1>. QED
  BY <1>1, <1>2, <1>4, <1>5, Zenon

LEMMA TlsIs ==
  ASSUME NEW l, NEW serverName, NEW fingerprint
  PROVE  /\ DOMAIN Tls(l, serverName, fingerprint) = {"of", "serverName", "fingerprint", "alpn", "allowInsecure"}
         /\ Tls(l, serverName, fingerprint).of = "tls" /\ Tls(l, serverName, fingerprint).serverName = serverName
         /\ Tls(l, serverName, fingerprint).fingerprint = fingerprint
         /\ Tls(l, serverName, fingerprint).alpn = Q(l, "alpn")
<1>1. PICK alpn, insecure : alpn = Q(l, "alpn") /\ insecure = Q(l, "allowInsecure")
  OBVIOUS
<1>2. PICK t : t = Tls(l, serverName, fingerprint)
  OBVIOUS
<1>3. t = [of |-> "tls", serverName |-> serverName, fingerprint |-> fingerprint, alpn |-> alpn, allowInsecure |-> insecure]
  BY <1>1, <1>2, Zenon DEF Tls
<1>4. /\ DOMAIN t = {"of", "serverName", "fingerprint", "alpn", "allowInsecure"}
      /\ t.of = "tls" /\ t.serverName = serverName /\ t.fingerprint = fingerprint /\ t.alpn = alpn
  BY <1>3
<1>. QED
  BY <1>1, <1>2, <1>4, Zenon

LEMMA RealityIs ==
  ASSUME NEW l, NEW serverName, NEW spiderX
  PROVE  /\ DOMAIN Reality(l, serverName, spiderX) = {"of", "serverName", "publicKey", "shortId", "spiderX", "fingerprint"}
         /\ Reality(l, serverName, spiderX).of = "reality" /\ Reality(l, serverName, spiderX).serverName = serverName
         /\ Reality(l, serverName, spiderX).publicKey = Q(l, "pbk") /\ Reality(l, serverName, spiderX).shortId = Q(l, "sid")
         /\ Reality(l, serverName, spiderX).spiderX = spiderX /\ Reality(l, serverName, spiderX).fingerprint = Q(l, "fp")
<1>1. PICK pbk, sid, fp : pbk = Q(l, "pbk") /\ sid = Q(l, "sid") /\ fp = Q(l, "fp")
  OBVIOUS
<1>2. PICK r : r = Reality(l, serverName, spiderX)
  OBVIOUS
<1>3. r = [of |-> "reality", serverName |-> serverName, publicKey |-> pbk, shortId |-> sid,
           spiderX |-> spiderX, fingerprint |-> fp]
  BY <1>1, <1>2, Zenon DEF Reality
<1>4. /\ DOMAIN r = {"of", "serverName", "publicKey", "shortId", "spiderX", "fingerprint"}
      /\ r.of = "reality" /\ r.serverName = serverName /\ r.publicKey = pbk /\ r.shortId = sid
      /\ r.spiderX = spiderX /\ r.fingerprint = fp
  BY <1>3
<1>. QED
  BY <1>1, <1>2, <1>4, Zenon

\* A security, with the settings of this security or none.
Secured(security, tls, reality) ==
  /\ security \in {"none", "tls", "reality"}
  /\ tls # Nil => security = "tls" /\ \E m, name, fp : tls = Tls(m, name, fp)
  /\ reality # Nil => security = "reality" /\ \E m, name, x : reality = Reality(m, name, x)

LEMMA StreamSound ==
  ASSUME NEW l, NEW known, NEW security, NEW tls, NEW reality, NEW transport, Secured(security, tls, reality)
  PROVE  SoundStream(Stream(l, known, security, tls, reality, transport))
<1>1. PICK s : s = Stream(l, known, security, tls, reality, transport)
  OBVIOUS
<1>2. s # NoStream /\ s.security = security /\ s.tls = tls /\ s.reality = reality
  BY <1>1, StreamIs
<1>3. tls # Nil => security = "tls" /\ tls.of = "tls" /\ "serverName" \in DOMAIN tls
  <2>1. \A m, name, fp : "serverName" \in DOMAIN Tls(m, name, fp) /\ Tls(m, name, fp).of = "tls"
    BY TlsIs
  <2>. QED
    BY <2>1, Zenon DEF Secured
<1>4. reality # Nil => security = "reality" /\ reality.of = "reality" /\ "serverName" \in DOMAIN reality
  <2>1. \A m, name, x : "serverName" \in DOMAIN Reality(m, name, x) /\ Reality(m, name, x).of = "reality"
    BY RealityIs
  <2>. QED
    BY <2>1, Zenon DEF Secured
<1>5. SoundStream(s)
  BY <1>2, <1>3, <1>4, Zenon DEF SoundStream, Secured
<1>. QED
  BY <1>1, <1>5, Zenon

\* A known protocol with the secrets it has a use for.
Secret(protocol, fields) ==
  /\ protocol \in KnownProtocols
  /\ protocol \in {"vmess", "vless"} => "id" \in DOMAIN fields
  /\ protocol \in {"trojan", "shadowsocks", "ss2022"} => "password" \in DOMAIN fields

LEMMA ConfigSound ==
  ASSUME NEW protocol, NEW tag, NEW port, NEW fields, NEW stream, Secret(protocol, fields), SoundStream(stream)
  PROVE  SoundConfig(Config(protocol, tag, port, fields, stream))
<1>1. PICK c : c = Config(protocol, tag, port, fields, stream)
  OBVIOUS
<1>2. c.protocol = protocol /\ c.address = Address /\ c.fields = fields /\ c.stream = stream
  BY <1>1, ConfigIs
<1>3. Address # ""
  BY DEF Address
<1>4. SoundConfig(c)
  BY <1>2, <1>3, Zenon DEF SoundConfig, Secret
<1>. QED
  BY <1>1, <1>4, Zenon

KeepsPort(l, port) == l.port \in 1 .. MaxPort => port = l.port

LEMMA MaxPortIs == MaxPort \in Nat
  BY DEF MaxPort

LEMMA ParsedPortIs ==
  ASSUME NEW l, l.port \in Nat, NEW default \in 0 .. MaxPort
  PROVE  KeepsPort(l, ParsedPort(l, default)) /\ ParsedPort(l, default) \in 0 .. MaxPort
         /\ (default # 0 => ParsedPort(l, default) # 0)
<1>1. PICK p : p = l.port
  OBVIOUS
<1>2. p \in Nat
  BY <1>1
<1>3. ParsedPort(l, default) = IF p = 0 THEN default ELSE IF p > MaxPort THEN MaxPort ELSE p
  BY <1>1, Zenon DEF ParsedPort, Absent
<1>4. PICK q : q = ParsedPort(l, default)
  OBVIOUS
<1>5. (p \in 1 .. MaxPort => q = p) /\ q \in 0 .. MaxPort /\ (default # 0 => q # 0)
  BY <1>2, <1>3, <1>4, MaxPortIs
<1>. QED
  BY <1>1, <1>4, <1>5, Zenon DEF KeepsPort

LEMMA WrappedPortIs ==
  ASSUME NEW l, l.port \in Nat
  PROVE  KeepsPort(l, WrappedPort(l)) /\ WrappedPort(l) \in 0 .. MaxPort
<1>1. PICK p : p = l.port
  OBVIOUS
<1>2. p \in Nat
  BY <1>1
<1>3. PICK q : q = WrappedPort(l)
  OBVIOUS
<1>4. q = p % (MaxPort + 1)
  BY <1>1, <1>3, Zenon DEF WrappedPort
<1>5. q \in Nat /\ q <= MaxPort /\ (p <= MaxPort => q = p)
  BY <1>2, <1>4 DEF MaxPort
<1>6. (p \in 1 .. MaxPort => q = p) /\ q \in 0 .. MaxPort
  BY <1>2, <1>5, MaxPortIs
<1>. QED
  BY <1>1, <1>3, <1>6, Zenon DEF KeepsPort

LEMMA JsonPortIs ==
  ASSUME NEW l, l.port \in Nat
  PROVE  KeepsPort(l, parsePort(l)) /\ parsePort(l) \in 0 .. MaxPort
<1>1. Absent \in 0 .. MaxPort
  BY MaxPortIs DEF Absent
<1>2. parsePort(l) = ParsedPort(l, Absent) \/ parsePort(l) = WrappedPort(l)
  BY Zenon DEF parsePort
<1>. QED
  BY <1>1, <1>2, ParsedPortIs, WrappedPortIs, Zenon

\* The securities that the parsers find.
LEMMA SecuredBy ==
  ASSUME NEW m, NEW name, NEW other
  PROVE  /\ Secured("tls", Tls(m, name, other), Nil)
         /\ Secured("reality", Nil, Reality(m, name, other))
         /\ Secured("none", Nil, Nil)
<1>1. \E o, n, f : Tls(m, name, other) = Tls(o, n, f)
  OBVIOUS
<1>2. \E o, n, y : Reality(m, name, other) = Reality(o, n, y)
  OBVIOUS
<1>. QED
  BY <1>1, <1>2 DEF Secured

LEMMA SecuredByTls ==
  ASSUME NEW b, NEW m, NEW name, NEW fp
  PROVE  Secured(IF b THEN "tls" ELSE "none", IF b THEN Tls(m, name, fp) ELSE Nil, Nil)
<1>1. CASE b
  BY <1>1, SecuredBy, Zenon
<1>2. CASE ~b
  BY <1>2, SecuredBy, Zenon
<1>. QED
  BY <1>1, <1>2, Zenon

\* The parsed configuration is sound and its port is a port, the one given
\* if one was.
Parsed(l, c) ==
  c # ParseError => SoundConfig(c) /\ KeepsPort(l, c.port) /\ c.port \in 0 .. MaxPort

LEMMA ConfigParsed ==
  ASSUME NEW l, NEW protocol, NEW tag, NEW port, NEW fields, NEW stream,
         Secret(protocol, fields), SoundStream(stream), KeepsPort(l, port), port \in 0 .. MaxPort
  PROVE  Parsed(l, Config(protocol, tag, port, fields, stream)) /\ Config(protocol, tag, port, fields, stream).port = port
<1>1. PICK c : c = Config(protocol, tag, port, fields, stream)
  OBVIOUS
<1>2. SoundConfig(c) /\ c.port = port
  BY <1>1, ConfigSound, ConfigIs
<1>. QED
  BY <1>1, <1>2, Zenon DEF Parsed

LEMMA NodeIs ==
  ASSUME NEW l \in NodeSources
  PROVE  /\ l.port \in Nat /\ l.security \in {"none", "tls", "reality"} /\ l.type # "nil"
         /\ l = [scheme |-> l.scheme, type |-> l.type, security |-> l.security, given |-> l.given,
                 port |-> l.port, spelling |-> l.spelling, alias |-> l.alias]
  BY NodesAssumption

LEMMA SecretsAre ==
  ASSUME NEW l
  PROVE  /\ Secret("vmess", VMessFields(l)) /\ Secret("vless", VLESSFields(l))
         /\ \A password : Secret("trojan", [password |-> password])
         /\ \A p \in {"shadowsocks", "ss2022"} : \A method, password : Secret(p, [method |-> method, password |-> password])
         /\ \A p \in {"socks", "http", "wireguard", "direct"} : \A fields : Secret(p, fields)
<1>1. "id" \in DOMAIN VMessFields(l) /\ "id" \in DOMAIN VLESSFields(l)
  BY DEF VMessFields, VLESSFields
<1>2. /\ \A password : "password" \in DOMAIN [password |-> password]
      /\ \A method, password : "password" \in DOMAIN [method |-> method, password |-> password]
  OBVIOUS
<1>. QED
  BY <1>1, <1>2, Zenon DEF Secret, KnownProtocols

LEMMA V2RayNStreamSound == ASSUME NEW l PROVE SoundStream(V2RayNStream(l))
<1>1. PICK b, m : b = (l.security = "tls") /\ m = [l EXCEPT !.given = @ \ {"allowInsecure"}]
  OBVIOUS
<1>2. PICK security, tls : /\ security = (IF b THEN "tls" ELSE "none")
                           /\ tls = (IF b THEN Tls(m, Q(l, "sni"), Q(l, "fp")) ELSE Nil)
  OBVIOUS
<1>3. Secured(security, tls, Nil)
  BY <1>2, SecuredByTls, Zenon
<1>4. \E known, transport : V2RayNStream(l) = Stream(l, known, security, tls, Nil, transport)
  BY <1>1, <1>2, Zenon DEF V2RayNStream
<1>. QED
  BY <1>3, <1>4, StreamSound, Zenon

LEMMA ShadowrocketStreamSound == ASSUME NEW l PROVE SoundStream(ShadowrocketStream(l))
<1>1. PICK b, m : b = (l.security = "tls") /\ m = [l EXCEPT !.given = @ \ {"allowInsecure"}]
  OBVIOUS
<1>2. PICK security, tls : /\ security = (IF b THEN "tls" ELSE "none")
                           /\ tls = (IF b THEN Tls(m, Q(l, "sni"), Q(l, "fp")) ELSE Nil)
  OBVIOUS
<1>3. Secured(security, tls, Nil)
  BY <1>2, SecuredByTls, Zenon
<1>4. \E known, transport : ShadowrocketStream(l) = Stream(l, known, security, tls, Nil, transport)
  BY <1>1, <1>2, Zenon DEF ShadowrocketStream
<1>. QED
  BY <1>3, <1>4, StreamSound, Zenon

LEMMA VLESSStreamSound == ASSUME NEW l PROVE SoundStream(VLESSStream(l))
<1>1. PICK security, tls, reality :
        /\ security = (IF l.security \in {"tls", "reality"} THEN l.security ELSE "none")
        /\ tls = (IF l.security = "tls" THEN Tls(l, Q(l, "sni"), Q(l, "fp")) ELSE Nil)
        /\ reality = (IF l.security = "reality" THEN Reality(l, Q(l, "sni"), Q(l, "spx")) ELSE Nil)
  OBVIOUS
<1>2. Secured(security, tls, reality)
  <2>1. CASE l.security = "tls"
    <3>1. security = "tls" /\ tls = Tls(l, Q(l, "sni"), Q(l, "fp")) /\ reality = Nil
      BY <1>1, <2>1
    <3>. QED
      BY <3>1, SecuredBy, Zenon
  <2>2. CASE l.security = "reality"
    <3>1. security = "reality" /\ tls = Nil /\ reality = Reality(l, Q(l, "sni"), Q(l, "spx"))
      BY <1>1, <2>2
    <3>. QED
      BY <3>1, SecuredBy, Zenon
  <2>3. CASE l.security \notin {"tls", "reality"}
    <3>1. security = "none" /\ tls = Nil /\ reality = Nil
      BY <1>1, <2>3
    <3>. QED
      BY <3>1, SecuredBy, Zenon
  <2>. QED
    BY <2>1, <2>2, <2>3
<1>3. \E known, transport : VLESSStream(l) = Stream(l, known, security, tls, reality, transport)
  BY <1>1, Zenon DEF VLESSStream
<1>. QED
  BY <1>2, <1>3, StreamSound, Zenon

LEMMA TrojanStreamSound == ASSUME NEW l PROVE SoundStream(TrojanStream(l))
<1>1. PICK sni, b : sni = Or(First(l, <<"sni", "peer">>), Address) /\ b = (l.security = "reality")
  OBVIOUS
<1>2. PICK security, tls, reality :
        /\ security = (IF b THEN "reality" ELSE "tls")
        /\ tls = (IF b THEN Nil ELSE Tls(l, sni, Q(l, "fp")))
        /\ reality = (IF b THEN Reality(l, sni, Q(l, "spx")) ELSE Nil)
  OBVIOUS
<1>3. Secured(security, tls, reality)
  <2>1. CASE b
    <3>1. security = "reality" /\ tls = Nil /\ reality = Reality(l, sni, Q(l, "spx"))
      BY <1>2, <2>1, Zenon
    <3>. QED
      BY <3>1, SecuredBy, Zenon
  <2>2. CASE ~b
    <3>1. security = "tls" /\ tls = Tls(l, sni, Q(l, "fp")) /\ reality = Nil
      BY <1>2, <2>2, Zenon
    <3>. QED
      BY <3>1, SecuredBy, Zenon
  <2>. QED
    BY <2>1, <2>2
<1>4. \E known, transport : TrojanStream(l) = Stream(l, known, security, tls, reality, transport)
  BY <1>1, <1>2, Zenon DEF TrojanStream
<1>. QED
  BY <1>3, <1>4, StreamSound, Zenon

LEMMA DefaultParsed ==
  ASSUME NEW l \in NodeSources
  PROVE  \A d \in {DefaultPort.https, DefaultPort.http, DefaultPort.socks, DefaultPort.wireguard} :
           KeepsPort(l, ParsedPort(l, d)) /\ ParsedPort(l, d) \in 0 .. MaxPort /\ ParsedPort(l, d) # 0
<1>. SUFFICES ASSUME NEW d \in {DefaultPort.https, DefaultPort.http, DefaultPort.socks, DefaultPort.wireguard}
              PROVE  KeepsPort(l, ParsedPort(l, d)) /\ ParsedPort(l, d) \in 0 .. MaxPort /\ ParsedPort(l, d) # 0
  OBVIOUS
<1>1. d \in Nat /\ d <= MaxPort /\ d # 0
  BY DEF DefaultPort, MaxPort
<1>2. d \in 0 .. MaxPort
  BY <1>1, MaxPortIs
<1>. QED
  BY <1>1, <1>2, NodeIs, ParsedPortIs, Zenon

LEMMA V2RayNParsed ==
  ASSUME NEW l \in NodeSources
  PROVE  Parsed(l, ParseV2RayN(l)) /\ (ParseV2RayN(l) # ParseError => ParseV2RayN(l).port # 0)
<1>1. CASE l.spelling = "mixed" \/ parsePort(l) = Absent
  <2>1. ParseV2RayN(l) = ParseError
    BY <1>1, Zenon DEF ParseV2RayN
  <2>. QED
    BY <2>1 DEF Parsed
<1>2. CASE ~(l.spelling = "mixed" \/ parsePort(l) = Absent)
  <2>1. PICK port, fields, stream : port = parsePort(l) /\ stream = V2RayNStream(l) /\ fields = VMessFields(l)
    OBVIOUS
  <2>2. ParseV2RayN(l) = Config("vmess", Tag(l), port, fields, stream)
    BY <1>2, <2>1, Zenon DEF ParseV2RayN
  <2>3. KeepsPort(l, port) /\ port \in 0 .. MaxPort
    BY <2>1, NodeIs, JsonPortIs, Zenon
  <2>4. SoundStream(stream) /\ Secret("vmess", fields)
    BY <2>1, V2RayNStreamSound, SecretsAre, Zenon
  <2>5. Parsed(l, ParseV2RayN(l)) /\ ParseV2RayN(l).port = port
    BY <2>2, <2>3, <2>4, ConfigParsed
  <2>. QED
    BY <1>2, <2>1, <2>5, Zenon DEF Absent
<1>. QED
  BY <1>1, <1>2, Zenon

LEMMA ShadowrocketParsed ==
  ASSUME NEW l \in NodeSources
  PROVE  Parsed(l, ParseShadowrocket(l)) /\ ParseShadowrocket(l).port # 0
<1>1. PICK port, fields, stream : port = ParsedPort(l, DefaultPort.https) /\ stream = ShadowrocketStream(l) /\ fields = VMessFields(l)
  OBVIOUS
<1>2. ParseShadowrocket(l) = Config("vmess", Tag(l), port, fields, stream)
  BY <1>1, Zenon DEF ParseShadowrocket
<1>3. KeepsPort(l, port) /\ port \in 0 .. MaxPort /\ port # 0
  BY <1>1, DefaultParsed, Zenon
<1>4. SoundStream(stream) /\ Secret("vmess", fields)
  BY <1>1, ShadowrocketStreamSound, SecretsAre, Zenon
<1>. QED
  BY <1>2, <1>3, <1>4, ConfigParsed


LEMMA VLESSParsed ==
  ASSUME NEW l \in NodeSources
  PROVE  Parsed(l, ParseVLESS(l)) /\ ParseVLESS(l).port # 0
<1>1. PICK port, fields, parsed, stream :
        /\ port = ParsedPort(l, DefaultPort.https) /\ fields = VLESSFields(l) /\ parsed = VLESSStream(l)
        /\ stream = IF l.type = "quic" THEN [parsed EXCEPT !.network = "tcp"] ELSE parsed
  OBVIOUS
<1>2. ParseVLESS(l) = Config("vless", Tag(l), port, fields, stream)
  BY <1>1, Zenon DEF ParseVLESS
<1>3. KeepsPort(l, port) /\ port \in 0 .. MaxPort /\ port # 0
  BY <1>1, DefaultParsed, Zenon
<1>4. SoundStream(stream)
  <2>1. SoundStream(parsed)
    BY <1>1, VLESSStreamSound, Zenon
  <2>2. CASE l.type = "quic"
    <3>1. \E known, security, tls, reality, transport : parsed = Stream(l, known, security, tls, reality, transport)
      BY <1>1, Zenon DEF VLESSStream
    <3>2. PICK network, security, tls, reality, transport :
            parsed = [network |-> network, security |-> security, tls |-> tls, reality |-> reality, transport |-> transport]
      BY <3>1, Zenon DEF Stream
    <3>3. stream = [network |-> "tcp", security |-> security, tls |-> tls, reality |-> reality, transport |-> transport]
      BY <1>1, <2>2, <3>2
    <3>4. /\ parsed.security = security /\ parsed.tls = tls /\ parsed.reality = reality
          /\ stream.security = security /\ stream.tls = tls /\ stream.reality = reality
      BY <3>2, <3>3
    <3>5. stream # NoStream /\ parsed # NoStream
      <4>1. "security" \in DOMAIN stream /\ "security" \in DOMAIN parsed
        BY <3>2, <3>3
      <4>2. "security" \notin DOMAIN NoStream
        BY DEF NoStream
      <4>. QED
        BY <4>1, <4>2, Zenon
    <3>. QED
      BY <2>1, <3>4, <3>5 DEF SoundStream
  <2>3. CASE l.type # "quic"
    BY <1>1, <2>1, <2>3, Zenon
  <2>. QED
    BY <2>2, <2>3
<1>5. Secret("vless", fields)
  BY <1>1, SecretsAre, Zenon
<1>. QED
  BY <1>2, <1>3, <1>4, <1>5, ConfigParsed

LEMMA TrojanParsed ==
  ASSUME NEW l \in NodeSources
  PROVE  Parsed(l, ParseTrojan(l)) /\ ParseTrojan(l).port # 0
<1>1. PICK port, fields, stream : port = ParsedPort(l, DefaultPort.https) /\ stream = TrojanStream(l) /\ fields = [password |-> Q(l, "user")]
  OBVIOUS
<1>2. ParseTrojan(l) = Config("trojan", Tag(l), port, fields, stream)
  BY <1>1, Zenon DEF ParseTrojan
<1>3. KeepsPort(l, port) /\ port \in 0 .. MaxPort /\ port # 0
  BY <1>1, DefaultParsed, Zenon
<1>4. SoundStream(stream) /\ Secret("trojan", fields)
  BY <1>1, TrojanStreamSound, SecretsAre, Zenon
<1>. QED
  BY <1>2, <1>3, <1>4, ConfigParsed

LEMMA NoStreamSound == SoundStream(NoStream)
  BY DEF SoundStream

LEMMA ShadowsocksConfigParsed ==
  ASSUME NEW l \in NodeSources, NEW tag, NEW port, NEW method, NEW password, KeepsPort(l, port), port \in 0 .. MaxPort
  PROVE  /\ Parsed(l, ShadowsocksConfig(l, tag, port, method, password))
         /\ ShadowsocksConfig(l, tag, port, method, password).port = port
<1>1. PICK protocol : protocol = IF method = "method" /\ "2022" \in l.given THEN "ss2022" ELSE "shadowsocks"
  OBVIOUS
<1>2. PICK fields : fields = [method |-> method, password |-> password]
  OBVIOUS
<1>3. ShadowsocksConfig(l, tag, port, method, password) = Config(protocol, tag, port, fields, NoStream)
  BY <1>1, <1>2, Zenon DEF ShadowsocksConfig
<1>4. Secret(protocol, fields)
  <2>1. protocol \in {"shadowsocks", "ss2022"}
    BY <1>1
  <2>. QED
    BY <1>2, <2>1, SecretsAre, Zenon
<1>. QED
  BY <1>3, <1>4, NoStreamSound, ConfigParsed

LEMMA ShadowsocksParsed ==
  ASSUME NEW l \in NodeSources
  PROVE  Parsed(l, ParseShadowsocks(l)) /\ (ParseShadowsocks(l) # ParseError => ParseShadowsocks(l).port # 0)
<1>1. PICK port : port = ParsedPort(l, Absent)
  OBVIOUS
<1>2. CASE AliasMissed(l) \/ port = Absent
  <2>1. ParseShadowsocks(l) = ParseError
    BY <1>1, <1>2, Zenon DEF ParseShadowsocks
  <2>. QED
    BY <2>1 DEF Parsed
<1>3. CASE ~(AliasMissed(l) \/ port = Absent)
  <2>1. KeepsPort(l, port) /\ port \in 0 .. MaxPort
    <3>1. Absent \in 0 .. MaxPort
      BY MaxPortIs DEF Absent
    <3>. QED
      BY <1>1, <3>1, NodeIs, ParsedPortIs, Zenon
  <2>2. PICK method, password : ParseShadowsocks(l) = ShadowsocksConfig(l, Tag(l), port, method, password)
    BY <1>1, <1>3, Zenon DEF ParseShadowsocks
  <2>3. Parsed(l, ParseShadowsocks(l)) /\ ParseShadowsocks(l).port = port
    BY <2>1, <2>2, ShadowsocksConfigParsed
  <2>. QED
    BY <1>3, <2>3, Zenon DEF Absent
<1>. QED
  BY <1>2, <1>3, Zenon

LEMMA WireGuardParsed ==
  ASSUME NEW l \in NodeSources
  PROVE  Parsed(l, ParseWireGuard(l)) /\ (ParseWireGuard(l) # ParseError => ParseWireGuard(l).port # 0)
<1>1. CASE AliasMissed(l)
  <2>1. ParseWireGuard(l) = ParseError
    BY <1>1, Zenon DEF ParseWireGuard
  <2>. QED
    BY <2>1 DEF Parsed
<1>2. CASE ~AliasMissed(l)
  <2>1. PICK port : port = ParsedPort(l, DefaultPort.wireguard)
    OBVIOUS
  <2>2. KeepsPort(l, port) /\ port \in 0 .. MaxPort /\ port # 0
    BY <2>1, DefaultParsed, Zenon
  <2>3. PICK fields : ParseWireGuard(l) = Config("wireguard", Tag(l), port, fields, NoStream)
    BY <1>2, <2>1, Zenon DEF ParseWireGuard
  <2>4. Secret("wireguard", fields)
    BY SecretsAre, Zenon
  <2>5. Parsed(l, ParseWireGuard(l)) /\ ParseWireGuard(l).port = port
    BY <2>2, <2>3, <2>4, NoStreamSound, ConfigParsed
  <2>. QED
    BY <2>2, <2>5, Zenon
<1>. QED
  BY <1>1, <1>2, Zenon

LEMMA SOCKSParsed ==
  ASSUME NEW l \in NodeSources
  PROVE  Parsed(l, ParseSOCKS(l)) /\ (ParseSOCKS(l) # ParseError => ParseSOCKS(l).port # 0)
<1>1. CASE AliasMissed(l)
  <2>1. ParseSOCKS(l) = ParseError
    BY <1>1, Zenon DEF ParseSOCKS
  <2>. QED
    BY <2>1 DEF Parsed
<1>2. CASE ~AliasMissed(l)
  <2>1. PICK port : port = ParsedPort(l, DefaultPort.socks)
    OBVIOUS
  <2>2. KeepsPort(l, port) /\ port \in 0 .. MaxPort /\ port # 0
    BY <2>1, DefaultParsed, Zenon
  <2>3. PICK fields, tag : ParseSOCKS(l) = Config("socks", tag, port, fields, NoStream)
    BY <1>2, <2>1, Zenon DEF ParseSOCKS
  <2>4. Secret("socks", fields)
    BY SecretsAre, Zenon
  <2>5. Parsed(l, ParseSOCKS(l)) /\ ParseSOCKS(l).port = port
    BY <2>2, <2>3, <2>4, NoStreamSound, ConfigParsed
  <2>. QED
    BY <2>2, <2>5, Zenon
<1>. QED
  BY <1>1, <1>2, Zenon

LEMMA HTTPParsed ==
  ASSUME NEW l \in NodeSources
  PROVE  Parsed(l, ParseHTTP(l)) /\ (ParseHTTP(l) # ParseError => ParseHTTP(l).port # 0)
<1>. DEFINE direct == "user" \notin l.given /\ l.port \notin CommonPorts
<1>1. CASE direct
  <2>1. ParseHTTP(l) = ParseError
    BY <1>1, Zenon DEF ParseHTTP
  <2>. QED
    BY <2>1 DEF Parsed
<1>2. CASE ~direct
  <2>1. PICK b : b = (l.security = "tls")
    OBVIOUS
  <2>2. PICK port, stream, tls : /\ port = ParsedPort(l, IF b THEN DefaultPort.https ELSE DefaultPort.http)
                                 /\ tls = Tls([l EXCEPT !.given = {}], Address, "")
                                 /\ stream = (IF b THEN Stream([l EXCEPT !.type = ""], {}, "tls", tls, Nil, Nil) ELSE NoStream)
    OBVIOUS
  <2>3. KeepsPort(l, port) /\ port \in 0 .. MaxPort /\ port # 0
    <3>1. CASE b
      BY <2>2, <3>1, DefaultParsed, Zenon
    <3>2. CASE ~b
      BY <2>2, <3>2, DefaultParsed, Zenon
    <3>. QED
      BY <3>1, <3>2, Zenon
  <2>4. PICK fields, tag : ParseHTTP(l) = Config("http", tag, port, fields, stream)
    <3>1. ParseHTTP(l) = Config("http", Or(Q(l, "fragment"), "http-address"), port, UserFields(l), stream)
      BY <1>2, <2>1, <2>2, Zenon DEF ParseHTTP
    <3>. QED
      BY <3>1
  <2>5. SoundStream(stream)
    <3>1. CASE b
      <4>1. Secured("tls", tls, Nil)
        BY <2>2, SecuredBy, Zenon
      <4>. QED
        BY <2>2, <3>1, <4>1, StreamSound, Zenon
    <3>2. CASE ~b
      BY <2>2, <3>2, NoStreamSound, Zenon
    <3>. QED
      BY <3>1, <3>2, Zenon
  <2>6. Secret("http", fields)
    BY SecretsAre, Zenon
  <2>7. Parsed(l, ParseHTTP(l)) /\ ParseHTTP(l).port = port
    BY <2>3, <2>4, <2>5, <2>6, ConfigParsed
  <2>. QED
    BY <2>3, <2>7, Zenon
<1>. QED
  BY <1>1, <1>2, Zenon

LEMMA DirectParsed == ASSUME NEW l PROVE SoundConfig(ParseDirect(l))
<1>1. PICK tag, fields : tag = Or(Q(l, "fragment"), "Direct") /\ fields = << >>
  OBVIOUS
<1>2. PICK c, d : c = Config("direct", tag, Absent, fields, NoStream) /\ d = ParseDirect(l)
  OBVIOUS
<1>3. d = [c EXCEPT !.address = ""]
  BY <1>1, <1>2, Zenon DEF ParseDirect
<1>4. c = [protocol |-> "direct", tag |-> tag, address |-> Address, port |-> Absent, fields |-> fields, stream |-> NoStream]
  BY <1>2, Zenon DEF Config
<1>5. d.protocol = "direct" /\ d.tag = tag /\ d.stream = NoStream
  BY <1>3, <1>4
<1>6. tag # ""
  BY <1>1 DEF Or
<1>7. SoundConfig(d)
  BY <1>5, <1>6, NoStreamSound DEF SoundConfig, KnownProtocols
<1>. QED
  BY <1>2, <1>7, Zenon

\* The streams of Clash nodes.
LEMMA ClashStreamSound ==
  ASSUME NEW l, NEW h2, NEW security, NEW tls, NEW reality, Secured(security, tls, reality)
  PROVE  SoundStream(ClashStream(l, h2, security, tls, reality))
<1>1. \E known, transport : ClashStream(l, h2, security, tls, reality) = Stream(l, known, security, tls, reality, transport)
  BY Zenon DEF ClashStream
<1>. QED
  BY <1>1, StreamSound, Zenon

LEMMA ClashConfigParsed ==
  ASSUME NEW l \in NodeSources, NEW protocol, NEW tag, NEW fields, NEW stream,
         Secret(protocol, fields), SoundStream(stream)
  PROVE  Parsed(l, Config(protocol, tag, WrappedPort(l), fields, stream))
<1>1. PICK port : port = WrappedPort(l)
  OBVIOUS
<1>2. KeepsPort(l, port) /\ port \in 0 .. MaxPort
  BY <1>1, NodeIs, WrappedPortIs, Zenon
<1>. QED
  BY <1>1, <1>2, ConfigParsed

LEMMA ClashVMessParsed == ASSUME NEW l \in NodeSources PROVE Parsed(l, ClashVMess(l))
<1>1. PICK b : b = (l.security = "tls")
  OBVIOUS
<1>2. PICK security, tls : /\ security = (IF b THEN "tls" ELSE "none")
                           /\ tls = (IF b THEN Tls(l, Q(l, "sni"), "") ELSE Nil)
  OBVIOUS
<1>3. PICK fields, stream : fields = VMessFields(l) /\ stream = ClashStream(l, {"h2"}, security, tls, Nil)
  OBVIOUS
<1>4. ClashVMess(l) = Config("vmess", Q(l, "fragment"), WrappedPort(l), fields, stream)
  BY <1>1, <1>2, <1>3, Zenon DEF ClashVMess
<1>5. Secured(security, tls, Nil)
  BY <1>2, SecuredByTls, Zenon
<1>6. SoundStream(stream) /\ Secret("vmess", fields)
  BY <1>3, <1>5, ClashStreamSound, SecretsAre, Zenon
<1>. QED
  BY <1>4, <1>6, ClashConfigParsed

LEMMA ClashVLESSParsed == ASSUME NEW l \in NodeSources PROVE Parsed(l, ClashVLESS(l))
<1>1. PICK opts, b : /\ opts = (l.security = "reality" /\ {"pbk", "sid"} \cap l.given # {})
                     /\ b = (~opts /\ l.security # "none")
  OBVIOUS
<1>2. PICK security, tls, reality :
        /\ security = (IF opts THEN "reality" ELSE IF b THEN "tls" ELSE "none")
        /\ tls = (IF b THEN Tls(l, Q(l, "sni"), Q(l, "fp")) ELSE Nil)
        /\ reality = (IF opts THEN Reality(l, "", "") ELSE Nil)
  OBVIOUS
<1>3. PICK fields, stream : fields = VLESSFields(l) /\ stream = ClashStream(l, {}, security, tls, reality)
  OBVIOUS
<1>4. ClashVLESS(l) = Config("vless", Q(l, "fragment"), WrappedPort(l), fields, stream)
  BY <1>1, <1>2, <1>3, Zenon DEF ClashVLESS
<1>5. Secured(security, tls, reality)
  <2>1. CASE opts
    <3>1. security = "reality" /\ tls = Nil /\ reality = Reality(l, "", "")
      BY <1>1, <1>2, <2>1, Zenon
    <3>. QED
      BY <3>1, SecuredBy, Zenon
  <2>2. CASE ~opts /\ b
    <3>1. security = "tls" /\ tls = Tls(l, Q(l, "sni"), Q(l, "fp")) /\ reality = Nil
      BY <1>2, <2>2, Zenon
    <3>. QED
      BY <3>1, SecuredBy, Zenon
  <2>3. CASE ~opts /\ ~b
    <3>1. security = "none" /\ tls = Nil /\ reality = Nil
      BY <1>2, <2>3, Zenon
    <3>. QED
      BY <3>1, SecuredBy, Zenon
  <2>. QED
    BY <2>1, <2>2, <2>3, Zenon
<1>6. SoundStream(stream) /\ Secret("vless", fields)
  BY <1>3, <1>5, ClashStreamSound, SecretsAre, Zenon
<1>. QED
  BY <1>4, <1>6, ClashConfigParsed

LEMMA ClashTrojanParsed == ASSUME NEW l \in NodeSources PROVE Parsed(l, ClashTrojan(l))
<1>1. PICK tls, fields, stream : /\ tls = Tls(l, Or(Q(l, "sni"), Address), "") /\ fields = [password |-> Q(l, "user")]
                                 /\ stream = ClashStream(l, {}, "tls", tls, Nil)
  OBVIOUS
<1>2. ClashTrojan(l) = Config("trojan", Q(l, "fragment"), WrappedPort(l), fields, stream)
  BY <1>1, Zenon DEF ClashTrojan
<1>3. Secured("tls", tls, Nil)
  BY <1>1, SecuredBy, Zenon
<1>4. SoundStream(stream) /\ Secret("trojan", fields)
  BY <1>1, <1>3, ClashStreamSound, SecretsAre, Zenon
<1>. QED
  BY <1>2, <1>4, ClashConfigParsed

LEMMA ClashShadowsocksParsed == ASSUME NEW l \in NodeSources PROVE Parsed(l, ClashShadowsocks(l))
<1>1. PICK port : port = WrappedPort(l)
  OBVIOUS
<1>2. KeepsPort(l, port) /\ port \in 0 .. MaxPort
  BY <1>1, NodeIs, WrappedPortIs, Zenon
<1>3. ClashShadowsocks(l) = ShadowsocksConfig(l, Q(l, "fragment"), port, "method", Q(l, "user"))
  BY <1>1, Zenon DEF ClashShadowsocks
<1>. QED
  BY <1>2, <1>3, ShadowsocksConfigParsed

LEMMA ClashHTTPParsed == ASSUME NEW l \in NodeSources PROVE Parsed(l, ClashHTTP(l))
<1>1. PICK b, tls : b = (l.security = "tls") /\ tls = Tls([l EXCEPT !.given = @ \ {"alpn"}], Q(l, "sni"), "")
  OBVIOUS
<1>2. PICK fields, stream : /\ fields = UserFields(l)
                            /\ stream = (IF b THEN Stream([l EXCEPT !.type = ""], {}, "tls", tls, Nil, Nil) ELSE NoStream)
  OBVIOUS
<1>3. ClashHTTP(l) = Config("http", Q(l, "fragment"), WrappedPort(l), fields, stream)
  BY <1>1, <1>2, Zenon DEF ClashHTTP
<1>4. SoundStream(stream)
  <2>1. CASE b
    <3>1. Secured("tls", tls, Nil)
      BY <1>1, SecuredBy, Zenon
    <3>. QED
      BY <1>2, <2>1, <3>1, StreamSound, Zenon
  <2>2. CASE ~b
    BY <1>2, <2>2, NoStreamSound, Zenon
  <2>. QED
    BY <2>1, <2>2, Zenon
<1>5. Secret("http", fields)
  BY SecretsAre, Zenon
<1>. QED
  BY <1>3, <1>4, <1>5, ClashConfigParsed

LEMMA ClashPlainParsed ==
  ASSUME NEW l \in NodeSources
  PROVE  Parsed(l, ClashSOCKS(l)) /\ Parsed(l, ClashWireGuard(l))
<1>1. PICK tag, f : ClashSOCKS(l) = Config("socks", tag, WrappedPort(l), f, NoStream)
  BY Zenon DEF ClashSOCKS
<1>2. PICK name, g : ClashWireGuard(l) = Config("wireguard", name, WrappedPort(l), g, NoStream)
  BY Zenon DEF ClashWireGuard
<1>3. Secret("socks", f) /\ Secret("wireguard", g)
  BY SecretsAre, Zenon
<1>4. Parsed(l, ClashSOCKS(l))
  BY <1>1, <1>3, NoStreamSound, ClashConfigParsed
<1>5. Parsed(l, ClashWireGuard(l))
  BY <1>2, <1>3, NoStreamSound, ClashConfigParsed
<1>. QED
  BY <1>4, <1>5

LinkSchemes == {"vmess", "rocket", "vless", "trojan", "ss", "wireguard", "http", "socks"}

\* Every link parsed is sound, and so is every Clash node.
LEMMA LinkParsed ==
  ASSUME NEW l \in NodeSources
  PROVE  /\ ParseLink(l) # ParseError => SoundConfig(ParseLink(l))
         /\ l.scheme # "direct" /\ ParseLink(l) # ParseError =>
              KeepsPort(l, ParseLink(l).port) /\ ParseLink(l).port \in 0 .. MaxPort /\ ParseLink(l).port # 0
<1>1. PICK c : c = ParseLink(l)
  OBVIOUS
<1>2. CASE l.scheme \in LinkSchemes
  <2>1. Parsed(l, c) /\ (c # ParseError => c.port # 0)
    <3>1. CASE l.scheme = "vmess"
      <4>1. c = ParseV2RayN(l)
        BY <1>1, <3>1, Zenon DEF ParseLink
      <4>. QED
        BY <4>1, V2RayNParsed
    <3>2. CASE l.scheme = "rocket"
      <4>1. c = ParseShadowrocket(l)
        BY <1>1, <3>2, Zenon DEF ParseLink
      <4>. QED
        BY <4>1, ShadowrocketParsed
    <3>3. CASE l.scheme = "vless"
      <4>1. c = ParseVLESS(l)
        BY <1>1, <3>3, Zenon DEF ParseLink
      <4>. QED
        BY <4>1, VLESSParsed
    <3>4. CASE l.scheme = "trojan"
      <4>1. c = ParseTrojan(l)
        BY <1>1, <3>4, Zenon DEF ParseLink
      <4>. QED
        BY <4>1, TrojanParsed
    <3>5. CASE l.scheme = "ss"
      <4>1. c = ParseShadowsocks(l)
        BY <1>1, <3>5, Zenon DEF ParseLink
      <4>. QED
        BY <4>1, ShadowsocksParsed
    <3>6. CASE l.scheme = "wireguard"
      <4>1. c = ParseWireGuard(l)
        BY <1>1, <3>6, Zenon DEF ParseLink
      <4>. QED
        BY <4>1, WireGuardParsed
    <3>7. CASE l.scheme = "http"
      <4>1. c = ParseHTTP(l)
        BY <1>1, <3>7, Zenon DEF ParseLink
      <4>. QED
        BY <4>1, HTTPParsed
    <3>8. CASE l.scheme = "socks"
      <4>1. c = ParseSOCKS(l)
        BY <1>1, <3>8, Zenon DEF ParseLink
      <4>. QED
        BY <4>1, SOCKSParsed
    <3>. QED
      BY <1>2, <3>1, <3>2, <3>3, <3>4, <3>5, <3>6, <3>7, <3>8 DEF LinkSchemes
  <2>. QED
    BY <1>1, <2>1 DEF Parsed
<1>3. CASE l.scheme = "direct"
  <2>1. c = ParseDirect(l)
    BY <1>1, <1>3, Zenon DEF ParseLink
  <2>. QED
    BY <1>1, <1>3, <2>1, DirectParsed
<1>4. CASE l.scheme \notin LinkSchemes \cup {"direct"}
  <2>1. c = ParseError
    <3>1. /\ l.scheme # "vmess" /\ l.scheme # "rocket" /\ l.scheme # "vless" /\ l.scheme # "trojan" /\ l.scheme # "ss"
          /\ l.scheme # "wireguard" /\ l.scheme # "http" /\ l.scheme # "socks" /\ l.scheme # "direct"
      BY <1>4 DEF LinkSchemes
    <3>. QED
      BY <1>1, <3>1, Zenon DEF ParseLink
  <2>. QED
    BY <1>1, <2>1
<1>. QED
  BY <1>2, <1>3, <1>4

ClashSchemes == {"vmess", "vless", "trojan", "ss", "socks", "http", "wireguard"}

LEMMA ClashParsed ==
  ASSUME NEW l \in NodeSources
  PROVE  parseClashProxy(l) # ParseError => SoundConfig(parseClashProxy(l)) /\ KeepsPort(l, parseClashProxy(l).port)
<1>1. PICK c : c = parseClashProxy(l)
  OBVIOUS
<1>2. CASE l.scheme \in ClashSchemes
  <2>1. Parsed(l, c)
    <3>1. CASE l.scheme = "vmess"
      <4>1. c = ClashVMess(l)
        BY <1>1, <3>1, Zenon DEF parseClashProxy
      <4>. QED
        BY <4>1, ClashVMessParsed
    <3>2. CASE l.scheme = "vless"
      <4>1. c = ClashVLESS(l)
        BY <1>1, <3>2, Zenon DEF parseClashProxy
      <4>. QED
        BY <4>1, ClashVLESSParsed
    <3>3. CASE l.scheme = "trojan"
      <4>1. c = ClashTrojan(l)
        BY <1>1, <3>3, Zenon DEF parseClashProxy
      <4>. QED
        BY <4>1, ClashTrojanParsed
    <3>4. CASE l.scheme = "ss"
      <4>1. c = ClashShadowsocks(l)
        BY <1>1, <3>4, Zenon DEF parseClashProxy
      <4>. QED
        BY <4>1, ClashShadowsocksParsed
    <3>5. CASE l.scheme = "socks"
      <4>1. c = ClashSOCKS(l)
        BY <1>1, <3>5, Zenon DEF parseClashProxy
      <4>. QED
        BY <4>1, ClashPlainParsed
    <3>6. CASE l.scheme = "http"
      <4>1. c = ClashHTTP(l)
        BY <1>1, <3>6, Zenon DEF parseClashProxy
      <4>. QED
        BY <4>1, ClashHTTPParsed
    <3>7. CASE l.scheme = "wireguard"
      <4>1. c = ClashWireGuard(l)
        BY <1>1, <3>7, Zenon DEF parseClashProxy
      <4>. QED
        BY <4>1, ClashPlainParsed
    <3>. QED
      BY <1>2, <3>1, <3>2, <3>3, <3>4, <3>5, <3>6, <3>7 DEF ClashSchemes
  <2>. QED
    BY <1>1, <2>1 DEF Parsed
<1>3. CASE l.scheme \notin ClashSchemes
  <2>1. c = ParseError
    <3>1. /\ l.scheme # "vmess" /\ l.scheme # "vless" /\ l.scheme # "trojan" /\ l.scheme # "ss"
          /\ l.scheme # "wireguard" /\ l.scheme # "http" /\ l.scheme # "socks"
      BY <1>3 DEF ClashSchemes
    <3>. QED
      BY <1>1, <3>1, Zenon DEF parseClashProxy
  <2>. QED
    BY <1>1, <2>1
<1>. QED
  BY <1>2, <1>3

-----------------------------------------------------------------------------
\* Two outbounds that differ in some values only.

Within(leaves, values) == \A leaf \in leaves : leaf[3] \in values
AlikeBut(A, B, values) == Within(A \ B, values) /\ Within(B \ A, values)

\* A value that is missing, or one of some.
Allowed(value, values) == value = "" \/ value \in values

LEMMA AlikeUnion ==
  ASSUME NEW A, NEW B, NEW C, NEW D, NEW values, AlikeBut(A, B, values), AlikeBut(C, D, values)
  PROVE  AlikeBut(A \cup C, B \cup D, values)
  BY DEF AlikeBut, Within

LEMMA AlikeSame == ASSUME NEW A, NEW values PROVE AlikeBut(A, A, values)
  BY DEF AlikeBut, Within

LEMMA AlikeWithin ==
  ASSUME NEW A, NEW B, NEW values, Within(A, values), Within(B, values)
  PROVE  AlikeBut(A, B, values)
  BY DEF AlikeBut, Within

LEMMA EmptyWithin == ASSUME NEW values PROVE Within({}, values)
  BY DEF Within

LEMMA LeavesWithin ==
  ASSUME NEW part, NEW names, NEW f, NEW values, \A n \in names \cap DOMAIN f : Allowed(f[n], values)
  PROVE  Within(Leaves(part, names, f), values)
<1>. SUFFICES ASSUME NEW leaf \in Leaves(part, names, f) PROVE leaf[3] \in values
  BY DEF Within
<1>1. PICK n \in names \cap DOMAIN f : f[n] # "" /\ leaf = <<part, n, f[n]>>
  BY Zenon DEF Leaves
<1>2. f[n] \in values
  BY <1>1, Zenon DEF Allowed
<1>. QED
  BY <1>1, <1>2

LEMMA LeavesAlikeOneWay ==
  ASSUME NEW part, NEW names, NEW f, NEW g, NEW values, names \cap DOMAIN f \subseteq DOMAIN g,
         \A n \in names \cap DOMAIN f : f[n] = g[n] \/ Allowed(f[n], values)
  PROVE  Within(Leaves(part, names, f) \ Leaves(part, names, g), values)
<1>. SUFFICES ASSUME NEW leaf \in Leaves(part, names, f), leaf \notin Leaves(part, names, g) PROVE leaf[3] \in values
  BY DEF Within
<1>1. PICK n \in names \cap DOMAIN f : f[n] # "" /\ leaf = <<part, n, f[n]>>
  BY Zenon DEF Leaves
<1>2. CASE f[n] = g[n]
  <2>1. n \in names \cap DOMAIN g /\ g[n] # "" /\ leaf = <<part, n, g[n]>>
    BY <1>1, <1>2
  <2>. QED
    BY <2>1, LeavesOf, Zenon
<1>3. CASE Allowed(f[n], values)
  <2>1. f[n] \in values
    BY <1>1, <1>3, Zenon DEF Allowed
  <2>. QED
    BY <1>1, <2>1
<1>. QED
  BY <1>2, <1>3, Zenon

\* Settings of the same names differ where their values do.
LEMMA LeavesAlike ==
  ASSUME NEW part, NEW names, NEW f, NEW g, NEW values, names \cap DOMAIN f = names \cap DOMAIN g,
         \A n \in names \cap DOMAIN f : f[n] = g[n] \/ (Allowed(f[n], values) /\ Allowed(g[n], values))
  PROVE  AlikeBut(Leaves(part, names, f), Leaves(part, names, g), values)
<1>1. Within(Leaves(part, names, f) \ Leaves(part, names, g), values)
  BY LeavesAlikeOneWay
<1>2. Within(Leaves(part, names, g) \ Leaves(part, names, f), values)
  BY LeavesAlikeOneWay
<1>. QED
  BY <1>1, <1>2 DEF AlikeBut

LEMMA CopiedIs ==
  ASSUME NEW t, NEW named, NEW names
  PROVE  /\ t.of = named => Copied(t, named, names) = Leaves(named, names[named], t)
         /\ t.of # named => Copied(t, named, names) = {}
  BY Zenon DEF Copied

LEMMA NothingCopied == ASSUME NEW named, named # "nil", NEW names PROVE Copied(Nil, named, names) = {}
<1>1. Nil.of # named
  BY DEF Nil
<1>. QED
  BY <1>1, CopiedIs, Zenon

LEMMA CanonicalIs ==
  ASSUME NEW x
  PROVE  /\ x \in {"ws", "websocket"} => Canonical(x) = "ws"
         /\ x \in {"grpc", "gun"} => Canonical(x) = "grpc"
         /\ x \in {"h2", "http"} => Canonical(x) = "h2"
         /\ x \in {"kcp", "mkcp"} => Canonical(x) = "kcp"
         /\ x \in {"splithttp", "xhttp"} => Canonical(x) = "splithttp"
         /\ x \notin {"ws", "websocket", "grpc", "gun", "h2", "http", "kcp", "mkcp", "splithttp", "xhttp"} => Canonical(x) = x
<1>1. x \in {"ws", "websocket"} => Canonical(x) = "ws"
  BY Zenon DEF Canonical
<1>2. x \in {"grpc", "gun"} => Canonical(x) = "grpc"
  BY Zenon DEF Canonical
<1>3. x \in {"h2", "http"} => Canonical(x) = "h2"
  BY Zenon DEF Canonical
<1>4. x \in {"kcp", "mkcp"} => Canonical(x) = "kcp"
  BY Zenon DEF Canonical
<1>5. x \in {"splithttp", "xhttp"} => Canonical(x) = "splithttp"
  BY Zenon DEF Canonical
<1>6. x \notin {"ws", "websocket", "grpc", "gun", "h2", "http", "kcp", "mkcp", "splithttp", "xhttp"} => Canonical(x) = x
  BY Zenon DEF Canonical
<1>. QED
  BY <1>1, <1>2, <1>3, <1>4, <1>5, <1>6

LEMMA CanonicalTwice ==
  ASSUME NEW x
  PROVE  Canonical(Canonical(x)) = Canonical(x) /\ (x # "nil" => Canonical(x) # "nil")
         /\ (Canonical(x) = "tcp" => x = "tcp") /\ (Canonical(x) = "quic" => x = "quic")
  BY CanonicalIs

\* The settings of a security and of a transport.
SecurityLeaves(security, tls, reality) ==
  Copied(tls, security, SecurityNames) \cup Copied(reality, security, SecurityNames)
TransportLeaves(network, known, transport) ==
  Copied(IF network \in known THEN transport ELSE Nil, network, TransportNames)
NetworkOf(l) == Canonical(Or(l.type, "tcp"))

LEMMA StreamLeaves ==
  ASSUME NEW l \in NodeSources, NEW known, NEW security, NEW tls, NEW reality, NEW transport
  PROVE  /\ buildStreamJSON(Stream(l, known, security, tls, reality, transport)).leaves =
              SecurityLeaves(security, tls, reality) \cup TransportLeaves(NetworkOf(l), known, transport)
         /\ buildStreamJSON(Stream(l, known, security, tls, reality, transport)).network = NetworkOf(l)
         /\ buildStreamJSON(Stream(l, known, security, tls, reality, transport)).security = security
<1>1. PICK s, t : /\ s = Stream(l, known, security, tls, reality, transport)
                  /\ t = IF NetworkOf(l) \in known THEN transport ELSE Nil
  OBVIOUS
<1>2. /\ s.network = IF NetworkOf(l) \in known THEN NetworkOf(l) ELSE Or(l.type, "tcp")
      /\ s.security = security /\ s.tls = tls /\ s.reality = reality /\ s.transport = t /\ s # NoStream
  BY <1>1, StreamIs DEF NetworkOf
<1>3. Canonical(s.network) = NetworkOf(l)
  <2>1. Canonical(NetworkOf(l)) = NetworkOf(l)
    BY CanonicalTwice, Zenon DEF NetworkOf
  <2>. QED
    BY <1>2, <2>1, Zenon DEF NetworkOf
<1>4. buildStreamJSON(s).leaves = SecurityLeaves(security, tls, reality) \cup Copied(t, NetworkOf(l), TransportNames)
  <2>1. buildStreamJSON(s).leaves =
          Copied(s.tls, s.security, SecurityNames) \cup Copied(s.reality, s.security, SecurityNames)
          \cup Copied(s.transport, Canonical(s.network), TransportNames)
    BY <1>2, StreamJSONIs, Zenon
  <2>. QED
    BY <1>2, <1>3, <2>1, Zenon DEF SecurityLeaves
<1>5. buildStreamJSON(s).network = NetworkOf(l) /\ buildStreamJSON(s).security = security
  BY <1>2, <1>3, StreamJSONIs, Zenon
<1>. QED
  BY <1>1, <1>4, <1>5, Zenon DEF TransportLeaves

LEMMA SecurityLeavesAre ==
  ASSUME NEW m, NEW name, NEW other
  PROVE  /\ SecurityLeaves("tls", Tls(m, name, other), Nil) = Leaves("tls", SecurityNames["tls"], Tls(m, name, other))
         /\ SecurityLeaves("reality", Nil, Reality(m, name, other)) =
              Leaves("reality", SecurityNames["reality"], Reality(m, name, other))
         /\ SecurityLeaves("none", Nil, Nil) = {}
<1>1. /\ Copied(Nil, "tls", SecurityNames) = {} /\ Copied(Nil, "reality", SecurityNames) = {}
      /\ Copied(Nil, "none", SecurityNames) = {}
  <2>1. "tls" # "nil" /\ "reality" # "nil" /\ "none" # "nil"
    OBVIOUS
  <2>. QED
    BY <2>1, NothingCopied, Zenon
<1>2. PICK t, r : t = Tls(m, name, other) /\ r = Reality(m, name, other)
  OBVIOUS
<1>3. t.of = "tls" /\ r.of = "reality"
  BY <1>2, TlsIs, RealityIs
<1>4. Copied(t, "tls", SecurityNames) = Leaves("tls", SecurityNames["tls"], t)
  BY <1>3, CopiedIs, Zenon
<1>5. Copied(r, "reality", SecurityNames) = Leaves("reality", SecurityNames["reality"], r)
  BY <1>3, CopiedIs, Zenon
<1>. QED
  BY <1>1, <1>2, <1>4, <1>5 DEF SecurityLeaves

LEMMA TlsWithin ==
  ASSUME NEW m, NEW name, NEW fp, NEW values, Allowed(name, values), Allowed(fp, values), Allowed(Q(m, "alpn"), values)
  PROVE  Within(SecurityLeaves("tls", Tls(m, name, fp), Nil), values)
<1>1. PICK t : t = Tls(m, name, fp)
  OBVIOUS
<1>2. t.serverName = name /\ t.fingerprint = fp /\ t.alpn = Q(m, "alpn")
  BY <1>1, TlsIs
<1>3. SecurityNames["tls"] = {"serverName", "alpn", "fingerprint"}
  BY DEF SecurityNames
<1>4. \A n \in SecurityNames["tls"] \cap DOMAIN t : Allowed(t[n], values)
  BY <1>2, <1>3
<1>. QED
  BY <1>1, <1>4, LeavesWithin, SecurityLeavesAre

LEMMA RealityWithin ==
  ASSUME NEW m, NEW name, NEW x, NEW values, Allowed(name, values), Allowed(x, values),
         Allowed(Q(m, "pbk"), values), Allowed(Q(m, "sid"), values), Allowed(Q(m, "fp"), values)
  PROVE  Within(SecurityLeaves("reality", Nil, Reality(m, name, x)), values)
<1>1. PICK t : t = Reality(m, name, x)
  OBVIOUS
<1>2. t.serverName = name /\ t.publicKey = Q(m, "pbk") /\ t.shortId = Q(m, "sid") /\ t.spiderX = x /\ t.fingerprint = Q(m, "fp")
  BY <1>1, RealityIs
<1>3. SecurityNames["reality"] = {"serverName", "publicKey", "shortId", "spiderX", "fingerprint"}
  BY DEF SecurityNames
<1>4. \A n \in SecurityNames["reality"] \cap DOMAIN t : Allowed(t[n], values)
  BY <1>2, <1>3
<1>. QED
  BY <1>1, <1>4, LeavesWithin, SecurityLeavesAre

\* Equal, or both missing or among some.
Near(v, w, values) == v = w \/ (Allowed(v, values) /\ Allowed(w, values))

LEMMA TlsAlike ==
  ASSUME NEW m, NEW name, NEW fp, NEW o, NEW other, NEW print, NEW values,
         Near(name, other, values), Near(fp, print, values), Near(Q(m, "alpn"), Q(o, "alpn"), values)
  PROVE  AlikeBut(SecurityLeaves("tls", Tls(m, name, fp), Nil), SecurityLeaves("tls", Tls(o, other, print), Nil), values)
<1>1. PICK t, u : t = Tls(m, name, fp) /\ u = Tls(o, other, print)
  OBVIOUS
<1>2. /\ t.serverName = name /\ t.fingerprint = fp /\ t.alpn = Q(m, "alpn")
      /\ u.serverName = other /\ u.fingerprint = print /\ u.alpn = Q(o, "alpn")
      /\ DOMAIN t = DOMAIN u
  BY <1>1, TlsIs
<1>3. SecurityNames["tls"] = {"serverName", "alpn", "fingerprint"}
  BY DEF SecurityNames
<1>4. \A n \in SecurityNames["tls"] \cap DOMAIN t : t[n] = u[n] \/ (Allowed(t[n], values) /\ Allowed(u[n], values))
  BY <1>2, <1>3 DEF Near
<1>5. PICK names : names = SecurityNames["tls"]
  OBVIOUS
<1>6. AlikeBut(Leaves("tls", names, t), Leaves("tls", names, u), values)
  BY <1>2, <1>4, <1>5, LeavesAlike
<1>. QED
  BY <1>1, <1>5, <1>6, SecurityLeavesAre

LEMMA PathHostIs ==
  ASSUME NEW of, NEW l
  PROVE  /\ PathHost(of, l).of = of /\ PathHost(of, l).path = Q(l, "path") /\ PathHost(of, l).host = Q(l, "host")
         /\ DOMAIN PathHost(of, l) = {"of", "path", "host"}
<1>1. PICK path, host : path = Q(l, "path") /\ host = Q(l, "host")
  OBVIOUS
<1>2. PICK t : t = PathHost(of, l)
  OBVIOUS
<1>3. t = [of |-> of, path |-> path, host |-> host]
  BY <1>1, <1>2, Zenon DEF PathHost
<1>4. t.of = of /\ t.path = path /\ t.host = host /\ DOMAIN t = {"of", "path", "host"}
  BY <1>3
<1>. QED
  BY <1>1, <1>2, <1>4, Zenon

LEMMA GrpcIs ==
  ASSUME NEW serviceName, NEW multiMode
  PROVE  /\ Grpc(serviceName, multiMode).of = "grpc" /\ Grpc(serviceName, multiMode).serviceName = serviceName
         /\ Grpc(serviceName, multiMode).multiMode = multiMode
         /\ DOMAIN Grpc(serviceName, multiMode) = {"of", "serviceName", "multiMode"}
  BY DEF Grpc

TransportNamesAre ==
  /\ TransportNames["ws"] = {"path", "host"} /\ TransportNames["h2"] = {"path", "host"}
  /\ TransportNames["grpc"] = {"serviceName", "multiMode"} /\ TransportNames["kcp"] = {"header", "seed"}
  /\ TransportNames["httpupgrade"] = {"path", "host"} /\ TransportNames["splithttp"] = {"path", "host", "mode"}
  /\ TransportNames["tcp"] = {"header", "path", "host"}

LEMMA TransportNamesHold == TransportNamesAre
  BY DEF TransportNamesAre, TransportNames

\* The settings of a network that a transport gives.
Plain(t, network, values) == \A n \in TransportNames[network] \cap DOMAIN t : Allowed(t[n], values)

LEMMA NoTransport ==
  ASSUME NEW network, NEW known, NEW t, network # "nil", network \notin known \/ t.of # network
  PROVE  TransportLeaves(network, known, t) = {}
<1>1. PICK u : u = IF network \in known THEN t ELSE Nil
  OBVIOUS
<1>2. u.of # network
  <2>1. Nil.of # network
    BY DEF Nil
  <2>. QED
    BY <1>1, <2>1
<1>. QED
  BY <1>1, <1>2, CopiedIs, Zenon DEF TransportLeaves

LEMMA OneTransport ==
  ASSUME NEW network, NEW known, NEW t, network \in known, t.of = network
  PROVE  TransportLeaves(network, known, t) = Leaves(network, TransportNames[network], t)
<1>1. TransportLeaves(network, known, t) = Copied(t, network, TransportNames)
  BY Zenon DEF TransportLeaves
<1>. QED
  BY <1>1, CopiedIs, Zenon

LEMMA TransportWithin ==
  ASSUME NEW network, NEW known, NEW t, NEW values, network # "nil",
         network \in known /\ t.of = network => Plain(t, network, values)
  PROVE  Within(TransportLeaves(network, known, t), values)
<1>1. CASE network \in known /\ t.of = network
  <2>1. PICK names : names = TransportNames[network]
    OBVIOUS
  <2>2. \A n \in names \cap DOMAIN t : Allowed(t[n], values)
    BY <1>1, <2>1, Zenon DEF Plain
  <2>3. TransportLeaves(network, known, t) = Leaves(network, names, t)
    BY <1>1, <2>1, OneTransport, Zenon
  <2>. QED
    BY <2>2, <2>3, LeavesWithin
<1>2. CASE network \notin known \/ t.of # network
  <2>1. TransportLeaves(network, known, t) = {}
    BY <1>2, NoTransport, Zenon
  <2>. QED
    BY <2>1, EmptyWithin
<1>. QED
  BY <1>1, <1>2, Zenon

LEMMA PathHostPlain ==
  ASSUME NEW of \in {"ws", "h2", "httpupgrade"}, NEW l, NEW values, Allowed(Q(l, "path"), values), Allowed(Q(l, "host"), values)
  PROVE  Plain(PathHost(of, l), of, values)
<1>1. PICK t : t = PathHost(of, l)
  OBVIOUS
<1>2. Allowed(t["path"], values) /\ Allowed(t["host"], values)
  BY <1>1, PathHostIs
<1>3. TransportNames[of] = {"path", "host"}
  BY TransportNamesHold DEF TransportNamesAre
<1>4. Plain(t, of, values)
  BY <1>2, <1>3 DEF Plain
<1>. QED
  BY <1>1, <1>4, Zenon

LEMMA GrpcPlain ==
  ASSUME NEW serviceName, NEW multiMode, NEW values, Allowed(serviceName, values), Allowed(multiMode, values)
  PROVE  Plain(Grpc(serviceName, multiMode), "grpc", values)
<1>1. PICK t : t = Grpc(serviceName, multiMode)
  OBVIOUS
<1>2. Allowed(t["serviceName"], values) /\ Allowed(t["multiMode"], values)
  BY <1>1, GrpcIs
<1>3. TransportNames["grpc"] = {"serviceName", "multiMode"}
  BY TransportNamesHold DEF TransportNamesAre
<1>4. Plain(t, "grpc", values)
  BY <1>2, <1>3 DEF Plain
<1>. QED
  BY <1>1, <1>4, Zenon

LEMMA TcpHttpPlain ==
  ASSUME NEW l, NEW values, "header" \in values, Allowed(Q(l, "path"), values), Allowed(Q(l, "host"), values)
  PROVE  Plain(TcpHttp(l), "tcp", values)
<1>1. PICK t, path, host : t = TcpHttp(l) /\ path = Q(l, "path") /\ host = Q(l, "host")
  OBVIOUS
<1>2. TransportNames["tcp"] = {"header", "path", "host"}
  BY TransportNamesHold DEF TransportNamesAre
<1>3. CASE "header" \in l.given
  <2>1. t = [of |-> "tcp", header |-> "header", path |-> path, host |-> host]
    BY <1>1, <1>3, Zenon DEF TcpHttp
  <2>2. t["header"] = "header" /\ t["path"] = path /\ t["host"] = host
    BY <2>1
  <2>3. Allowed("header", values) /\ Allowed(path, values) /\ Allowed(host, values)
    BY <1>1, Zenon DEF Allowed
  <2>4. Plain(t, "tcp", values)
    BY <1>2, <2>2, <2>3 DEF Plain
  <2>. QED
    BY <1>1, <2>4, Zenon
<1>4. CASE "header" \notin l.given
  <2>1. t = Nil
    BY <1>1, <1>4, Zenon DEF TcpHttp
  <2>2. DOMAIN t = {"of"}
    BY <2>1 DEF Nil
  <2>3. Plain(t, "tcp", values)
    BY <1>2, <2>2 DEF Plain
  <2>. QED
    BY <1>1, <2>3, Zenon
<1>. QED
  BY <1>3, <1>4

-----------------------------------------------------------------------------
\* Where links and Clash nodes may differ.

OtherType(l) == l.type \notin {"", "tcp", "ws", "grpc"}

GapsAre(l) ==
  /\ {"peer", "service-name", "public-key", "psk", "local-address"} \subseteq ClashGaps(l)
  /\ l.scheme \in {"vmess", "trojan"} => "fp" \in ClashGaps(l)
  /\ l.scheme = "trojan" /\ "sni" \notin l.given => Address \in ClashGaps(l)
  /\ l.scheme = "trojan" /\ l.security = "reality" =>
       {"sni", Address, "alpn", "pbk", "sid", "spx", "fp"} \subseteq ClashGaps(l)
  /\ l.scheme = "vless" /\ l.security = "reality" => {"sni", "alpn", "pbk", "sid", "spx", "fp"} \subseteq ClashGaps(l)
  /\ l.scheme = "http" => {Address, "sni"} \subseteq ClashGaps(l)
  /\ l.scheme = "wireguard" /\ "address" \notin l.given => "10.0.0.2/32" \in ClashGaps(l)
  /\ l.scheme = "ss" /\ "nocolon" \in l.given => {"aes-256-gcm", "method", "user"} \subseteq ClashGaps(l)
  /\ l.type = "grpc" => "mode" \in ClashGaps(l)
  /\ OtherType(l) => {"path", "host", "serviceName", "mode", "seed"} \subseteq ClashGaps(l)
  /\ l.type \in {"", "tcp"} => {"header", "path", "host"} \subseteq ClashGaps(l)
  /\ OtherType(l) /\ Canonical(l.type) = "kcp" => "header" \in ClashGaps(l)

LEMMA GapsHold == ASSUME NEW l PROVE GapsAre(l)
<1>1. PICK R : R = SecurityParameters["reality"]
  OBVIOUS
<1>2. R = {"sni", "pbk", "sid", "spx", "fp"}
  BY <1>1 DEF SecurityParameters
<1>3. PICK G : G = ClashGaps(l)
  OBVIOUS
<1>4. PICK A, B, C :
        /\ A = {"peer", "service-name", "public-key", "psk", "local-address"}
        /\ B = (IF l.scheme \in {"vmess", "trojan"} THEN {"fp"} ELSE {})
        /\ C = (IF l.scheme = "trojan" /\ "sni" \notin l.given THEN {Address} ELSE {})
  OBVIOUS
<1>5. PICK D, E, F :
        /\ D = (IF l.scheme = "trojan" /\ l.security = "reality" THEN {"sni", Address, "alpn"} \cup R ELSE {})
        /\ E = (IF l.scheme = "vless" /\ l.security = "reality" THEN R \cup {"alpn"} ELSE {})
        /\ F = (IF l.scheme = "http" THEN {Address, "sni"} ELSE {})
  OBVIOUS
<1>6. PICK H, I :
        /\ H = (IF l.scheme = "wireguard" /\ "address" \notin l.given THEN {"10.0.0.2/32"} ELSE {})
        /\ I = (IF l.scheme = "ss" /\ "nocolon" \in l.given THEN {"aes-256-gcm", "method", "user"} ELSE {})
  OBVIOUS
<1>7. PICK J, K :
        /\ J = (IF l.type = "grpc" THEN {"mode"} ELSE {})
        /\ K = (IF l.type \in {"", "tcp", "ws", "grpc"} THEN {} ELSE {"path", "host", "serviceName", "mode", "seed"})
  OBVIOUS
<1>8. PICK L : L = (IF l.type \in {"", "tcp"} THEN {"header", "path", "host"}
                    ELSE IF Canonical(l.type) = "kcp" THEN {"header"} ELSE {})
  OBVIOUS
<1>9. G = A \cup B \cup C \cup D \cup E \cup F \cup H \cup I \cup J \cup K \cup L
  BY <1>1, <1>3, <1>4, <1>5, <1>6, <1>7, <1>8, Zenon DEF ClashGaps
<1>10. /\ A \subseteq G /\ B \subseteq G /\ C \subseteq G /\ D \subseteq G /\ E \subseteq G /\ F \subseteq G
       /\ H \subseteq G /\ I \subseteq G /\ J \subseteq G /\ K \subseteq G /\ L \subseteq G
  BY <1>9
<1>11. /\ {"peer", "service-name", "public-key", "psk", "local-address"} \subseteq G
       /\ l.scheme \in {"vmess", "trojan"} => "fp" \in G
       /\ l.scheme = "trojan" /\ "sni" \notin l.given => Address \in G
  BY <1>4, <1>10
<1>12. /\ l.scheme = "trojan" /\ l.security = "reality" => {"sni", Address, "alpn", "pbk", "sid", "spx", "fp"} \subseteq G
       /\ l.scheme = "vless" /\ l.security = "reality" => {"sni", "alpn", "pbk", "sid", "spx", "fp"} \subseteq G
  BY <1>2, <1>5, <1>10
<1>13. /\ l.scheme = "http" => {Address, "sni"} \subseteq G
       /\ l.scheme = "wireguard" /\ "address" \notin l.given => "10.0.0.2/32" \in G
       /\ l.scheme = "ss" /\ "nocolon" \in l.given => {"aes-256-gcm", "method", "user"} \subseteq G
  BY <1>5, <1>6, <1>10
<1>14. /\ l.type = "grpc" => "mode" \in G
       /\ OtherType(l) => {"path", "host", "serviceName", "mode", "seed"} \subseteq G
       /\ l.type \in {"", "tcp"} => {"header", "path", "host"} \subseteq G
       /\ OtherType(l) /\ Canonical(l.type) = "kcp" => "header" \in G
  BY <1>7, <1>8, <1>10 DEF OtherType
<1>. QED
  BY <1>3, <1>11, <1>12, <1>13, <1>14 DEF GapsAre

LEMMA QAllowed == ASSUME NEW l, NEW key, NEW values, key \in values PROVE Allowed(Q(l, key), values)
  BY QIs DEF Allowed

\* What a transport of another type has is not asked of both.
LEMMA OtherAllowed ==
  ASSUME NEW l, OtherType(l)
  PROVE  /\ Allowed(Q(l, "path"), ClashGaps(l)) /\ Allowed(Q(l, "host"), ClashGaps(l))
         /\ Allowed(Q(l, "serviceName"), ClashGaps(l)) /\ Allowed(Q(l, "mode"), ClashGaps(l))
         /\ Allowed(Q(l, "seed"), ClashGaps(l)) /\ Allowed("", ClashGaps(l))
         /\ Allowed(ServiceName(l), ClashGaps(l))
         /\ Canonical(l.type) = "kcp" => Allowed(Q(l, "header"), ClashGaps(l))
<1>1. PICK G : G = ClashGaps(l)
  OBVIOUS
<1>2. {"path", "host", "serviceName", "mode", "seed", "service-name"} \subseteq G
  BY <1>1, GapsHold DEF GapsAre
<1>3. /\ Allowed(Q(l, "path"), G) /\ Allowed(Q(l, "host"), G) /\ Allowed(Q(l, "serviceName"), G)
      /\ Allowed(Q(l, "mode"), G) /\ Allowed(Q(l, "seed"), G)
  BY <1>2, QAllowed
<1>4. Allowed(ServiceName(l), G)
  BY <1>2, OfTwo DEF ServiceName, Allowed
<1>5. Canonical(l.type) = "kcp" => Allowed(Q(l, "header"), G)
  BY <1>1, GapsHold, QAllowed DEF GapsAre
<1>6. Allowed("", G)
  BY DEF Allowed
<1>. QED
  BY <1>1, <1>3, <1>4, <1>5, <1>6

LEMMA NetworkIs ==
  ASSUME NEW l \in NodeSources
  PROVE  /\ NetworkOf(l) # "nil"
         /\ l.type \in {"", "tcp"} => NetworkOf(l) = "tcp"
         /\ l.type # "" => NetworkOf(l) = Canonical(l.type)
         /\ l.type = "ws" => NetworkOf(l) = "ws"
         /\ l.type = "grpc" => NetworkOf(l) = "grpc"
         /\ OtherType(l) => NetworkOf(l) # "tcp"
<1>1. PICK x : x = Or(l.type, "tcp")
  OBVIOUS
<1>2. x = (IF l.type = "" THEN "tcp" ELSE l.type) /\ NetworkOf(l) = Canonical(x)
  BY <1>1, Zenon DEF NetworkOf, Or
<1>3. l.type # "nil"
  BY NodeIs, Zenon
<1>4. x # "nil" /\ (l.type \in {"", "tcp"} => x = "tcp") /\ (l.type # "" => x = l.type)
      /\ (OtherType(l) => x # "tcp" /\ x = l.type)
  BY <1>2, <1>3 DEF OtherType
<1>5. Canonical("tcp") = "tcp" /\ Canonical("ws") = "ws" /\ Canonical("grpc") = "grpc"
  BY CanonicalIs
<1>6. Canonical(x) # "nil" /\ (Canonical(x) = "tcp" => x = "tcp")
  BY <1>4, CanonicalTwice, Zenon
<1>. QED
  BY <1>2, <1>4, <1>5, <1>6

\* The transport of a Clash node.
LEMMA ClashTransportIs ==
  ASSUME NEW l
  PROVE  /\ l.type = "grpc" => ClashTransport(l) = Grpc(Q(l, "serviceName"), "")
         /\ l.type \in {"ws", "h2"} => ClashTransport(l) = PathHost(l.type, l)
         /\ l.type \notin {"grpc", "ws", "h2"} => ClashTransport(l) = Nil
  BY Zenon DEF ClashTransport


LEMMA ClashTransportWithin ==
  ASSUME NEW l \in NodeSources, OtherType(l), NEW known
  PROVE  Within(TransportLeaves(NetworkOf(l), known, ClashTransport(l)), ClashGaps(l))
<1>1. PICK n, t, G : n = NetworkOf(l) /\ t = ClashTransport(l) /\ G = ClashGaps(l)
  OBVIOUS
<1>2. n # "nil"
  BY <1>1, NetworkIs, Zenon
<1>3. CASE l.type = "h2"
  <2>1. t = PathHost("h2", l)
    BY <1>1, <1>3, ClashTransportIs
  <2>2. Plain(t, "h2", G) /\ t.of = "h2"
    BY <1>1, <2>1, OtherAllowed, PathHostPlain, PathHostIs
  <2>3. n \in known /\ t.of = n => Plain(t, n, G)
    BY <2>2, Zenon
  <2>4. Within(TransportLeaves(n, known, t), G)
    BY <1>2, <2>3, TransportWithin, Zenon
  <2>. QED
    BY <1>1, <2>4, Zenon
<1>4. CASE l.type # "h2"
  <2>1. t = Nil
    BY <1>1, <1>4, ClashTransportIs DEF OtherType
  <2>2. t.of # n
    BY <1>2, <2>1 DEF Nil
  <2>3. Within(TransportLeaves(n, known, t), G)
    BY <1>2, <2>2, TransportWithin, Zenon
  <2>. QED
    BY <1>1, <2>3, Zenon
<1>. QED
  BY <1>3, <1>4

\* What the transport of a link is, for the types that a Clash node has too.
LinkTransport(l, known, t) ==
  /\ {"ws", "grpc"} \subseteq known
  /\ l.type \notin {"ws", "grpc"} => Within(TransportLeaves(NetworkOf(l), known, t), ClashGaps(l))
  /\ l.type = "ws" => t.of = "ws" /\ {"path", "host"} \subseteq DOMAIN t /\ t["path"] = Q(l, "path") /\ t["host"] = Q(l, "host")
  /\ l.type = "grpc" =>
       \E serviceName, multiMode :
         /\ t = Grpc(serviceName, multiMode)
         /\ Near(serviceName, Q(l, "serviceName"), ClashGaps(l)) /\ Allowed(multiMode, ClashGaps(l))

LEMMA TransportAlike ==
  ASSUME NEW l \in NodeSources, NEW known, NEW t, LinkTransport(l, known, t), NEW h2 \in {{}, {"h2"}}
  PROVE  AlikeBut(TransportLeaves(NetworkOf(l), known, t),
                  TransportLeaves(NetworkOf(l), {"ws", "grpc"} \cup h2, ClashTransport(l)), ClashGaps(l))
<1>1. PICK n, u, G, other : n = NetworkOf(l) /\ u = ClashTransport(l) /\ G = ClashGaps(l) /\ other = {"ws", "grpc"} \cup h2
  OBVIOUS
<1>2. n # "nil" /\ "ws" \in other /\ "grpc" \in other /\ "tcp" \notin other
  BY <1>1, NetworkIs
<1>3. CASE l.type = "ws"
  <2>1. n = "ws" /\ u = PathHost("ws", l)
    BY <1>1, <1>3, NetworkIs, ClashTransportIs
  <2>2. PICK names : names = TransportNames["ws"]
    OBVIOUS
  <2>3. names = {"path", "host"}
    BY <2>2, TransportNamesHold DEF TransportNamesAre
  <2>4. u.of = "ws" /\ u["path"] = Q(l, "path") /\ u["host"] = Q(l, "host") /\ DOMAIN u = {"of", "path", "host"}
    BY <2>1, PathHostIs
  <2>5. t.of = "ws" /\ {"path", "host"} \subseteq DOMAIN t /\ t["path"] = Q(l, "path") /\ t["host"] = Q(l, "host")
    BY <1>3, Zenon DEF LinkTransport
  <2>6. names \cap DOMAIN t = names \cap DOMAIN u /\ \A k \in names \cap DOMAIN t : t[k] = u[k]
    BY <2>3, <2>4, <2>5
  <2>7. AlikeBut(Leaves("ws", names, t), Leaves("ws", names, u), G)
    BY <2>6, LeavesAlike
  <2>8. TransportLeaves("ws", known, t) = Leaves("ws", names, t) /\ TransportLeaves("ws", other, u) = Leaves("ws", names, u)
    <3>1. "ws" \in known
      BY DEF LinkTransport
    <3>. QED
      BY <1>2, <2>2, <2>4, <2>5, <3>1, OneTransport
  <2>. QED
    BY <1>1, <2>1, <2>7, <2>8
<1>4. CASE l.type = "grpc"
  <2>1. n = "grpc" /\ u = Grpc(Q(l, "serviceName"), "")
    BY <1>1, <1>4, NetworkIs, ClashTransportIs
  <2>2. PICK names : names = TransportNames["grpc"]
    OBVIOUS
  <2>3. names = {"serviceName", "multiMode"}
    BY <2>2, TransportNamesHold DEF TransportNamesAre
  <2>4. PICK serviceName, multiMode : /\ t = Grpc(serviceName, multiMode)
                                      /\ Near(serviceName, Q(l, "serviceName"), G) /\ Allowed(multiMode, G)
    BY <1>1, <1>4, Zenon DEF LinkTransport
  <2>5. u.of = "grpc" /\ u["serviceName"] = Q(l, "serviceName") /\ u["multiMode"] = ""
        /\ DOMAIN u = {"of", "serviceName", "multiMode"}
    <3>1. PICK value : value = Q(l, "serviceName")
      OBVIOUS
    <3>2. u = Grpc(value, "")
      BY <2>1, <3>1, Zenon
    <3>3. /\ Grpc(value, "").of = "grpc" /\ Grpc(value, "").serviceName = value /\ Grpc(value, "").multiMode = ""
          /\ DOMAIN Grpc(value, "") = {"of", "serviceName", "multiMode"}
      BY DEF Grpc
    <3>. QED
      BY <3>1, <3>2, <3>3, Zenon
  <2>6. t.of = "grpc" /\ t["serviceName"] = serviceName /\ t["multiMode"] = multiMode
        /\ DOMAIN t = {"of", "serviceName", "multiMode"}
    BY <2>4, GrpcIs
  <2>7. names \cap DOMAIN t = names \cap DOMAIN u
    BY <2>5, <2>6
  <2>8. \A k \in names \cap DOMAIN t : t[k] = u[k] \/ (Allowed(t[k], G) /\ Allowed(u[k], G))
    <3>1. Near(t["serviceName"], u["serviceName"], G) /\ Allowed(t["multiMode"], G) /\ Allowed(u["multiMode"], G)
      BY <2>4, <2>5, <2>6 DEF Allowed
    <3>. QED
      BY <2>3, <3>1 DEF Near
  <2>9. AlikeBut(Leaves("grpc", names, t), Leaves("grpc", names, u), G)
    BY <2>7, <2>8, LeavesAlike
  <2>10. TransportLeaves("grpc", known, t) = Leaves("grpc", names, t)
         /\ TransportLeaves("grpc", other, u) = Leaves("grpc", names, u)
    <3>1. "grpc" \in known
      BY DEF LinkTransport
    <3>. QED
      BY <1>2, <2>2, <2>5, <2>6, <3>1, OneTransport
  <2>. QED
    BY <1>1, <2>1, <2>9, <2>10
<1>5. CASE l.type \notin {"ws", "grpc"}
  <2>1. Within(TransportLeaves(n, known, t), G)
    BY <1>1, <1>5, Zenon DEF LinkTransport
  <2>2. Within(TransportLeaves(n, other, u), G)
    <3>1. CASE OtherType(l)
      BY <1>1, <3>1, ClashTransportWithin
    <3>2. CASE ~OtherType(l)
      <4>1. n = "tcp"
        BY <1>1, <1>5, <3>2, NetworkIs DEF OtherType
      <4>2. TransportLeaves(n, other, u) = {}
        BY <1>2, <4>1, NoTransport
      <4>. QED
        BY <4>2, EmptyWithin
    <3>. QED
      BY <3>1, <3>2
  <2>3. AlikeBut(TransportLeaves(n, known, t), TransportLeaves(n, other, u), G)
    BY <2>1, <2>2, AlikeWithin
  <2>. QED
    BY <1>1, <2>3, Zenon
<1>. QED
  BY <1>3, <1>4, <1>5

LEMMA V2RayNTransportIs ==
  ASSUME NEW l
  PROVE  /\ Canonical(l.type) \in {"ws", "h2"} => V2RayNTransport(l) = PathHost(Canonical(l.type), l)
         /\ Canonical(l.type) = "grpc" => V2RayNTransport(l) = Grpc(Q(l, "serviceName"), "")
         /\ Canonical(l.type) = "tcp" => V2RayNTransport(l) = TcpHttp(l)
         /\ Canonical(l.type) = "kcp" => V2RayNTransport(l) = [of |-> "kcp", header |-> Q(l, "header"), seed |-> ""]
         /\ Canonical(l.type) \notin {"ws", "h2", "grpc", "tcp", "kcp"} => V2RayNTransport(l) = Nil
  BY Zenon DEF V2RayNTransport

LEMMA V2RayNLinkTransport ==
  ASSUME NEW l \in NodeSources
  PROVE  LinkTransport(l, {"ws", "h2", "grpc", "tcp", "kcp"}, V2RayNTransport(l))
<1>1. PICK n, t, G, known, m : /\ n = NetworkOf(l) /\ t = V2RayNTransport(l) /\ G = ClashGaps(l)
                               /\ known = {"ws", "h2", "grpc", "tcp", "kcp"} /\ m = Canonical(l.type)
  OBVIOUS
<1>2. n # "nil" /\ (l.type # "" => n = m) /\ (l.type \in {"", "tcp"} => n = "tcp")
  BY <1>1, NetworkIs
<1>3. {"ws", "grpc"} \subseteq known
  BY <1>1
<1>4. ASSUME OtherType(l) PROVE Within(TransportLeaves(n, known, t), G)
  <2>1. n = m
    BY <1>2, <1>4 DEF OtherType
  <2>2. n # "tcp"
    BY <1>1, <1>4, NetworkIs
  <2>3. n \in known /\ t.of = n => Plain(t, n, G)
    <3>1. CASE n \in {"ws", "h2"}
      <4>1. t = PathHost(n, l)
        BY <1>1, <2>1, <3>1, V2RayNTransportIs
      <4>. QED
        BY <1>1, <1>4, <3>1, <4>1, OtherAllowed, PathHostPlain
    <3>2. CASE n = "grpc"
      <4>1. t = Grpc(Q(l, "serviceName"), "")
        BY <1>1, <2>1, <3>2, V2RayNTransportIs
      <4>. QED
        BY <1>1, <1>4, <3>2, <4>1, OtherAllowed, GrpcPlain
    <3>3. CASE n = "kcp"
      <4>1. PICK header : header = Q(l, "header")
        OBVIOUS
      <4>2. t = [of |-> "kcp", header |-> header, seed |-> ""]
        BY <1>1, <2>1, <3>3, <4>1, V2RayNTransportIs
      <4>3. t["header"] = header /\ t["seed"] = ""
        BY <4>2
      <4>4. Allowed(header, G) /\ Allowed("", G)
        BY <1>1, <1>4, <2>1, <3>3, <4>1, OtherAllowed
      <4>5. TransportNames["kcp"] = {"header", "seed"}
        BY TransportNamesHold DEF TransportNamesAre
      <4>. QED
        BY <3>3, <4>3, <4>4, <4>5 DEF Plain
    <3>. QED
      BY <1>1, <2>2, <3>1, <3>2, <3>3
  <2>. QED
    BY <1>2, <2>3, TransportWithin, Zenon
<1>5. ASSUME l.type \in {"", "tcp"} PROVE Within(TransportLeaves(n, known, t), G)
  <2>1. n = "tcp"
    BY <1>2, <1>5
  <2>2. t.of = n => Plain(t, n, G)
    <3>1. CASE l.type = "tcp"
      <4>1. m = "tcp"
        BY <1>1, <3>1, CanonicalIs
      <4>2. t = TcpHttp(l)
        BY <1>1, <4>1, V2RayNTransportIs
      <4>3. {"header", "path", "host"} \subseteq G
        BY <1>1, <3>1, GapsHold DEF GapsAre
      <4>4. "header" \in G /\ Allowed(Q(l, "path"), G) /\ Allowed(Q(l, "host"), G)
        BY <4>3, QAllowed
      <4>5. Plain(TcpHttp(l), "tcp", G)
        BY <4>4, TcpHttpPlain
      <4>. QED
        BY <2>1, <4>2, <4>5, Zenon
    <3>2. CASE l.type = ""
      <4>1. m = ""
        BY <1>1, <3>2, CanonicalIs
      <4>2. t = Nil
        BY <1>1, <4>1, V2RayNTransportIs
      <4>3. t.of # n
        BY <1>2, <4>2 DEF Nil
      <4>. QED
        BY <4>3, Zenon
    <3>. QED
      BY <1>5, <3>1, <3>2, Zenon
  <2>. QED
    BY <1>2, <2>2, TransportWithin, Zenon
<1>6. l.type = "ws" => t.of = "ws" /\ {"path", "host"} \subseteq DOMAIN t /\ t["path"] = Q(l, "path") /\ t["host"] = Q(l, "host")
  <2>. SUFFICES ASSUME l.type = "ws" PROVE t.of = "ws" /\ {"path", "host"} \subseteq DOMAIN t
                       /\ t["path"] = Q(l, "path") /\ t["host"] = Q(l, "host")
    OBVIOUS
  <2>1. m = "ws"
    BY <1>1, CanonicalIs
  <2>2. t = PathHost("ws", l)
    BY <1>1, <2>1, V2RayNTransportIs
  <2>. QED
    BY <2>2, PathHostIs
<1>7. l.type = "grpc" => \E serviceName, multiMode :
                           /\ t = Grpc(serviceName, multiMode)
                           /\ Near(serviceName, Q(l, "serviceName"), G) /\ Allowed(multiMode, G)
  <2>. SUFFICES ASSUME l.type = "grpc" PROVE \E serviceName, multiMode :
                           /\ t = Grpc(serviceName, multiMode)
                           /\ Near(serviceName, Q(l, "serviceName"), G) /\ Allowed(multiMode, G)
    OBVIOUS
  <2>1. m = "grpc"
    BY <1>1, CanonicalIs
  <2>2. t = Grpc(Q(l, "serviceName"), "")
    BY <1>1, <2>1, V2RayNTransportIs
  <2>3. Near(Q(l, "serviceName"), Q(l, "serviceName"), G) /\ Allowed("", G)
    BY DEF Near, Allowed
  <2>. QED
    BY <2>2, <2>3, Zenon
<1>8. l.type \notin {"ws", "grpc"} => Within(TransportLeaves(n, known, t), G)
  BY <1>4, <1>5 DEF OtherType
<1>9. LinkTransport(l, known, t)
  BY <1>1, <1>3, <1>6, <1>7, <1>8, Zenon DEF LinkTransport
<1>. QED
  BY <1>1, <1>9, Zenon

LEMMA ServiceNameNear == ASSUME NEW l PROVE Near(ServiceName(l), Q(l, "serviceName"), ClashGaps(l))
<1>1. PICK G : G = ClashGaps(l)
  OBVIOUS
<1>2. "service-name" \in G
  BY <1>1, GapsHold DEF GapsAre
<1>3. PICK v, w : v = ServiceName(l) /\ w = Q(l, "serviceName")
  OBVIOUS
<1>4. v = IF "serviceName" \in l.given THEN "serviceName" ELSE IF "service-name" \in l.given THEN "service-name" ELSE ""
  BY <1>3, OfTwo DEF ServiceName
<1>5. w = IF "serviceName" \in l.given THEN "serviceName" ELSE ""
  BY <1>3, QIs
<1>6. Near(v, w, G)
  BY <1>2, <1>4, <1>5 DEF Near, Allowed
<1>. QED
  BY <1>1, <1>3, <1>6, Zenon

VLESSKnown == {"tcp", "ws", "grpc", "h2", "kcp", "httpupgrade", "splithttp"}

LEMMA VLESSTransportIs ==
  ASSUME NEW l
  PROVE  /\ NetworkOf(l) = "tcp" => VLESSTransport(l) = TcpHttp(l)
         /\ NetworkOf(l) = "ws" =>
              VLESSTransport(l) = [of |-> "ws", path |-> Q(l, "path"), host |-> Q(l, "host"), maxEarlyData |-> Q(l, "ed")]
         /\ NetworkOf(l) = "grpc" => VLESSTransport(l) = Grpc(ServiceName(l), Q(l, "mode"))
         /\ NetworkOf(l) \in {"h2", "httpupgrade"} => VLESSTransport(l) = PathHost(NetworkOf(l), l)
         /\ NetworkOf(l) = "kcp" => VLESSTransport(l) = [of |-> "kcp", header |-> Q(l, "header"), seed |-> Q(l, "seed")]
         /\ NetworkOf(l) = "splithttp" =>
              VLESSTransport(l) = [of |-> "splithttp", path |-> Q(l, "path"), host |-> Q(l, "host"), mode |-> Q(l, "mode")]
         /\ NetworkOf(l) \notin VLESSKnown => VLESSTransport(l) = Nil
<1>1. PICK n : n = NetworkOf(l)
  OBVIOUS
<1>2. n = Canonical(Or(l.type, "tcp"))
  BY <1>1, Zenon DEF NetworkOf
<1>3. VLESSTransport(l) =
        CASE n = "tcp" -> TcpHttp(l)
          [] n = "ws" -> [of |-> "ws", path |-> Q(l, "path"), host |-> Q(l, "host"), maxEarlyData |-> Q(l, "ed")]
          [] n = "grpc" -> Grpc(ServiceName(l), Q(l, "mode"))
          [] n \in {"h2", "httpupgrade"} -> PathHost(n, l)
          [] n = "kcp" -> [of |-> "kcp", header |-> Q(l, "header"), seed |-> Q(l, "seed")]
          [] n = "splithttp" -> [of |-> n, path |-> Q(l, "path"), host |-> Q(l, "host"), mode |-> Q(l, "mode")]
          [] OTHER -> Nil
  BY <1>2, Zenon DEF VLESSTransport
<1>4. n = "tcp" => VLESSTransport(l) = TcpHttp(l)
  BY <1>3, Zenon
<1>5. n = "ws" => VLESSTransport(l) = [of |-> "ws", path |-> Q(l, "path"), host |-> Q(l, "host"), maxEarlyData |-> Q(l, "ed")]
  BY <1>3, Zenon
<1>6. n = "grpc" => VLESSTransport(l) = Grpc(ServiceName(l), Q(l, "mode"))
  BY <1>3, Zenon
<1>7. n \in {"h2", "httpupgrade"} => VLESSTransport(l) = PathHost(n, l)
  BY <1>3, Zenon
<1>8. n = "kcp" => VLESSTransport(l) = [of |-> "kcp", header |-> Q(l, "header"), seed |-> Q(l, "seed")]
  BY <1>3, Zenon
<1>9. n = "splithttp" =>
        VLESSTransport(l) = [of |-> "splithttp", path |-> Q(l, "path"), host |-> Q(l, "host"), mode |-> Q(l, "mode")]
  BY <1>3, Zenon
<1>10. n \notin VLESSKnown => VLESSTransport(l) = Nil
  BY <1>3, Zenon DEF VLESSKnown
<1>. QED
  BY <1>1, <1>4, <1>5, <1>6, <1>7, <1>8, <1>9, <1>10, Zenon

LEMMA VLESSOther ==
  ASSUME NEW l \in NodeSources, OtherType(l)
  PROVE  Within(TransportLeaves(NetworkOf(l), VLESSKnown, VLESSTransport(l)), ClashGaps(l))
<1>1. PICK n, t, G : n = NetworkOf(l) /\ t = VLESSTransport(l) /\ G = ClashGaps(l)
  OBVIOUS
<1>2. n # "nil" /\ n # "tcp" /\ n = Canonical(l.type)
  BY <1>1, NetworkIs DEF OtherType
<1>3. /\ Allowed(Q(l, "path"), G) /\ Allowed(Q(l, "host"), G) /\ Allowed(Q(l, "mode"), G) /\ Allowed(Q(l, "seed"), G)
      /\ Allowed(ServiceName(l), G) /\ (n = "kcp" => Allowed(Q(l, "header"), G))
  BY <1>1, <1>2, OtherAllowed
<1>4. TransportNamesAre
  BY TransportNamesHold
<1>5. PICK path, host, mode, seed, header, ed :
        /\ path = Q(l, "path") /\ host = Q(l, "host") /\ mode = Q(l, "mode") /\ seed = Q(l, "seed")
        /\ header = Q(l, "header") /\ ed = Q(l, "ed")
  OBVIOUS
<1>6. n \in VLESSKnown /\ t.of = n => Plain(t, n, G)
  <2>1. CASE n = "ws"
    <3>1. t = [of |-> "ws", path |-> path, host |-> host, maxEarlyData |-> ed]
      BY <1>1, <1>5, <2>1, VLESSTransportIs
    <3>2. t["path"] = path /\ t["host"] = host
      BY <3>1
    <3>. QED
      BY <1>3, <1>4, <1>5, <2>1, <3>2 DEF Plain, TransportNamesAre
  <2>2. CASE n = "grpc"
    <3>1. t = Grpc(ServiceName(l), mode)
      BY <1>1, <1>5, <2>2, VLESSTransportIs
    <3>. QED
      BY <1>3, <1>5, <2>2, <3>1, GrpcPlain
  <2>3. CASE n \in {"h2", "httpupgrade"}
    <3>1. t = PathHost(n, l)
      BY <1>1, <2>3, VLESSTransportIs
    <3>. QED
      BY <1>3, <2>3, <3>1, PathHostPlain
  <2>4. CASE n = "kcp"
    <3>1. t = [of |-> "kcp", header |-> header, seed |-> seed]
      BY <1>1, <1>5, <2>4, VLESSTransportIs
    <3>2. t["header"] = header /\ t["seed"] = seed
      BY <3>1
    <3>. QED
      BY <1>3, <1>4, <1>5, <2>4, <3>2 DEF Plain, TransportNamesAre
  <2>5. CASE n = "splithttp"
    <3>1. t = [of |-> "splithttp", path |-> path, host |-> host, mode |-> mode]
      BY <1>1, <1>5, <2>5, VLESSTransportIs
    <3>2. t["path"] = path /\ t["host"] = host /\ t["mode"] = mode
      BY <3>1
    <3>. QED
      BY <1>3, <1>4, <1>5, <2>5, <3>2 DEF Plain, TransportNamesAre
  <2>. QED
    BY <1>2, <2>1, <2>2, <2>3, <2>4, <2>5 DEF VLESSKnown
<1>7. Within(TransportLeaves(n, VLESSKnown, t), G)
  BY <1>2, <1>6, TransportWithin, Zenon
<1>. QED
  BY <1>1, <1>7, Zenon

LEMMA VLESSLinkTransport == ASSUME NEW l \in NodeSources PROVE LinkTransport(l, VLESSKnown, VLESSTransport(l))
<1>1. PICK n, t, G : n = NetworkOf(l) /\ t = VLESSTransport(l) /\ G = ClashGaps(l)
  OBVIOUS
<1>2. n # "nil" /\ {"ws", "grpc"} \subseteq VLESSKnown
  BY <1>1, NetworkIs DEF VLESSKnown
<1>3. ASSUME l.type \in {"", "tcp"} PROVE Within(TransportLeaves(n, VLESSKnown, t), G)
  <2>1. n = "tcp"
    BY <1>1, <1>3, NetworkIs
  <2>2. t = TcpHttp(l)
    BY <1>1, <2>1, VLESSTransportIs
  <2>3. {"header", "path", "host"} \subseteq G
    BY <1>1, <1>3, GapsHold DEF GapsAre
  <2>4. "header" \in G /\ Allowed(Q(l, "path"), G) /\ Allowed(Q(l, "host"), G)
    BY <2>3, QAllowed
  <2>5. Plain(TcpHttp(l), "tcp", G)
    BY <2>4, TcpHttpPlain
  <2>6. n \in VLESSKnown /\ t.of = n => Plain(t, n, G)
    BY <2>1, <2>2, <2>5, Zenon
  <2>. QED
    BY <1>2, <2>6, TransportWithin, Zenon
<1>4. ASSUME OtherType(l) PROVE Within(TransportLeaves(n, VLESSKnown, t), G)
  BY <1>1, <1>4, VLESSOther
<1>5. l.type = "ws" => t.of = "ws" /\ {"path", "host"} \subseteq DOMAIN t /\ t["path"] = Q(l, "path") /\ t["host"] = Q(l, "host")
  <2>. SUFFICES ASSUME l.type = "ws" PROVE t.of = "ws" /\ {"path", "host"} \subseteq DOMAIN t
                       /\ t["path"] = Q(l, "path") /\ t["host"] = Q(l, "host")
    OBVIOUS
  <2>1. n = "ws"
    BY <1>1, NetworkIs
  <2>2. PICK path, host, ed : path = Q(l, "path") /\ host = Q(l, "host") /\ ed = Q(l, "ed")
    OBVIOUS
  <2>3. t = [of |-> "ws", path |-> path, host |-> host, maxEarlyData |-> ed]
    BY <1>1, <2>1, <2>2, VLESSTransportIs
  <2>. QED
    BY <2>2, <2>3
<1>6. l.type = "grpc" => \E serviceName, multiMode :
                           /\ t = Grpc(serviceName, multiMode)
                           /\ Near(serviceName, Q(l, "serviceName"), G) /\ Allowed(multiMode, G)
  <2>. SUFFICES ASSUME l.type = "grpc" PROVE \E serviceName, multiMode :
                           /\ t = Grpc(serviceName, multiMode)
                           /\ Near(serviceName, Q(l, "serviceName"), G) /\ Allowed(multiMode, G)
    OBVIOUS
  <2>1. n = "grpc"
    BY <1>1, NetworkIs
  <2>2. t = Grpc(ServiceName(l), Q(l, "mode"))
    BY <1>1, <2>1, VLESSTransportIs
  <2>3. "mode" \in G
    BY <1>1, GapsHold DEF GapsAre
  <2>4. Near(ServiceName(l), Q(l, "serviceName"), G) /\ Allowed(Q(l, "mode"), G)
    BY <1>1, <2>3, ServiceNameNear, QAllowed
  <2>. QED
    BY <2>2, <2>4, Zenon
<1>7. l.type \notin {"ws", "grpc"} => Within(TransportLeaves(n, VLESSKnown, t), G)
  BY <1>3, <1>4 DEF OtherType
<1>8. LinkTransport(l, VLESSKnown, t)
  BY <1>1, <1>2, <1>5, <1>6, <1>7, Zenon DEF LinkTransport
<1>. QED
  BY <1>1, <1>8, Zenon

LEMMA TrojanLinkTransport ==
  ASSUME NEW l \in NodeSources
  PROVE  LinkTransport(l, {"ws", "grpc", "h2"}, TrojanTransport(l))
<1>1. PICK n, t, G, known, m : /\ n = NetworkOf(l) /\ t = TrojanTransport(l) /\ G = ClashGaps(l)
                               /\ known = {"ws", "grpc", "h2"} /\ m = Canonical(l.type)
  OBVIOUS
<1>2. n # "nil" /\ {"ws", "grpc"} \subseteq known
  BY <1>1, NetworkIs
<1>3. t = IF m = "grpc" THEN Grpc(ServiceName(l), "") ELSE PathHost(m, l)
  BY <1>1, Zenon DEF TrojanTransport
<1>4. ASSUME OtherType(l) PROVE Within(TransportLeaves(n, known, t), G)
  <2>1. n = m
    BY <1>1, <1>4, NetworkIs DEF OtherType
  <2>2. /\ Allowed(Q(l, "path"), G) /\ Allowed(Q(l, "host"), G) /\ Allowed(ServiceName(l), G) /\ Allowed("", G)
    BY <1>1, <1>4, OtherAllowed
  <2>3. n \in known /\ t.of = n => Plain(t, n, G)
    <3>1. CASE n = "grpc"
      BY <1>3, <2>1, <2>2, <3>1, GrpcPlain
    <3>2. CASE n \in {"ws", "h2"}
      <4>1. t = PathHost(n, l)
        BY <1>3, <2>1, <3>2
      <4>. QED
        BY <2>2, <3>2, <4>1, PathHostPlain
    <3>. QED
      BY <1>1, <3>1, <3>2
  <2>. QED
    BY <1>2, <2>3, TransportWithin, Zenon
<1>5. ASSUME l.type \in {"", "tcp"} PROVE Within(TransportLeaves(n, known, t), G)
  <2>1. n \notin known
    BY <1>1, <1>5, NetworkIs
  <2>2. TransportLeaves(n, known, t) = {}
    BY <1>2, <2>1, NoTransport, Zenon
  <2>. QED
    BY <2>2, EmptyWithin
<1>6. l.type = "ws" => t.of = "ws" /\ {"path", "host"} \subseteq DOMAIN t /\ t["path"] = Q(l, "path") /\ t["host"] = Q(l, "host")
  <2>. SUFFICES ASSUME l.type = "ws" PROVE t.of = "ws" /\ {"path", "host"} \subseteq DOMAIN t
                       /\ t["path"] = Q(l, "path") /\ t["host"] = Q(l, "host")
    OBVIOUS
  <2>1. m = "ws"
    BY <1>1, CanonicalIs
  <2>2. t = PathHost("ws", l)
    BY <1>3, <2>1
  <2>. QED
    BY <2>2, PathHostIs
<1>7. l.type = "grpc" => \E serviceName, multiMode :
                           /\ t = Grpc(serviceName, multiMode)
                           /\ Near(serviceName, Q(l, "serviceName"), G) /\ Allowed(multiMode, G)
  <2>. SUFFICES ASSUME l.type = "grpc" PROVE \E serviceName, multiMode :
                           /\ t = Grpc(serviceName, multiMode)
                           /\ Near(serviceName, Q(l, "serviceName"), G) /\ Allowed(multiMode, G)
    OBVIOUS
  <2>1. m = "grpc"
    BY <1>1, CanonicalIs
  <2>2. t = Grpc(ServiceName(l), "")
    BY <1>3, <2>1
  <2>3. Near(ServiceName(l), Q(l, "serviceName"), G) /\ Allowed("", G)
    BY <1>1, ServiceNameNear DEF Allowed
  <2>. QED
    BY <2>2, <2>3, Zenon
<1>8. l.type \notin {"ws", "grpc"} => Within(TransportLeaves(n, known, t), G)
  BY <1>4, <1>5 DEF OtherType
<1>9. LinkTransport(l, known, t)
  BY <1>1, <1>2, <1>6, <1>7, <1>8, Zenon DEF LinkTransport
<1>. QED
  BY <1>1, <1>9, Zenon

-----------------------------------------------------------------------------
\* A Clash node and the link that says the same.

ConfigsAlike(c, d, values) ==
  /\ buildOutboundJSON(c).protocol = buildOutboundJSON(d).protocol
  /\ AlikeBut(buildOutboundJSON(c).leaves, buildOutboundJSON(d).leaves, values)

LEMMA PartsAlike ==
  ASSUME NEW c, NEW d, NEW values,
         c.protocol = d.protocol \/ {c.protocol, d.protocol} \subseteq {"shadowsocks", "ss2022"},
         AlikeBut(buildSettings(c), buildSettings(d), values),
         AlikeBut(buildStreamJSON(c.stream).leaves, buildStreamJSON(d.stream).leaves, values)
  PROVE  ConfigsAlike(c, d, values)
<1>1. PICK a, b : a = buildOutboundJSON(c) /\ b = buildOutboundJSON(d)
  OBVIOUS
<1>2. a.protocol = b.protocol
  <2>1. CASE c.protocol = d.protocol
    <3>1. PICK p : p = c.protocol
      OBVIOUS
    <3>2. a.protocol = CASE p = "ss2022" -> "shadowsocks" [] p = "direct" -> "freedom" [] OTHER -> p
      BY <1>1, <3>1, OutboundIs, Zenon
    <3>3. b.protocol = CASE p = "ss2022" -> "shadowsocks" [] p = "direct" -> "freedom" [] OTHER -> p
      BY <1>1, <2>1, <3>1, OutboundIs, Zenon
    <3>4. CASE p = "ss2022"
      BY <3>2, <3>3, <3>4, Zenon
    <3>5. CASE p = "direct"
      BY <3>2, <3>3, <3>5, Zenon
    <3>6. CASE p # "ss2022" /\ p # "direct"
      BY <3>2, <3>3, <3>6, Zenon
    <3>. QED
      BY <3>4, <3>5, <3>6
  <2>2. CASE {c.protocol, d.protocol} \subseteq {"shadowsocks", "ss2022"}
    <3>1. PICK p, q : p = c.protocol /\ q = d.protocol
      OBVIOUS
    <3>2. a.protocol = CASE p = "ss2022" -> "shadowsocks" [] p = "direct" -> "freedom" [] OTHER -> p
      BY <1>1, <3>1, OutboundIs, Zenon
    <3>3. b.protocol = CASE q = "ss2022" -> "shadowsocks" [] q = "direct" -> "freedom" [] OTHER -> q
      BY <1>1, <3>1, OutboundIs, Zenon
    <3>4. p \in {"shadowsocks", "ss2022"} /\ q \in {"shadowsocks", "ss2022"}
      BY <2>2, <3>1
    <3>5. a.protocol = "shadowsocks"
      BY <3>2, <3>4, Zenon
    <3>6. b.protocol = "shadowsocks"
      BY <3>3, <3>4, Zenon
    <3>. QED
      BY <3>5, <3>6
  <2>. QED
    BY <2>1, <2>2
<1>3. a.leaves = buildSettings(c) \cup buildStreamJSON(c.stream).leaves
  BY <1>1, OutboundIs, Zenon
<1>4. b.leaves = buildSettings(d) \cup buildStreamJSON(d.stream).leaves
  BY <1>1, OutboundIs, Zenon
<1>5. AlikeBut(a.leaves, b.leaves, values)
  BY <1>3, <1>4, AlikeUnion
<1>. QED
  BY <1>1, <1>2, <1>5, Zenon DEF ConfigsAlike

LEMMA SettingsSame ==
  ASSUME NEW c, NEW d, c.protocol \in KnownProtocols \ {"direct"}, c.protocol = d.protocol, c.fields = d.fields
  PROVE  buildSettings(c) = buildSettings(d)
<1>1. CASE c.protocol \in {"vmess", "vless", "trojan", "shadowsocks", "ss2022"}
  <2>1. buildSettings(c) = Leaves("settings", DOMAIN c.fields, c.fields)
    BY <1>1, Zenon DEF buildSettings
  <2>2. buildSettings(d) = Leaves("settings", DOMAIN d.fields, d.fields)
    BY <1>1, Zenon DEF buildSettings
  <2>. QED
    BY <2>1, <2>2, Zenon
<1>2. CASE c.protocol \in {"http", "socks"}
  <2>1. buildSettings(c) = IF c.fields.user = "" THEN {} ELSE Leaves("settings", DOMAIN c.fields, c.fields)
    BY <1>2, Zenon DEF buildSettings
  <2>2. buildSettings(d) = IF d.fields.user = "" THEN {} ELSE Leaves("settings", DOMAIN d.fields, d.fields)
    BY <1>2, Zenon DEF buildSettings
  <2>. QED
    BY <2>1, <2>2, Zenon
<1>3. CASE c.protocol = "wireguard"
  <2>1. buildSettings(c) = Leaves("settings", DOMAIN c.fields,
                             [c.fields EXCEPT !.address = Or(@, "10.0.0.2/32"), !.mtu = Or(@, "1420")])
    BY <1>3, Zenon DEF buildSettings
  <2>2. buildSettings(d) = Leaves("settings", DOMAIN d.fields,
                             [d.fields EXCEPT !.address = Or(@, "10.0.0.2/32"), !.mtu = Or(@, "1420")])
    BY <1>3, Zenon DEF buildSettings
  <2>. QED
    BY <2>1, <2>2, Zenon
<1>. QED
  BY <1>1, <1>2, <1>3 DEF KnownProtocols

LEMMA SettingsAlike ==
  ASSUME NEW c, NEW d, c.protocol \in KnownProtocols \ {"direct"}, c.protocol = d.protocol, c.fields = d.fields, NEW values
  PROVE  AlikeBut(buildSettings(c), buildSettings(d), values)
<1>1. buildSettings(c) = buildSettings(d)
  BY SettingsSame, Zenon
<1>. QED
  BY <1>1, AlikeSame

\* Streams with alike securities and alike transports.
LEMMA StreamsAlike ==
  ASSUME NEW l \in NodeSources, NEW known, NEW security, NEW tls, NEW reality, NEW t, LinkTransport(l, known, t),
         NEW h2 \in {{}, {"h2"}}, NEW other, NEW tls2, NEW reality2,
         AlikeBut(SecurityLeaves(security, tls, reality), SecurityLeaves(other, tls2, reality2), ClashGaps(l))
  PROVE  AlikeBut(buildStreamJSON(Stream(l, known, security, tls, reality, t)).leaves,
                  buildStreamJSON(ClashStream(l, h2, other, tls2, reality2)).leaves, ClashGaps(l))
<1>1. PICK s, u : s = Stream(l, known, security, tls, reality, t) /\ u = ClashStream(l, h2, other, tls2, reality2)
  OBVIOUS
<1>2. buildStreamJSON(s).leaves = SecurityLeaves(security, tls, reality) \cup TransportLeaves(NetworkOf(l), known, t)
  BY <1>1, StreamLeaves
<1>3. u = Stream(l, {"ws", "grpc"} \cup h2, other, tls2, reality2, ClashTransport(l))
  BY <1>1, Zenon DEF ClashStream
<1>4. buildStreamJSON(u).leaves =
        SecurityLeaves(other, tls2, reality2) \cup TransportLeaves(NetworkOf(l), {"ws", "grpc"} \cup h2, ClashTransport(l))
  BY <1>3, StreamLeaves
<1>5. AlikeBut(TransportLeaves(NetworkOf(l), known, t),
               TransportLeaves(NetworkOf(l), {"ws", "grpc"} \cup h2, ClashTransport(l)), ClashGaps(l))
  BY TransportAlike, Zenon
<1>6. PICK A, B, C, D : /\ A = SecurityLeaves(security, tls, reality) /\ B = SecurityLeaves(other, tls2, reality2)
                        /\ C = TransportLeaves(NetworkOf(l), known, t)
                        /\ D = TransportLeaves(NetworkOf(l), {"ws", "grpc"} \cup h2, ClashTransport(l))
  OBVIOUS
<1>7. AlikeBut(A \cup C, B \cup D, ClashGaps(l))
  <2>1. AlikeBut(A, B, ClashGaps(l)) /\ AlikeBut(C, D, ClashGaps(l))
    BY <1>5, <1>6, Zenon
  <2>. QED
    BY <2>1, AlikeUnion, Zenon
<1>8. buildStreamJSON(s).leaves = A \cup C /\ buildStreamJSON(u).leaves = B \cup D
  BY <1>2, <1>4, <1>6, Zenon
<1>. QED
  BY <1>1, <1>7, <1>8, Zenon

LEMMA LessGiven ==
  ASSUME NEW l \in NodeSources, NEW keys
  PROVE  [l EXCEPT !.given = @ \ keys].given = l.given \ keys
<1>1. "given" \in DOMAIN l
  BY NodesAssumption
<1>. QED
  BY <1>1

LEMMA NearSame == ASSUME NEW v, NEW values PROVE Near(v, v, values)
  BY DEF Near

LEMMA NearMissing == ASSUME NEW v, NEW values, Allowed(v, values) PROVE Near(v, "", values)
  BY DEF Near, Allowed

LEMMA VMessAlike ==
  ASSUME NEW l \in NodeSources, l.scheme = "vmess", ParseV2RayN(l) # ParseError
  PROVE  ConfigsAlike(ParseV2RayN(l), ClashVMess(l), ClashGaps(l))
<1>1. PICK b, m, G : b = (l.security = "tls") /\ m = [l EXCEPT !.given = @ \ {"allowInsecure"}] /\ G = ClashGaps(l)
  OBVIOUS
<1>2. PICK security, tls, tls2 : /\ security = (IF b THEN "tls" ELSE "none")
                                 /\ tls = (IF b THEN Tls(m, Q(l, "sni"), Q(l, "fp")) ELSE Nil)
                                 /\ tls2 = (IF b THEN Tls(l, Q(l, "sni"), "") ELSE Nil)
  OBVIOUS
<1>3. PICK fields, s, u : /\ fields = VMessFields(l)
                          /\ s = Stream(l, {"ws", "h2", "grpc", "tcp", "kcp"}, security, tls, Nil, V2RayNTransport(l))
                          /\ u = ClashStream(l, {"h2"}, security, tls2, Nil)
  OBVIOUS
<1>4. PICK c, d : c = ParseV2RayN(l) /\ d = ClashVMess(l)
  OBVIOUS
<1>5. c = Config("vmess", Tag(l), parsePort(l), fields, s)
  <2>1. s = V2RayNStream(l)
    BY <1>1, <1>2, <1>3, Zenon DEF V2RayNStream
  <2>. QED
    BY <1>3, <1>4, <2>1, Zenon DEF ParseV2RayN
<1>6. d = Config("vmess", Q(l, "fragment"), WrappedPort(l), fields, u)
  BY <1>1, <1>2, <1>3, <1>4, Zenon DEF ClashVMess
<1>7. c.protocol = "vmess" /\ c.fields = fields /\ c.stream = s /\ d.protocol = "vmess" /\ d.fields = fields /\ d.stream = u
  BY <1>5, <1>6, ConfigIs
<1>8. AlikeBut(SecurityLeaves(security, tls, Nil), SecurityLeaves(security, tls2, Nil), G)
  <2>1. CASE b
    <3>1. Near(Q(m, "alpn"), Q(l, "alpn"), G)
      <4>1. m.given = l.given \ {"allowInsecure"}
        BY <1>1, LessGiven
      <4>2. PICK v, w : v = Q(m, "alpn") /\ w = Q(l, "alpn")
        OBVIOUS
      <4>3. v = w
        BY <4>1, <4>2, QIs
      <4>. QED
        BY <4>2, <4>3, NearSame, Zenon
    <3>2. Near(Q(l, "fp"), "", G)
      <4>1. "fp" \in G
        BY <1>1, GapsHold DEF GapsAre
      <4>. QED
        BY <4>1, QAllowed, NearMissing
    <3>3. Near(Q(l, "sni"), Q(l, "sni"), G)
      BY NearSame
    <3>4. AlikeBut(SecurityLeaves("tls", Tls(m, Q(l, "sni"), Q(l, "fp")), Nil),
                   SecurityLeaves("tls", Tls(l, Q(l, "sni"), ""), Nil), G)
      BY <3>1, <3>2, <3>3, TlsAlike, Zenon
    <3>. QED
      BY <1>2, <2>1, <3>4, Zenon
  <2>2. CASE ~b
    <3>1. tls = Nil /\ tls2 = Nil
      BY <1>2, <2>2, Zenon
    <3>. QED
      BY <3>1, AlikeSame
  <2>. QED
    BY <2>1, <2>2
<1>9. AlikeBut(buildStreamJSON(s).leaves, buildStreamJSON(u).leaves, G)
  <2>1. LinkTransport(l, {"ws", "h2", "grpc", "tcp", "kcp"}, V2RayNTransport(l))
    BY V2RayNLinkTransport
  <2>. QED
    BY <1>1, <1>3, <1>8, <2>1, StreamsAlike
<1>10. AlikeBut(buildSettings(c), buildSettings(d), G)
  <2>1. "vmess" \in KnownProtocols \ {"direct"}
    BY DEF KnownProtocols
  <2>. QED
    BY <1>7, <2>1, SettingsAlike
<1>11. ConfigsAlike(c, d, G)
  BY <1>7, <1>9, <1>10, PartsAlike
<1>. QED
  BY <1>1, <1>4, <1>11, Zenon

\* A network that is renamed to tcp has no settings under either name.
LEMMA QuicLeaves ==
  ASSUME NEW l \in NodeSources, l.type = "quic", NEW security, NEW tls, NEW reality, NEW t, NEW s,
         s = Stream(l, VLESSKnown, security, tls, reality, t)
  PROVE  /\ buildStreamJSON([s EXCEPT !.network = "tcp"]).leaves = buildStreamJSON(s).leaves
         /\ buildStreamJSON([s EXCEPT !.network = "tcp"]).security = buildStreamJSON(s).security
<1>1. NetworkOf(l) = "quic" /\ NetworkOf(l) \notin VLESSKnown
  <2>1. NetworkOf(l) = "quic"
    <3>1. NetworkOf(l) = Canonical(l.type)
      BY NetworkIs
    <3>. QED
      BY <3>1, CanonicalIs
  <2>. QED
    BY <2>1 DEF VLESSKnown
<1>2. /\ s.network = Or(l.type, "tcp") /\ s.security = security /\ s.tls = tls /\ s.reality = reality
      /\ s.transport = Nil /\ s # NoStream
  BY <1>1, StreamIs DEF NetworkOf
<1>3. PICK r : r = [s EXCEPT !.network = "tcp"]
  OBVIOUS
<1>4. PICK network, transport :
        s = [network |-> network, security |-> security, tls |-> tls, reality |-> reality, transport |-> transport]
  BY Zenon DEF Stream
<1>5. r = [network |-> "tcp", security |-> security, tls |-> tls, reality |-> reality, transport |-> transport]
  BY <1>3, <1>4
<1>6. r.network = "tcp" /\ r.security = security /\ r.tls = tls /\ r.reality = reality /\ r.transport = Nil
  BY <1>2, <1>4, <1>5
<1>7. r # NoStream
  <2>1. "security" \in DOMAIN r
    BY <1>5
  <2>2. "security" \notin DOMAIN NoStream
    BY DEF NoStream
  <2>. QED
    BY <2>1, <2>2, Zenon
<1>8. Canonical("tcp") = "tcp"
  BY CanonicalIs
<1>9. PICK S : S = SecurityLeaves(security, tls, reality)
  OBVIOUS
<1>10. buildStreamJSON(s).leaves = S /\ buildStreamJSON(s).security = security
  <2>1. buildStreamJSON(s).leaves = S \cup TransportLeaves(NetworkOf(l), VLESSKnown, t)
    BY <1>9, StreamLeaves
  <2>2. TransportLeaves(NetworkOf(l), VLESSKnown, t) = {}
    BY <1>1, NoTransport
  <2>3. buildStreamJSON(s).security = security
    BY StreamLeaves
  <2>. QED
    BY <2>1, <2>2, <2>3
<1>11. buildStreamJSON(r).leaves = S /\ buildStreamJSON(r).security = security
  <2>1. Copied(r.transport, Canonical(r.network), TransportNames) = {}
    <3>1. "tcp" # "nil"
      OBVIOUS
    <3>2. Copied(Nil, "tcp", TransportNames) = {}
      BY <3>1, NothingCopied
    <3>. QED
      BY <1>6, <1>8, <3>2, Zenon
  <2>2. buildStreamJSON(r).leaves =
          Copied(r.tls, r.security, SecurityNames) \cup Copied(r.reality, r.security, SecurityNames)
          \cup Copied(r.transport, Canonical(r.network), TransportNames)
    BY <1>7, StreamJSONIs
  <2>3. buildStreamJSON(r).leaves = S \cup Copied(r.transport, Canonical(r.network), TransportNames)
    BY <1>6, <1>9, <2>2, Zenon DEF SecurityLeaves
  <2>4. buildStreamJSON(r).leaves = S
    BY <2>1, <2>3
  <2>5. buildStreamJSON(r).security = security
    BY <1>6, <1>7, StreamJSONIs
  <2>. QED
    BY <2>4, <2>5
<1>. QED
  BY <1>3, <1>10, <1>11

\* The securities of a vless link and of its node.
LEMMA VLESSSecurityAlike ==
  ASSUME NEW l \in NodeSources, l.scheme = "vless", NEW opts, NEW b,
         opts => l.security = "reality", b <=> ~opts /\ l.security # "none",
         NEW security, NEW tls, NEW reality, NEW security2, NEW tls2, NEW reality2,
         security = (IF l.security \in {"tls", "reality"} THEN l.security ELSE "none"),
         tls = (IF l.security = "tls" THEN Tls(l, Q(l, "sni"), Q(l, "fp")) ELSE Nil),
         reality = (IF l.security = "reality" THEN Reality(l, Q(l, "sni"), Q(l, "spx")) ELSE Nil),
         security2 = (IF opts THEN "reality" ELSE IF b THEN "tls" ELSE "none"),
         tls2 = (IF b THEN Tls(l, Q(l, "sni"), Q(l, "fp")) ELSE Nil),
         reality2 = (IF opts THEN Reality(l, "", "") ELSE Nil)
  PROVE  AlikeBut(SecurityLeaves(security, tls, reality), SecurityLeaves(security2, tls2, reality2), ClashGaps(l))
<1>1. PICK G : G = ClashGaps(l)
  OBVIOUS
<1>2. l.security \in {"none", "tls", "reality"}
  BY NodeIs
<1>3. CASE l.security = "none"
  <2>1. security = "none" /\ tls = Nil /\ reality = Nil
    BY <1>3
  <2>2. security2 = "none" /\ tls2 = Nil /\ reality2 = Nil
    BY <1>3
  <2>. QED
    BY <2>1, <2>2, AlikeSame
<1>4. CASE l.security = "tls"
  <2>1. security = "tls" /\ tls = Tls(l, Q(l, "sni"), Q(l, "fp")) /\ reality = Nil
    BY <1>4
  <2>2. security2 = "tls" /\ tls2 = Tls(l, Q(l, "sni"), Q(l, "fp")) /\ reality2 = Nil
    BY <1>4
  <2>. QED
    BY <2>1, <2>2, AlikeSame
<1>5. CASE l.security = "reality"
  <2>1. {"sni", "alpn", "pbk", "sid", "spx", "fp"} \subseteq G
    BY <1>1, <1>5, GapsHold DEF GapsAre
  <2>2. /\ Allowed(Q(l, "sni"), G) /\ Allowed(Q(l, "alpn"), G) /\ Allowed(Q(l, "pbk"), G)
        /\ Allowed(Q(l, "sid"), G) /\ Allowed(Q(l, "spx"), G) /\ Allowed(Q(l, "fp"), G) /\ Allowed("", G)
    BY <2>1, QAllowed DEF Allowed
  <2>3. Within(SecurityLeaves("reality", Nil, Reality(l, Q(l, "sni"), Q(l, "spx"))), G)
    BY <2>2, RealityWithin, Zenon
  <2>4. Within(SecurityLeaves("reality", Nil, Reality(l, "", "")), G)
    BY <2>2, RealityWithin, Zenon
  <2>5. Within(SecurityLeaves("tls", Tls(l, Q(l, "sni"), Q(l, "fp")), Nil), G)
    BY <2>2, TlsWithin, Zenon
  <2>6. Within(SecurityLeaves(security, tls, reality), G)
    <3>1. security = "reality" /\ tls = Nil /\ reality = Reality(l, Q(l, "sni"), Q(l, "spx"))
      BY <1>5
    <3>. QED
      BY <2>3, <3>1, Zenon
  <2>7. Within(SecurityLeaves(security2, tls2, reality2), G)
    <3>1. CASE opts
      <4>1. security2 = "reality" /\ tls2 = Nil /\ reality2 = Reality(l, "", "")
        BY <3>1, Zenon
      <4>. QED
        BY <2>4, <4>1, Zenon
    <3>2. CASE ~opts
      <4>1. b
        BY <1>5, <3>2
      <4>2. security2 = "tls" /\ tls2 = Tls(l, Q(l, "sni"), Q(l, "fp")) /\ reality2 = Nil
        BY <3>2, <4>1, Zenon
      <4>. QED
        BY <2>5, <4>2, Zenon
    <3>. QED
      BY <3>1, <3>2
  <2>. QED
    BY <1>1, <2>6, <2>7, AlikeWithin
<1>. QED
  BY <1>2, <1>3, <1>4, <1>5

LEMMA VLESSAlike ==
  ASSUME NEW l \in NodeSources, l.scheme = "vless"
  PROVE  ConfigsAlike(ParseVLESS(l), ClashVLESS(l), ClashGaps(l))
<1>1. PICK opts, b : /\ opts = (l.security = "reality" /\ {"pbk", "sid"} \cap l.given # {})
                     /\ b = (~opts /\ l.security # "none")
  OBVIOUS
<1>2. PICK security, tls, reality :
        /\ security = (IF l.security \in {"tls", "reality"} THEN l.security ELSE "none")
        /\ tls = (IF l.security = "tls" THEN Tls(l, Q(l, "sni"), Q(l, "fp")) ELSE Nil)
        /\ reality = (IF l.security = "reality" THEN Reality(l, Q(l, "sni"), Q(l, "spx")) ELSE Nil)
  OBVIOUS
<1>3. PICK security2, tls2, reality2 :
        /\ security2 = (IF opts THEN "reality" ELSE IF b THEN "tls" ELSE "none")
        /\ tls2 = (IF b THEN Tls(l, Q(l, "sni"), Q(l, "fp")) ELSE Nil)
        /\ reality2 = (IF opts THEN Reality(l, "", "") ELSE Nil)
  OBVIOUS
<1>4. PICK G : G = ClashGaps(l)
  OBVIOUS
<1>5. PICK fields, parsed, s, u :
        /\ fields = VLESSFields(l) /\ parsed = Stream(l, VLESSKnown, security, tls, reality, VLESSTransport(l))
        /\ s = (IF l.type = "quic" THEN [parsed EXCEPT !.network = "tcp"] ELSE parsed)
        /\ u = ClashStream(l, {}, security2, tls2, reality2)
  OBVIOUS
<1>6. PICK c, d : c = ParseVLESS(l) /\ d = ClashVLESS(l)
  OBVIOUS
<1>7. c = Config("vless", Tag(l), ParsedPort(l, DefaultPort.https), fields, s)
  <2>1. parsed = VLESSStream(l)
    BY <1>2, <1>5, Zenon DEF VLESSStream, VLESSKnown
  <2>. QED
    BY <1>5, <1>6, <2>1, Zenon DEF ParseVLESS
<1>8. d = Config("vless", Q(l, "fragment"), WrappedPort(l), fields, u)
  BY <1>1, <1>3, <1>5, <1>6, Zenon DEF ClashVLESS
<1>9. c.protocol = "vless" /\ c.fields = fields /\ c.stream = s /\ d.protocol = "vless" /\ d.fields = fields /\ d.stream = u
  BY <1>7, <1>8, ConfigIs
<1>10. AlikeBut(SecurityLeaves(security, tls, reality), SecurityLeaves(security2, tls2, reality2), G)
  <2>1. opts => l.security = "reality"
    BY <1>1, Zenon
  <2>2. b <=> ~opts /\ l.security # "none"
    BY <1>1, Zenon
  <2>. QED
    BY <1>2, <1>3, <1>4, <2>1, <2>2, VLESSSecurityAlike, Zenon
<1>11. AlikeBut(buildStreamJSON(parsed).leaves, buildStreamJSON(u).leaves, G)
  <2>1. LinkTransport(l, VLESSKnown, VLESSTransport(l))
    BY VLESSLinkTransport
  <2>. QED
    BY <1>4, <1>5, <1>10, <2>1, StreamsAlike
<1>12. buildStreamJSON(s).leaves = buildStreamJSON(parsed).leaves
  <2>1. CASE l.type = "quic"
    BY <1>5, <2>1, QuicLeaves
  <2>2. CASE l.type # "quic"
    BY <1>5, <2>2
  <2>. QED
    BY <2>1, <2>2
<1>13. AlikeBut(buildStreamJSON(s).leaves, buildStreamJSON(u).leaves, G)
  BY <1>11, <1>12, Zenon
<1>14. AlikeBut(buildSettings(c), buildSettings(d), G)
  <2>1. "vless" \in KnownProtocols \ {"direct"}
    BY DEF KnownProtocols
  <2>. QED
    BY <1>9, <2>1, SettingsAlike
<1>15. ConfigsAlike(c, d, G)
  BY <1>9, <1>13, <1>14, PartsAlike
<1>. QED
  BY <1>4, <1>6, <1>15, Zenon

\* The server's name of a trojan link and of its node.
LEMMA TrojanNames ==
  ASSUME NEW l, NEW sni, NEW other, sni = Or(First(l, <<"sni", "peer">>), Address), other = Or(Q(l, "sni"), Address),
         l.scheme = "trojan"
  PROVE  /\ Near(sni, other, ClashGaps(l))
         /\ l.security = "reality" => Allowed(sni, ClashGaps(l)) /\ Allowed(other, ClashGaps(l))
<1>1. PICK G : G = ClashGaps(l)
  OBVIOUS
<1>2. sni = IF "sni" \in l.given THEN "sni" ELSE IF "peer" \in l.given THEN "peer" ELSE Address
  <2>1. PICK v : v = First(l, <<"sni", "peer">>)
    OBVIOUS
  <2>2. v = IF "sni" \in l.given THEN "sni" ELSE IF "peer" \in l.given THEN "peer" ELSE ""
    BY <2>1, OfTwo
  <2>3. sni = IF v = "" THEN Address ELSE v
    BY <2>1, Zenon DEF Or
  <2>. QED
    BY <2>2, <2>3
<1>3. other = IF "sni" \in l.given THEN "sni" ELSE Address
  <2>1. PICK v : v = Q(l, "sni")
    OBVIOUS
  <2>2. v = IF "sni" \in l.given THEN "sni" ELSE ""
    BY <2>1, QIs
  <2>3. other = IF v = "" THEN Address ELSE v
    BY <2>1, Zenon DEF Or
  <2>. QED
    BY <2>2, <2>3
<1>4. "peer" \in G /\ ("sni" \notin l.given => Address \in G)
      /\ (l.security = "reality" => "sni" \in G /\ Address \in G)
  BY <1>1, GapsHold DEF GapsAre
<1>5. Near(sni, other, G)
  BY <1>2, <1>3, <1>4 DEF Near, Allowed
<1>6. l.security = "reality" => Allowed(sni, G) /\ Allowed(other, G)
  BY <1>2, <1>3, <1>4 DEF Allowed
<1>. QED
  BY <1>1, <1>5, <1>6, Zenon

LEMMA TrojanAlike ==
  ASSUME NEW l \in NodeSources, l.scheme = "trojan"
  PROVE  ConfigsAlike(ParseTrojan(l), ClashTrojan(l), ClashGaps(l))
<1>1. PICK sni, other, b, G : /\ sni = Or(First(l, <<"sni", "peer">>), Address) /\ other = Or(Q(l, "sni"), Address)
                              /\ b = (l.security = "reality") /\ G = ClashGaps(l)
  OBVIOUS
<1>2. PICK security, tls, reality, tls2 :
        /\ security = (IF b THEN "reality" ELSE "tls")
        /\ tls = (IF b THEN Nil ELSE Tls(l, sni, Q(l, "fp")))
        /\ reality = (IF b THEN Reality(l, sni, Q(l, "spx")) ELSE Nil)
        /\ tls2 = Tls(l, other, "")
  OBVIOUS
<1>3. PICK fields, s, u :
        /\ fields = [password |-> Q(l, "user")]
        /\ s = Stream(l, {"ws", "grpc", "h2"}, security, tls, reality, TrojanTransport(l))
        /\ u = ClashStream(l, {}, "tls", tls2, Nil)
  OBVIOUS
<1>4. PICK c, d : c = ParseTrojan(l) /\ d = ClashTrojan(l)
  OBVIOUS
<1>5. c = Config("trojan", Tag(l), ParsedPort(l, DefaultPort.https), fields, s)
  <2>1. s = TrojanStream(l)
    BY <1>1, <1>2, <1>3, Zenon DEF TrojanStream
  <2>. QED
    BY <1>3, <1>4, <2>1, Zenon DEF ParseTrojan
<1>6. d = Config("trojan", Q(l, "fragment"), WrappedPort(l), fields, u)
  BY <1>1, <1>2, <1>3, <1>4, Zenon DEF ClashTrojan
<1>7. c.protocol = "trojan" /\ c.fields = fields /\ c.stream = s /\ d.protocol = "trojan" /\ d.fields = fields /\ d.stream = u
  BY <1>5, <1>6, ConfigIs
<1>8. Near(sni, other, G) /\ (b => Allowed(sni, G) /\ Allowed(other, G))
  BY <1>1, TrojanNames, Zenon
<1>9. AlikeBut(SecurityLeaves(security, tls, reality), SecurityLeaves("tls", tls2, Nil), G)
  <2>1. CASE b
    <3>1. l.security = "reality"
      BY <1>1, <2>1, Zenon
    <3>2. {"alpn", "pbk", "sid", "spx", "fp"} \subseteq G
      BY <1>1, <3>1, GapsHold DEF GapsAre
    <3>3. /\ Allowed(Q(l, "alpn"), G) /\ Allowed(Q(l, "pbk"), G) /\ Allowed(Q(l, "sid"), G) /\ Allowed(Q(l, "spx"), G)
          /\ Allowed(Q(l, "fp"), G) /\ Allowed("", G)
      BY <3>2, QAllowed DEF Allowed
    <3>4. Within(SecurityLeaves("reality", Nil, Reality(l, sni, Q(l, "spx"))), G)
      BY <1>8, <2>1, <3>3, RealityWithin, Zenon
    <3>5. Within(SecurityLeaves("tls", tls2, Nil), G)
      BY <1>2, <1>8, <2>1, <3>3, TlsWithin, Zenon
    <3>6. security = "reality" /\ tls = Nil /\ reality = Reality(l, sni, Q(l, "spx"))
      BY <1>2, <2>1, Zenon
    <3>7. Within(SecurityLeaves(security, tls, reality), G)
      BY <3>4, <3>6, Zenon
    <3>. QED
      BY <3>5, <3>7, AlikeWithin
  <2>2. CASE ~b
    <3>1. "fp" \in G
      BY <1>1, GapsHold DEF GapsAre
    <3>2. Near(Q(l, "fp"), "", G) /\ Near(Q(l, "alpn"), Q(l, "alpn"), G)
      BY <3>1, QAllowed, NearMissing, NearSame
    <3>3. AlikeBut(SecurityLeaves("tls", Tls(l, sni, Q(l, "fp")), Nil), SecurityLeaves("tls", tls2, Nil), G)
      BY <1>2, <1>8, <3>2, TlsAlike, Zenon
    <3>4. security = "tls" /\ tls = Tls(l, sni, Q(l, "fp")) /\ reality = Nil
      BY <1>2, <2>2, Zenon
    <3>. QED
      BY <3>3, <3>4, Zenon
  <2>. QED
    BY <2>1, <2>2, Zenon
<1>10. AlikeBut(buildStreamJSON(s).leaves, buildStreamJSON(u).leaves, G)
  <2>1. LinkTransport(l, {"ws", "grpc", "h2"}, TrojanTransport(l))
    BY TrojanLinkTransport
  <2>. QED
    BY <1>1, <1>3, <1>9, <2>1, StreamsAlike
<1>11. AlikeBut(buildSettings(c), buildSettings(d), G)
  <2>1. "trojan" \in KnownProtocols \ {"direct"}
    BY DEF KnownProtocols
  <2>. QED
    BY <1>7, <2>1, SettingsAlike
<1>12. ConfigsAlike(c, d, G)
  BY <1>7, <1>10, <1>11, PartsAlike
<1>. QED
  BY <1>1, <1>4, <1>12, Zenon

LEMMA ShadowsocksAlike ==
  ASSUME NEW l \in NodeSources, l.scheme = "ss", ParseShadowsocks(l) # ParseError
  PROVE  ConfigsAlike(ParseShadowsocks(l), ClashShadowsocks(l), ClashGaps(l))
<1>1. PICK b, secret, G : b = ("nocolon" \in l.given) /\ secret = Q(l, "user") /\ G = ClashGaps(l)
  OBVIOUS
<1>2. PICK method, password : /\ method = (IF b THEN "aes-256-gcm" ELSE "method")
                              /\ password = (IF b THEN "user" ELSE secret)
  OBVIOUS
<1>3. PICK c, d : c = ParseShadowsocks(l) /\ d = ClashShadowsocks(l)
  OBVIOUS
<1>4. c = ShadowsocksConfig(l, Tag(l), ParsedPort(l, Absent), method, password)
  <2>1. c = IF b THEN ShadowsocksConfig(l, Tag(l), ParsedPort(l, Absent), "aes-256-gcm", "user")
            ELSE ShadowsocksConfig(l, Tag(l), ParsedPort(l, Absent), "method", secret)
    BY <1>1, <1>3, Zenon DEF ParseShadowsocks
  <2>. QED
    BY <1>2, <2>1
<1>5. d = ShadowsocksConfig(l, Q(l, "fragment"), WrappedPort(l), "method", secret)
  BY <1>1, <1>3, Zenon DEF ClashShadowsocks
<1>6. PICK f, g : f = [method |-> method, password |-> password] /\ g = [method |-> "method", password |-> secret]
  OBVIOUS
<1>7. PICK p, q : /\ p = (IF method = "method" /\ "2022" \in l.given THEN "ss2022" ELSE "shadowsocks")
                  /\ q = (IF "method" = "method" /\ "2022" \in l.given THEN "ss2022" ELSE "shadowsocks")
  OBVIOUS
<1>8. c = Config(p, Tag(l), ParsedPort(l, Absent), f, NoStream)
  BY <1>4, <1>6, <1>7, Zenon DEF ShadowsocksConfig
<1>9. d = Config(q, Q(l, "fragment"), WrappedPort(l), g, NoStream)
  BY <1>5, <1>6, <1>7, Zenon DEF ShadowsocksConfig
<1>10. c.protocol = p /\ c.fields = f /\ c.stream = NoStream /\ d.protocol = q /\ d.fields = g /\ d.stream = NoStream
  BY <1>8, <1>9, ConfigIs
<1>11. {p, q} \subseteq {"shadowsocks", "ss2022"}
  BY <1>7
<1>12. buildSettings(c) = Leaves("settings", {"method", "password"}, f)
       /\ buildSettings(d) = Leaves("settings", {"method", "password"}, g)
  <2>1. c.protocol \in {"vmess", "vless", "trojan", "shadowsocks", "ss2022"}
        /\ d.protocol \in {"vmess", "vless", "trojan", "shadowsocks", "ss2022"}
    BY <1>10, <1>11
  <2>2. buildSettings(c) = Leaves("settings", DOMAIN c.fields, c.fields)
    BY <2>1, Zenon DEF buildSettings
  <2>3. buildSettings(d) = Leaves("settings", DOMAIN d.fields, d.fields)
    BY <2>1, Zenon DEF buildSettings
  <2>4. DOMAIN f = {"method", "password"} /\ DOMAIN g = {"method", "password"}
    BY <1>6
  <2>. QED
    BY <1>10, <2>2, <2>3, <2>4, Zenon
<1>13. \A n \in {"method", "password"} \cap DOMAIN f : f[n] = g[n] \/ (Allowed(f[n], G) /\ Allowed(g[n], G))
  <2>1. f["method"] = method /\ f["password"] = password /\ g["method"] = "method" /\ g["password"] = secret
    BY <1>6
  <2>2. CASE b
    <3>1. "nocolon" \in l.given
      BY <1>1, <2>2, Zenon
    <3>2. {"aes-256-gcm", "method", "user"} \subseteq G
      BY <1>1, <3>1, GapsHold DEF GapsAre
    <3>3. method = "aes-256-gcm" /\ password = "user"
      BY <1>2, <2>2, Zenon
    <3>4. Allowed(secret, G)
      BY <1>1, <3>2, QAllowed
    <3>5. Allowed(method, G) /\ Allowed(password, G) /\ Allowed("method", G)
      BY <3>2, <3>3 DEF Allowed
    <3>. QED
      BY <2>1, <3>4, <3>5
  <2>3. CASE ~b
    <3>1. method = "method" /\ password = secret
      BY <1>2, <2>3, Zenon
    <3>. QED
      BY <2>1, <3>1
  <2>. QED
    BY <2>2, <2>3, Zenon
<1>14. AlikeBut(buildSettings(c), buildSettings(d), G)
  <2>1. {"method", "password"} \cap DOMAIN f = {"method", "password"} \cap DOMAIN g
    BY <1>6
  <2>2. AlikeBut(Leaves("settings", {"method", "password"}, f), Leaves("settings", {"method", "password"}, g), G)
    BY <1>13, <2>1, LeavesAlike, Zenon
  <2>. QED
    BY <1>12, <2>2, Zenon
<1>15. AlikeBut(buildStreamJSON(c.stream).leaves, buildStreamJSON(d.stream).leaves, G)
  BY <1>10, AlikeSame
<1>16. ConfigsAlike(c, d, G)
  BY <1>10, <1>11, <1>14, <1>15, PartsAlike
<1>. QED
  BY <1>1, <1>3, <1>16, Zenon

LEMMA SOCKSAlike ==
  ASSUME NEW l \in NodeSources, l.scheme = "socks", ParseSOCKS(l) # ParseError
  PROVE  ConfigsAlike(ParseSOCKS(l), ClashSOCKS(l), ClashGaps(l))
<1>1. PICK c, d, fields : c = ParseSOCKS(l) /\ d = ClashSOCKS(l) /\ fields = UserFields(l)
  OBVIOUS
<1>2. PICK tag, port : c = Config("socks", tag, port, fields, NoStream)
  BY <1>1, Zenon DEF ParseSOCKS
<1>3. d = Config("socks", Q(l, "fragment"), WrappedPort(l), fields, NoStream)
  BY <1>1, Zenon DEF ClashSOCKS
<1>4. /\ c.protocol = "socks" /\ c.fields = fields /\ c.stream = NoStream
      /\ d.protocol = "socks" /\ d.fields = fields /\ d.stream = NoStream
  BY <1>2, <1>3, ConfigIs
<1>5. AlikeBut(buildSettings(c), buildSettings(d), ClashGaps(l))
  <2>1. "socks" \in KnownProtocols \ {"direct"}
    BY DEF KnownProtocols
  <2>. QED
    BY <1>4, <2>1, SettingsAlike
<1>6. AlikeBut(buildStreamJSON(c.stream).leaves, buildStreamJSON(d.stream).leaves, ClashGaps(l))
  BY <1>4, AlikeSame
<1>7. ConfigsAlike(c, d, ClashGaps(l))
  BY <1>4, <1>5, <1>6, PartsAlike
<1>. QED
  BY <1>1, <1>7, Zenon

LEMMA HTTPAlike ==
  ASSUME NEW l \in NodeSources, l.scheme = "http", ParseHTTP(l) # ParseError
  PROVE  ConfigsAlike(ParseHTTP(l), ClashHTTP(l), ClashGaps(l))
<1>1. PICK m, o, k, b, G : /\ m = [l EXCEPT !.given = {}] /\ o = [l EXCEPT !.given = @ \ {"alpn"}]
                           /\ k = [l EXCEPT !.type = ""] /\ b = (l.security = "tls") /\ G = ClashGaps(l)
  OBVIOUS
<1>2. PICK tls, tls2 : tls = Tls(m, Address, "") /\ tls2 = Tls(o, Q(l, "sni"), "")
  OBVIOUS
<1>3. PICK s, u, fields : /\ s = (IF b THEN Stream(k, {}, "tls", tls, Nil, Nil) ELSE NoStream)
                          /\ u = (IF b THEN Stream(k, {}, "tls", tls2, Nil, Nil) ELSE NoStream)
                          /\ fields = UserFields(l)
  OBVIOUS
<1>4. PICK c, d : c = ParseHTTP(l) /\ d = ClashHTTP(l)
  OBVIOUS
<1>5. PICK tag, port : c = Config("http", tag, port, fields, s)
  <2>1. PICK n : n = ParsedPort(l, IF b THEN DefaultPort.https ELSE DefaultPort.http)
    OBVIOUS
  <2>2. c = Config("http", Or(Q(l, "fragment"), "http-address"), n, fields, s)
    BY <1>1, <1>2, <1>3, <1>4, <2>1, Zenon DEF ParseHTTP
  <2>. QED
    BY <2>2
<1>6. d = Config("http", Q(l, "fragment"), WrappedPort(l), fields, u)
  BY <1>1, <1>2, <1>3, <1>4, Zenon DEF ClashHTTP
<1>7. c.protocol = "http" /\ c.fields = fields /\ c.stream = s /\ d.protocol = "http" /\ d.fields = fields /\ d.stream = u
  BY <1>5, <1>6, ConfigIs
<1>8. AlikeBut(buildStreamJSON(s).leaves, buildStreamJSON(u).leaves, G)
  <2>1. CASE b
    <3>1. s = Stream(k, {}, "tls", tls, Nil, Nil) /\ u = Stream(k, {}, "tls", tls2, Nil, Nil)
      BY <1>3, <2>1, Zenon
    <3>2. PICK n : n = Canonical(Or(k.type, "tcp"))
      OBVIOUS
    <3>3. n \notin {}
      OBVIOUS
    <3>4. /\ s.network = Or(k.type, "tcp") /\ s.security = "tls" /\ s.tls = tls /\ s.reality = Nil /\ s.transport = Nil /\ s # NoStream
          /\ u.network = Or(k.type, "tcp") /\ u.security = "tls" /\ u.tls = tls2 /\ u.reality = Nil /\ u.transport = Nil /\ u # NoStream
      BY <3>1, StreamIs
    <3>5. k.type = ""
      <4>1. "type" \in DOMAIN l
        BY NodesAssumption
      <4>. QED
        BY <1>1, <4>1
    <3>6. Canonical(s.network) = "tcp" /\ Canonical(u.network) = "tcp"
      <4>1. Or(k.type, "tcp") = "tcp"
        BY <3>5, Zenon DEF Or
      <4>2. Canonical("tcp") = "tcp"
        BY CanonicalIs
      <4>. QED
        BY <3>4, <4>1, <4>2, Zenon
    <3>7. Copied(Nil, "tcp", TransportNames) = {}
      <4>1. "tcp" # "nil"
        OBVIOUS
      <4>. QED
        BY <4>1, NothingCopied
    <3>8. PICK A, B : A = SecurityLeaves("tls", tls, Nil) /\ B = SecurityLeaves("tls", tls2, Nil)
      OBVIOUS
    <3>9. buildStreamJSON(s).leaves = A
      <4>1. buildStreamJSON(s).leaves =
              Copied(s.tls, s.security, SecurityNames) \cup Copied(s.reality, s.security, SecurityNames)
              \cup Copied(s.transport, Canonical(s.network), TransportNames)
        BY <3>4, StreamJSONIs
      <4>2. buildStreamJSON(s).leaves = A \cup Copied(Nil, "tcp", TransportNames)
        BY <3>4, <3>6, <3>8, <4>1, Zenon DEF SecurityLeaves
      <4>. QED
        BY <3>7, <4>2
    <3>10. buildStreamJSON(u).leaves = B
      <4>1. buildStreamJSON(u).leaves =
              Copied(u.tls, u.security, SecurityNames) \cup Copied(u.reality, u.security, SecurityNames)
              \cup Copied(u.transport, Canonical(u.network), TransportNames)
        BY <3>4, StreamJSONIs
      <4>2. buildStreamJSON(u).leaves = B \cup Copied(Nil, "tcp", TransportNames)
        BY <3>4, <3>6, <3>8, <4>1, Zenon DEF SecurityLeaves
      <4>. QED
        BY <3>7, <4>2
    <3>11. {Address, "sni"} \subseteq G
      BY <1>1, GapsHold DEF GapsAre
    <3>12. Near(Address, Q(l, "sni"), G)
      <4>1. Allowed(Q(l, "sni"), G)
        BY <3>11, QAllowed
      <4>2. Allowed(Address, G)
        BY <3>11 DEF Allowed
      <4>. QED
        BY <4>1, <4>2 DEF Near
    <3>13. Q(m, "alpn") = "" /\ Q(o, "alpn") = ""
      <4>1. m.given = {}
        <5>1. "given" \in DOMAIN l
          BY NodesAssumption
        <5>. QED
          BY <1>1, <5>1
      <4>2. o.given = l.given \ {"alpn"}
        BY <1>1, LessGiven
      <4>. QED
        BY <4>1, <4>2, QIs
    <3>14. Near("", "", G) /\ Near(Q(m, "alpn"), Q(o, "alpn"), G)
      BY <3>13, NearSame
    <3>15. AlikeBut(A, B, G)
      BY <1>2, <3>8, <3>12, <3>14, TlsAlike, Zenon
    <3>. QED
      BY <3>9, <3>10, <3>15, Zenon
  <2>2. CASE ~b
    <3>1. s = NoStream /\ u = NoStream
      BY <1>3, <2>2, Zenon
    <3>. QED
      BY <3>1, AlikeSame
  <2>. QED
    BY <2>1, <2>2, Zenon
<1>9. AlikeBut(buildSettings(c), buildSettings(d), G)
  <2>1. "http" \in KnownProtocols \ {"direct"}
    BY DEF KnownProtocols
  <2>. QED
    BY <1>7, <2>1, SettingsAlike
<1>10. ConfigsAlike(c, d, G)
  BY <1>7, <1>8, <1>9, PartsAlike
<1>. QED
  BY <1>1, <1>4, <1>10, Zenon

\* The settings of WireGuard, with the defaults that buildSettings adds.
WireGuardNames == {"secretKey", "publicKey", "preSharedKey", "address", "mtu", "reserved"}

\* f is what buildSettings makes of the fields e.
WireGuardBuilt(c, e, f) ==
  /\ buildSettings(c) = Leaves("settings", WireGuardNames, f)
  /\ DOMAIN f = WireGuardNames
  /\ \A n \in {"secretKey", "publicKey", "preSharedKey", "reserved"} : f[n] = e[n]
  /\ f["address"] = Or(e["address"], "10.0.0.2/32") /\ f["mtu"] = Or(e["mtu"], "1420")

LEMMA WireGuardSettings ==
  ASSUME NEW c, c.protocol = "wireguard", NEW e, c.fields = e, e = [n \in WireGuardNames |-> e[n]]
  PROVE  \E f : WireGuardBuilt(c, e, f)
<1>1. PICK a, m : a = Or(e["address"], "10.0.0.2/32") /\ m = Or(e["mtu"], "1420")
  OBVIOUS
<1>3. DOMAIN e = WireGuardNames
  <2>1. PICK h : h = [n \in WireGuardNames |-> e[n]]
    OBVIOUS
  <2>2. DOMAIN h = WireGuardNames
    BY <2>1
  <2>. QED
    BY <2>1, <2>2, Zenon
<1>4. PICK f : f = [e EXCEPT !.address = Or(@, "10.0.0.2/32"), !.mtu = Or(@, "1420")]
  OBVIOUS
<1>5. buildSettings(c) = Leaves("settings", DOMAIN e, f)
  BY <1>4, Zenon DEF buildSettings
<1>6. f = [e EXCEPT !.address = a, !.mtu = m]
  <2>1. f = [e EXCEPT !.address = Or(e["address"], "10.0.0.2/32"), !.mtu = Or(e["mtu"], "1420")]
    BY <1>4
  <2>. QED
    BY <1>1, <2>1, Zenon
<1>7. DOMAIN f = DOMAIN e
  BY <1>6
<1>8. /\ \A n \in {"secretKey", "publicKey", "preSharedKey", "reserved"} : f[n] = e[n]
      /\ f["address"] = a /\ f["mtu"] = m
  BY <1>3, <1>6 DEF WireGuardNames
<1>. QED
  BY <1>1, <1>3, <1>5, <1>7, <1>8, Zenon DEF WireGuardBuilt

LEMMA WireGuardAlike ==
  ASSUME NEW l \in NodeSources, l.scheme = "wireguard", ParseWireGuard(l) # ParseError
  PROVE  ConfigsAlike(ParseWireGuard(l), ClashWireGuard(l), ClashGaps(l))
<1>1. PICK key, public, psk, address, reserved :
        /\ key = Q(l, "user") /\ public = First(l, <<"publickey", "public-key", "peer">>)
        /\ psk = First(l, <<"presharedkey", "psk">>)
        /\ address = Or(First(l, <<"address", "local-address">>), "10.0.0.2/32")
        /\ reserved = parseReserved(l)
  OBVIOUS
<1>2. PICK mtu, public2, psk2, address2, mtu2 :
        /\ mtu = Or(Q(l, "mtu"), "1420") /\ public2 = Q(l, "publickey") /\ psk2 = Q(l, "presharedkey")
        /\ address2 = Q(l, "address") /\ mtu2 = Q(l, "mtu")
  OBVIOUS
<1>3. PICK c, d, G : c = ParseWireGuard(l) /\ d = ClashWireGuard(l) /\ G = ClashGaps(l)
  OBVIOUS
<1>4. reserved = Q(l, "reserved")
  BY <1>1, Zenon DEF parseReserved, Q
<1>5. PICK e, h :
        /\ e = [secretKey |-> key, publicKey |-> public, preSharedKey |-> psk, address |-> address,
                mtu |-> mtu, reserved |-> reserved]
        /\ h = [secretKey |-> key, publicKey |-> public2, preSharedKey |-> psk2, address |-> address2,
                mtu |-> mtu2, reserved |-> reserved]
  OBVIOUS
<1>6. c = Config("wireguard", Tag(l), ParsedPort(l, DefaultPort.wireguard), e, NoStream)
  BY <1>1, <1>2, <1>3, <1>5, Zenon DEF ParseWireGuard
<1>7. d = Config("wireguard", Q(l, "fragment"), WrappedPort(l), h, NoStream)
  BY <1>1, <1>2, <1>3, <1>4, <1>5, Zenon DEF ClashWireGuard
<1>8. /\ c.protocol = "wireguard" /\ c.fields = e /\ c.stream = NoStream
      /\ d.protocol = "wireguard" /\ d.fields = h /\ d.stream = NoStream
  BY <1>6, <1>7, ConfigIs
<1>9. PICK f : /\ buildSettings(c) = Leaves("settings", WireGuardNames, f)
               /\ DOMAIN f = WireGuardNames
               /\ f["secretKey"] = key /\ f["publicKey"] = public /\ f["preSharedKey"] = psk
               /\ f["address"] = Or(address, "10.0.0.2/32") /\ f["mtu"] = Or(mtu, "1420") /\ f["reserved"] = reserved
  <2>1. e = [n \in WireGuardNames |-> e[n]]
    BY <1>5 DEF WireGuardNames
  <2>2. \E x : WireGuardBuilt(c, e, x)
    BY <1>8, <2>1, WireGuardSettings, Zenon
  <2>3. PICK f : WireGuardBuilt(c, e, f)
    BY <2>2, Zenon
  <2>4. /\ e["secretKey"] = key /\ e["publicKey"] = public /\ e["preSharedKey"] = psk
        /\ e["address"] = address /\ e["mtu"] = mtu /\ e["reserved"] = reserved
    BY <1>5
  <2>5. f["secretKey"] = e["secretKey"]
        /\ f["publicKey"] = e["publicKey"] /\ f["preSharedKey"] = e["preSharedKey"] /\ f["reserved"] = e["reserved"]
    BY <2>3 DEF WireGuardBuilt
  <2>. QED
    BY <2>3, <2>4, <2>5, Zenon DEF WireGuardBuilt
<1>10. PICK g : /\ buildSettings(d) = Leaves("settings", WireGuardNames, g)
                /\ DOMAIN g = WireGuardNames
                /\ g["secretKey"] = key /\ g["publicKey"] = public2 /\ g["preSharedKey"] = psk2
                /\ g["address"] = Or(address2, "10.0.0.2/32") /\ g["mtu"] = Or(mtu2, "1420") /\ g["reserved"] = reserved
  <2>1. h = [n \in WireGuardNames |-> h[n]]
    BY <1>5 DEF WireGuardNames
  <2>2. \E x : WireGuardBuilt(d, h, x)
    BY <1>8, <2>1, WireGuardSettings, Zenon
  <2>3. PICK g : WireGuardBuilt(d, h, g)
    BY <2>2, Zenon
  <2>4. /\ h["secretKey"] = key /\ h["publicKey"] = public2 /\ h["preSharedKey"] = psk2
        /\ h["address"] = address2 /\ h["mtu"] = mtu2 /\ h["reserved"] = reserved
    BY <1>5
  <2>5. g["secretKey"] = h["secretKey"]
        /\ g["publicKey"] = h["publicKey"] /\ g["preSharedKey"] = h["preSharedKey"] /\ g["reserved"] = h["reserved"]
    BY <2>3 DEF WireGuardBuilt
  <2>. QED
    BY <2>3, <2>4, <2>5, Zenon DEF WireGuardBuilt
<1>11. f["publicKey"] = g["publicKey"] \/ (Allowed(f["publicKey"], G) /\ Allowed(g["publicKey"], G))
  <2>1. {"public-key", "peer"} \subseteq G
    BY <1>3, GapsHold DEF GapsAre
  <2>2. public = IF "publickey" \in l.given THEN "publickey" ELSE IF "public-key" \in l.given THEN "public-key"
                 ELSE IF "peer" \in l.given THEN "peer" ELSE ""
    BY <1>1, OfThree, Zenon
  <2>3. public2 = IF "publickey" \in l.given THEN "publickey" ELSE ""
    BY <1>2, QIs, Zenon
  <2>. QED
    BY <1>9, <1>10, <2>1, <2>2, <2>3 DEF Allowed
<1>12. f["preSharedKey"] = g["preSharedKey"] \/ (Allowed(f["preSharedKey"], G) /\ Allowed(g["preSharedKey"], G))
  <2>1. "psk" \in G
    BY <1>3, GapsHold DEF GapsAre
  <2>2. psk = IF "presharedkey" \in l.given THEN "presharedkey" ELSE IF "psk" \in l.given THEN "psk" ELSE ""
    BY <1>1, OfTwo, Zenon
  <2>3. psk2 = IF "presharedkey" \in l.given THEN "presharedkey" ELSE ""
    BY <1>2, QIs, Zenon
  <2>. QED
    BY <1>9, <1>10, <2>1, <2>2, <2>3 DEF Allowed
<1>13. f["address"] = g["address"] \/ (Allowed(f["address"], G) /\ Allowed(g["address"], G))
  <2>1. PICK first : first = First(l, <<"address", "local-address">>)
    OBVIOUS
  <2>2. first = IF "address" \in l.given THEN "address" ELSE IF "local-address" \in l.given THEN "local-address" ELSE ""
    BY <2>1, OfTwo, Zenon
  <2>3. address2 = IF "address" \in l.given THEN "address" ELSE ""
    BY <1>2, QIs, Zenon
  <2>4. address = IF first = "" THEN "10.0.0.2/32" ELSE first
    BY <1>1, <2>1, Zenon DEF Or
  <2>5. /\ f["address"] = IF address = "" THEN "10.0.0.2/32" ELSE address
        /\ g["address"] = IF address2 = "" THEN "10.0.0.2/32" ELSE address2
    BY <1>9, <1>10, Zenon DEF Or
  <2>6. "local-address" \in G /\ ("address" \notin l.given => "10.0.0.2/32" \in G)
    BY <1>3, GapsHold DEF GapsAre
  <2>7. CASE "address" \in l.given
    <3>1. f["address"] = "address" /\ g["address"] = "address"
      BY <2>2, <2>3, <2>4, <2>5, <2>7
    <3>. QED
      BY <3>1, Zenon
  <2>8. CASE "address" \notin l.given
    <3>1. f["address"] \in {"local-address", "10.0.0.2/32"} /\ g["address"] = "10.0.0.2/32"
      BY <2>2, <2>3, <2>4, <2>5, <2>8
    <3>. QED
      BY <2>6, <2>8, <3>1 DEF Allowed
  <2>. QED
    BY <2>7, <2>8, Zenon
<1>14. f["mtu"] = g["mtu"]
  <2>1. mtu = IF mtu2 = "" THEN "1420" ELSE mtu2
    BY <1>2, Zenon DEF Or
  <2>2. f["mtu"] = (IF mtu = "" THEN "1420" ELSE mtu) /\ g["mtu"] = (IF mtu2 = "" THEN "1420" ELSE mtu2)
    BY <1>9, <1>10, Zenon DEF Or
  <2>. QED
    BY <2>1, <2>2
<1>15. AlikeBut(buildSettings(c), buildSettings(d), G)
  <2>1. PICK names : names = WireGuardNames
    OBVIOUS
  <2>2. f["secretKey"] = g["secretKey"] /\ f["reserved"] = g["reserved"]
    BY <1>9, <1>10, Zenon
  <2>3. \A n \in names : f[n] = g[n] \/ (Allowed(f[n], G) /\ Allowed(g[n], G))
    BY <1>11, <1>12, <1>13, <1>14, <2>1, <2>2 DEF WireGuardNames
  <2>4. DOMAIN f = names /\ DOMAIN g = names
    BY <1>9, <1>10, <2>1, Zenon
  <2>5. AlikeBut(Leaves("settings", names, f), Leaves("settings", names, g), G)
    BY <2>3, <2>4, LeavesAlike
  <2>. QED
    BY <1>9, <1>10, <2>4, <2>5, Zenon
<1>16. AlikeBut(buildStreamJSON(c.stream).leaves, buildStreamJSON(d.stream).leaves, G)
  BY <1>8, AlikeSame
<1>17. ConfigsAlike(c, d, G)
  BY <1>8, <1>15, <1>16, PartsAlike
<1>. QED
  BY <1>3, <1>17, Zenon

\* A link and a Clash node of every scheme.
LEMMA NodesAlike ==
  ASSUME NEW l \in NodeSources, ParseLink(l) # ParseError, parseClashProxy(l) # ParseError
  PROVE  ConfigsAlike(ParseLink(l), parseClashProxy(l), ClashGaps(l))
<1>1. CASE l.scheme = "vmess"
  <2>1. ParseLink(l) = ParseV2RayN(l) /\ parseClashProxy(l) = ClashVMess(l)
    BY <1>1, Zenon DEF ParseLink, parseClashProxy
  <2>. QED
    BY <1>1, <2>1, VMessAlike, Zenon
<1>2. CASE l.scheme = "vless"
  <2>1. ParseLink(l) = ParseVLESS(l) /\ parseClashProxy(l) = ClashVLESS(l)
    BY <1>2, Zenon DEF ParseLink, parseClashProxy
  <2>. QED
    BY <1>2, <2>1, VLESSAlike, Zenon
<1>3. CASE l.scheme = "trojan"
  <2>1. ParseLink(l) = ParseTrojan(l) /\ parseClashProxy(l) = ClashTrojan(l)
    BY <1>3, Zenon DEF ParseLink, parseClashProxy
  <2>. QED
    BY <1>3, <2>1, TrojanAlike, Zenon
<1>4. CASE l.scheme = "ss"
  <2>1. ParseLink(l) = ParseShadowsocks(l) /\ parseClashProxy(l) = ClashShadowsocks(l)
    BY <1>4, Zenon DEF ParseLink, parseClashProxy
  <2>. QED
    BY <1>4, <2>1, ShadowsocksAlike, Zenon
<1>5. CASE l.scheme = "socks"
  <2>1. ParseLink(l) = ParseSOCKS(l) /\ parseClashProxy(l) = ClashSOCKS(l)
    BY <1>5, Zenon DEF ParseLink, parseClashProxy
  <2>. QED
    BY <1>5, <2>1, SOCKSAlike, Zenon
<1>6. CASE l.scheme = "http"
  <2>1. ParseLink(l) = ParseHTTP(l) /\ parseClashProxy(l) = ClashHTTP(l)
    BY <1>6, Zenon DEF ParseLink, parseClashProxy
  <2>. QED
    BY <1>6, <2>1, HTTPAlike, Zenon
<1>7. CASE l.scheme = "wireguard"
  <2>1. ParseLink(l) = ParseWireGuard(l) /\ parseClashProxy(l) = ClashWireGuard(l)
    BY <1>7, Zenon DEF ParseLink, parseClashProxy
  <2>. QED
    BY <1>7, <2>1, WireGuardAlike, Zenon
<1>8. CASE l.scheme \notin ClashSchemes
  <2>1. parseClashProxy(l) = ParseError
    BY <1>8, Zenon DEF parseClashProxy, ClashSchemes
  <2>. QED
    BY <2>1
<1>. QED
  BY <1>1, <1>2, <1>3, <1>4, <1>5, <1>6, <1>7, <1>8 DEF ClashSchemes

-----------------------------------------------------------------------------
\* What a link gives is in its outbound.

Shows(leaves, value) == \E leaf \in leaves : leaf[3] = value

LEMMA LeafShown ==
  ASSUME NEW part, NEW names, NEW f, NEW n \in names \cap DOMAIN f, f[n] # ""
  PROVE  Shows(Leaves(part, names, f), f[n])
<1>1. PICK v : v = f[n]
  OBVIOUS
<1>2. <<part, n, v>> \in Leaves(part, names, f)
  BY <1>1, LeavesOf, Zenon
<1>3. <<part, n, v>>[3] = v
  OBVIOUS
<1>4. Shows(Leaves(part, names, f), v)
  BY <1>2, <1>3, Zenon DEF Shows
<1>. QED
  BY <1>1, <1>4, Zenon

SecurityShown(l, security, leaves) == \A key \in l.given \cap SecurityParameters[security] : Shows(leaves, key)

SecurityParametersAre ==
  /\ SecurityParameters["none"] = {} /\ SecurityParameters["tls"] = {"sni", "alpn", "fp"}
  /\ SecurityParameters["reality"] = {"sni", "pbk", "sid", "spx", "fp"}

LEMMA SecurityParametersHold == SecurityParametersAre
  BY DEF SecurityParametersAre, SecurityParameters

LEMMA TlsShown ==
  ASSUME NEW l, NEW m, l.given \cap {"alpn"} \subseteq m.given, NEW name, "sni" \in l.given => name = "sni"
  PROVE  SecurityShown(l, "tls", SecurityLeaves("tls", Tls(m, name, Q(l, "fp")), Nil))
<1>1. PICK t, fp, alpn : t = Tls(m, name, fp) /\ fp = Q(l, "fp") /\ alpn = Q(m, "alpn")
  OBVIOUS
<1>2. t["serverName"] = name /\ t["fingerprint"] = fp /\ t["alpn"] = alpn /\ {"serverName", "fingerprint", "alpn"} \subseteq DOMAIN t
  BY <1>1, TlsIs
<1>3. PICK names : names = SecurityNames["tls"]
  OBVIOUS
<1>4. names = {"serverName", "alpn", "fingerprint"}
  BY <1>3 DEF SecurityNames
<1>5. PICK A : A = Leaves("tls", names, t)
  OBVIOUS
<1>6. \A n \in {"serverName", "alpn", "fingerprint"} : t[n] # "" => Shows(A, t[n])
  BY <1>2, <1>4, <1>5, LeafShown
<1>7. fp = IF "fp" \in l.given THEN "fp" ELSE ""
  BY <1>1, QIs, Zenon
<1>8. alpn = IF "alpn" \in m.given THEN "alpn" ELSE ""
  BY <1>1, QIs, Zenon
<1>9. /\ "sni" \in l.given => Shows(A, "sni")
      /\ "alpn" \in l.given => Shows(A, "alpn")
      /\ "fp" \in l.given => Shows(A, "fp")
  BY <1>2, <1>6, <1>7, <1>8
<1>10. SecurityShown(l, "tls", A)
  BY <1>9, SecurityParametersHold DEF SecurityShown, SecurityParametersAre
<1>11. SecurityLeaves("tls", Tls(m, name, fp), Nil) = A
  BY <1>1, <1>3, <1>5, SecurityLeavesAre, Zenon
<1>. QED
  BY <1>1, <1>10, <1>11, Zenon

LEMMA RealityShown ==
  ASSUME NEW l, NEW name, "sni" \in l.given => name = "sni"
  PROVE  SecurityShown(l, "reality", SecurityLeaves("reality", Nil, Reality(l, name, Q(l, "spx"))))
<1>1. PICK r, spx, pbk, sid, fp : /\ r = Reality(l, name, spx) /\ spx = Q(l, "spx") /\ pbk = Q(l, "pbk")
                                  /\ sid = Q(l, "sid") /\ fp = Q(l, "fp")
  OBVIOUS
<1>2. /\ r["serverName"] = name /\ r["publicKey"] = pbk /\ r["shortId"] = sid /\ r["spiderX"] = spx /\ r["fingerprint"] = fp
      /\ {"serverName", "publicKey", "shortId", "spiderX", "fingerprint"} \subseteq DOMAIN r
  BY <1>1, RealityIs
<1>3. PICK names : names = SecurityNames["reality"]
  OBVIOUS
<1>4. names = {"serverName", "publicKey", "shortId", "spiderX", "fingerprint"}
  BY <1>3 DEF SecurityNames
<1>5. PICK A : A = Leaves("reality", names, r)
  OBVIOUS
<1>6. \A n \in {"serverName", "publicKey", "shortId", "spiderX", "fingerprint"} : r[n] # "" => Shows(A, r[n])
  BY <1>2, <1>4, <1>5, LeafShown
<1>7. /\ spx = (IF "spx" \in l.given THEN "spx" ELSE "") /\ pbk = (IF "pbk" \in l.given THEN "pbk" ELSE "")
      /\ sid = (IF "sid" \in l.given THEN "sid" ELSE "") /\ fp = (IF "fp" \in l.given THEN "fp" ELSE "")
  BY <1>1, QIs, Zenon
<1>8. /\ "sni" \in l.given => Shows(A, "sni")
      /\ "pbk" \in l.given => Shows(A, "pbk")
      /\ "sid" \in l.given => Shows(A, "sid")
      /\ "spx" \in l.given => Shows(A, "spx")
      /\ "fp" \in l.given => Shows(A, "fp")
  BY <1>2, <1>6, <1>7
<1>9. SecurityShown(l, "reality", A)
  BY <1>8, SecurityParametersHold DEF SecurityShown, SecurityParametersAre
<1>10. SecurityLeaves("reality", Nil, Reality(l, name, spx)) = A
  BY <1>1, <1>3, <1>5, SecurityLeavesAre, Zenon
<1>. QED
  BY <1>1, <1>9, <1>10, Zenon

LEMMA NoneShown == ASSUME NEW l, NEW leaves PROVE SecurityShown(l, "none", leaves)
  BY SecurityParametersHold DEF SecurityShown, SecurityParametersAre

NetworkShown(l, network, leaves) ==
  network \in DOMAIN NetworkParameters => \A key \in l.given \cap NetworkParameters[network] : Shows(leaves, key)

NetworkParametersAre ==
  /\ DOMAIN NetworkParameters = VLESSKnown
  /\ NetworkParameters["ws"] = {"path", "host"} /\ NetworkParameters["h2"] = {"path", "host"}
  /\ NetworkParameters["grpc"] = {"serviceName"} /\ NetworkParameters["kcp"] = {"header", "seed"}
  /\ NetworkParameters["httpupgrade"] = {"path", "host"} /\ NetworkParameters["splithttp"] = {"path", "host", "mode"}
  /\ NetworkParameters["tcp"] = {"header"}

LEMMA NetworkParametersHold == NetworkParametersAre
  BY DEF NetworkParametersAre, NetworkParameters, VLESSKnown

\* Parameters that are settings of a transport under some name are shown.
Carried(l, t, network, keys) ==
  \A key \in l.given \cap keys : key # "" /\ \E n \in TransportNames[network] \cap DOMAIN t : t[n] = key

LEMMA TransportShown ==
  ASSUME NEW l, NEW network \in VLESSKnown, NEW t, t.of = network, NEW keys, Carried(l, t, network, keys)
  PROVE  \A key \in l.given \cap keys : Shows(TransportLeaves(network, VLESSKnown, t), key)
<1>1. PICK names : names = TransportNames[network]
  OBVIOUS
<1>2. TransportLeaves(network, VLESSKnown, t) = Leaves(network, names, t)
  BY <1>1, OneTransport, Zenon
<1>3. SUFFICES ASSUME NEW key \in l.given \cap keys PROVE Shows(Leaves(network, names, t), key)
  BY <1>2, Zenon
<1>4. key # "" /\ \E n \in names \cap DOMAIN t : t[n] = key
  BY <1>1, Zenon DEF Carried
<1>5. PICK n \in names \cap DOMAIN t : t[n] = key
  BY <1>4, Zenon
<1>. QED
  BY <1>4, <1>5, LeafShown

LEMMA VLESSTransportShown ==
  ASSUME NEW l
  PROVE  NetworkShown(l, NetworkOf(l), TransportLeaves(NetworkOf(l), VLESSKnown, VLESSTransport(l)))
<1>1. PICK n, t : n = NetworkOf(l) /\ t = VLESSTransport(l)
  OBVIOUS
<1>2. NetworkParametersAre /\ TransportNamesAre
  BY NetworkParametersHold, TransportNamesHold
<1>3. PICK path, host, mode, seed, header :
        /\ path = Q(l, "path") /\ host = Q(l, "host") /\ mode = Q(l, "mode") /\ seed = Q(l, "seed")
        /\ header = Q(l, "header")
  OBVIOUS
<1>4. PICK ed, name : ed = Q(l, "ed") /\ name = ServiceName(l)
  OBVIOUS
<1>5. /\ path = (IF "path" \in l.given THEN "path" ELSE "") /\ host = (IF "host" \in l.given THEN "host" ELSE "")
      /\ mode = (IF "mode" \in l.given THEN "mode" ELSE "") /\ seed = (IF "seed" \in l.given THEN "seed" ELSE "")
      /\ header = (IF "header" \in l.given THEN "header" ELSE "")
  BY <1>3, QIs, Zenon
<1>6. SUFFICES ASSUME n \in VLESSKnown
               PROVE  \A key \in l.given \cap NetworkParameters[n] : Shows(TransportLeaves(n, VLESSKnown, t), key)
  BY <1>1, <1>2, Zenon DEF NetworkShown, NetworkParametersAre
<1>7. \/ /\ t.of = n
         /\ \A key \in l.given \cap NetworkParameters[n] :
              key # "" /\ \E x \in TransportNames[n] \cap DOMAIN t : t[x] = key
      \/ n = "tcp" /\ "header" \notin l.given
  <2>1. CASE n = "tcp" /\ "header" \in l.given
    <3>1. t = [of |-> "tcp", header |-> "header", path |-> path, host |-> host]
      BY <1>1, <1>3, <2>1, VLESSTransportIs, Zenon DEF TcpHttp
    <3>2. t.of = "tcp" /\ t["header"] = "header" /\ "header" \in DOMAIN t
      BY <3>1
    <3>. QED
      BY <1>2, <2>1, <3>2 DEF NetworkParametersAre, TransportNamesAre
  <2>2. CASE n = "ws"
    <3>1. t = [of |-> "ws", path |-> path, host |-> host, maxEarlyData |-> ed]
      BY <1>1, <1>3, <1>4, <2>2, VLESSTransportIs, Zenon
    <3>2. t.of = "ws" /\ t["path"] = path /\ t["host"] = host /\ {"path", "host"} \subseteq DOMAIN t
      BY <3>1
    <3>. QED
      BY <1>2, <1>5, <2>2, <3>2 DEF NetworkParametersAre, TransportNamesAre
  <2>3. CASE n = "grpc"
    <3>1. t = Grpc(name, mode)
      BY <1>1, <1>3, <1>4, <2>3, VLESSTransportIs, Zenon
    <3>2. t.of = "grpc" /\ t["serviceName"] = name /\ "serviceName" \in DOMAIN t
      BY <3>1, GrpcIs
    <3>3. "serviceName" \in l.given => name = "serviceName"
      BY <1>4, OfTwo, Zenon DEF ServiceName
    <3>. QED
      BY <1>2, <2>3, <3>2, <3>3 DEF NetworkParametersAre, TransportNamesAre
  <2>4. CASE n \in {"h2", "httpupgrade"}
    <3>1. t = PathHost(n, l)
      BY <1>1, <2>4, VLESSTransportIs, Zenon
    <3>2. t.of = n /\ t["path"] = path /\ t["host"] = host /\ {"path", "host"} \subseteq DOMAIN t
      BY <1>3, <3>1, PathHostIs
    <3>3. NetworkParameters[n] = {"path", "host"} /\ TransportNames[n] = {"path", "host"}
      BY <1>2, <2>4, Zenon DEF NetworkParametersAre, TransportNamesAre
    <3>. QED
      BY <1>5, <3>2, <3>3
  <2>5. CASE n = "kcp"
    <3>1. t = [of |-> "kcp", header |-> header, seed |-> seed]
      BY <1>1, <1>3, <2>5, VLESSTransportIs, Zenon
    <3>2. t.of = "kcp" /\ t["header"] = header /\ t["seed"] = seed /\ {"header", "seed"} \subseteq DOMAIN t
      BY <3>1
    <3>. QED
      BY <1>2, <1>5, <2>5, <3>2 DEF NetworkParametersAre, TransportNamesAre
  <2>6. CASE n = "splithttp"
    <3>1. t = [of |-> "splithttp", path |-> path, host |-> host, mode |-> mode]
      BY <1>1, <1>3, <2>6, VLESSTransportIs, Zenon
    <3>2. t.of = "splithttp" /\ t["path"] = path /\ t["host"] = host /\ t["mode"] = mode /\ {"path", "host", "mode"} \subseteq DOMAIN t
      BY <3>1
    <3>. QED
      BY <1>2, <1>5, <2>6, <3>2 DEF NetworkParametersAre, TransportNamesAre
  <2>7. n = "tcp" \/ n = "ws" \/ n = "grpc" \/ n \in {"h2", "httpupgrade"} \/ n = "kcp" \/ n = "splithttp"
    BY <1>6 DEF VLESSKnown
  <2>. QED
    BY <2>1, <2>2, <2>3, <2>4, <2>5, <2>6, <2>7
<1>8. CASE n = "tcp" /\ "header" \notin l.given
  <2>1. l.given \cap NetworkParameters[n] = {}
    BY <1>2, <1>8 DEF NetworkParametersAre
  <2>. QED
    BY <2>1
<1>9. CASE ~(n = "tcp" /\ "header" \notin l.given)
  <2>1. PICK keys : keys = NetworkParameters[n]
    OBVIOUS
  <2>2. t.of = n /\ Carried(l, t, n, keys)
    BY <1>7, <1>9, <2>1, Zenon DEF Carried
  <2>3. \A key \in l.given \cap keys : Shows(TransportLeaves(n, VLESSKnown, t), key)
    BY <1>6, <2>2, TransportShown, Zenon
  <2>. QED
    BY <2>1, <2>3, Zenon
<1>. QED
  BY <1>8, <1>9

\* NothingLost of one link.
Wanted(l, out) ==
  (IF l.scheme = "vless" /\ out.network \in DOMAIN NetworkParameters /\ l.type # "quic"
   THEN NetworkParameters[out.network] ELSE {})
  \cup SecurityParameters[out.security]
Kept(l, c) == l.given \cap Wanted(l, buildOutboundJSON(c)) \subseteq Values(buildOutboundJSON(c))

LEMMA StreamKept ==
  ASSUME NEW l, NEW c, NEW j, j = buildStreamJSON(c.stream), SecurityShown(l, j.security, j.leaves),
         l.scheme = "vless" /\ l.type # "quic" => NetworkShown(l, j.network, j.leaves)
  PROVE  Kept(l, c)
<1>1. PICK out, values : out = buildOutboundJSON(c) /\ values = Values(out)
  OBVIOUS
<1>2. out.network = j.network /\ out.security = j.security
  BY <1>1, OutboundIs
<1>3. \A leaf \in j.leaves : leaf[3] \in values
  BY <1>1, ValuesOf
<1>4. \A key \in l.given \cap SecurityParameters[out.security] : key \in values
  BY <1>2, <1>3, Zenon DEF SecurityShown, Shows
<1>5. l.scheme = "vless" /\ l.type # "quic" /\ out.network \in DOMAIN NetworkParameters =>
        \A key \in l.given \cap NetworkParameters[out.network] : key \in values
  <2>. SUFFICES ASSUME l.scheme = "vless" /\ l.type # "quic", out.network \in DOMAIN NetworkParameters,
                       NEW key \in l.given \cap NetworkParameters[out.network]
                PROVE  key \in values
    OBVIOUS
  <2>1. NetworkShown(l, out.network, j.leaves)
    BY <1>2
  <2>2. PICK leaf \in j.leaves : leaf[3] = key
    BY <2>1, Zenon DEF NetworkShown, Shows
  <2>. QED
    BY <1>3, <2>2, Zenon
<1>6. l.given \cap Wanted(l, out) \subseteq values
  <2>1. CASE l.scheme = "vless" /\ out.network \in DOMAIN NetworkParameters /\ l.type # "quic"
    <3>1. Wanted(l, out) = NetworkParameters[out.network] \cup SecurityParameters[out.security]
      BY <2>1, Zenon DEF Wanted
    <3>. QED
      BY <1>4, <1>5, <2>1, <3>1
  <2>2. CASE ~(l.scheme = "vless" /\ out.network \in DOMAIN NetworkParameters /\ l.type # "quic")
    <3>1. Wanted(l, out) = {} \cup SecurityParameters[out.security]
      BY <2>2, Zenon DEF Wanted
    <3>. QED
      BY <1>4, <3>1
  <2>. QED
    BY <2>1, <2>2
<1>. QED
  BY <1>1, <1>6, Zenon DEF Kept

\* What a stream of a link has of its security.
LEMMA StreamSecurityShown ==
  ASSUME NEW l \in NodeSources, NEW known, NEW security, NEW tls, NEW reality, NEW t,
         SecurityShown(l, security, SecurityLeaves(security, tls, reality)), NEW s,
         s = Stream(l, known, security, tls, reality, t)
  PROVE  SecurityShown(l, buildStreamJSON(s).security, buildStreamJSON(s).leaves)
<1>1. PICK A, B, j : /\ A = SecurityLeaves(security, tls, reality) /\ B = TransportLeaves(NetworkOf(l), known, t)
                     /\ j = buildStreamJSON(s)
  OBVIOUS
<1>2. j.security = security /\ j.leaves = A \cup B
  BY <1>1, StreamLeaves
<1>3. SecurityShown(l, security, A)
  BY <1>1, Zenon
<1>4. SecurityShown(l, security, A \cup B)
  BY <1>3 DEF SecurityShown, Shows
<1>. QED
  BY <1>1, <1>2, <1>4, Zenon

\* The security of a vmess link, from the base64 of JSON or of Shadowrocket.
LEMMA VMessKept ==
  ASSUME NEW l \in NodeSources, l.scheme = "vmess", ParseV2RayN(l) # ParseError
  PROVE  Kept(l, ParseV2RayN(l))
<1>1. PICK b, m, c, s : /\ b = (l.security = "tls") /\ m = [l EXCEPT !.given = @ \ {"allowInsecure"}]
                        /\ c = ParseV2RayN(l) /\ s = V2RayNStream(l)
  OBVIOUS
<1>2. PICK security, tls : /\ security = (IF b THEN "tls" ELSE "none")
                           /\ tls = (IF b THEN Tls(m, Q(l, "sni"), Q(l, "fp")) ELSE Nil)
  OBVIOUS
<1>3. s = Stream(l, {"ws", "h2", "grpc", "tcp", "kcp"}, security, tls, Nil, V2RayNTransport(l))
  BY <1>1, <1>2, Zenon DEF V2RayNStream
<1>4. c.stream = s
  <2>1. c = Config("vmess", Tag(l), parsePort(l), VMessFields(l), s)
    BY <1>1, Zenon DEF ParseV2RayN
  <2>. QED
    BY <2>1, ConfigIs
<1>5. SecurityShown(l, security, SecurityLeaves(security, tls, Nil))
  <2>1. CASE b
    <3>1. l.given \cap {"alpn"} \subseteq m.given
      BY <1>1, LessGiven
    <3>2. "sni" \in l.given => Q(l, "sni") = "sni"
      BY QIs
    <3>3. SecurityShown(l, "tls", SecurityLeaves("tls", Tls(m, Q(l, "sni"), Q(l, "fp")), Nil))
      BY <3>1, <3>2, TlsShown
    <3>. QED
      BY <1>2, <2>1, <3>3, Zenon
  <2>2. CASE ~b
    <3>1. security = "none"
      BY <1>2, <2>2, Zenon
    <3>. QED
      BY <3>1, NoneShown
  <2>. QED
    BY <2>1, <2>2, Zenon
<1>6. PICK j : j = buildStreamJSON(s)
  OBVIOUS
<1>7. SecurityShown(l, j.security, j.leaves)
  BY <1>3, <1>5, <1>6, StreamSecurityShown
<1>8. Kept(l, c)
  <2>1. l.scheme # "vless"
    OBVIOUS
  <2>. QED
    BY <1>4, <1>6, <1>7, <2>1, StreamKept
<1>. QED
  BY <1>1, <1>8, Zenon

LEMMA TrojanKept ==
  ASSUME NEW l \in NodeSources, l.scheme = "trojan"
  PROVE  Kept(l, ParseTrojan(l))
<1>1. PICK b, sni, c, s : /\ b = (l.security = "reality") /\ sni = Or(First(l, <<"sni", "peer">>), Address)
                          /\ c = ParseTrojan(l) /\ s = TrojanStream(l)
  OBVIOUS
<1>2. PICK security, tls, reality : /\ security = (IF b THEN "reality" ELSE "tls")
                                    /\ tls = (IF b THEN Nil ELSE Tls(l, sni, Q(l, "fp")))
                                    /\ reality = (IF b THEN Reality(l, sni, Q(l, "spx")) ELSE Nil)
  OBVIOUS
<1>3. s = Stream(l, {"ws", "grpc", "h2"}, security, tls, reality, TrojanTransport(l))
  BY <1>1, <1>2, Zenon DEF TrojanStream
<1>4. c.stream = s
  <2>1. PICK fields : c = Config("trojan", Tag(l), ParsedPort(l, DefaultPort.https), fields, s)
    BY <1>1, Zenon DEF ParseTrojan
  <2>. QED
    BY <2>1, ConfigIs
<1>5. "sni" \in l.given => sni = "sni"
  <2>1. PICK first : first = First(l, <<"sni", "peer">>)
    OBVIOUS
  <2>2. "sni" \in l.given => first = "sni"
    BY <2>1, OfTwo, Zenon
  <2>3. sni = IF first = "" THEN Address ELSE first
    BY <1>1, <2>1, Zenon DEF Or
  <2>. QED
    BY <2>2, <2>3
<1>6. SecurityShown(l, security, SecurityLeaves(security, tls, reality))
  <2>1. CASE b
    <3>1. SecurityShown(l, "reality", SecurityLeaves("reality", Nil, Reality(l, sni, Q(l, "spx"))))
      BY <1>5, RealityShown
    <3>. QED
      BY <1>2, <2>1, <3>1, Zenon
  <2>2. CASE ~b
    <3>1. l.given \cap {"alpn"} \subseteq l.given
      OBVIOUS
    <3>2. SecurityShown(l, "tls", SecurityLeaves("tls", Tls(l, sni, Q(l, "fp")), Nil))
      BY <1>5, <3>1, TlsShown
    <3>. QED
      BY <1>2, <2>2, <3>2, Zenon
  <2>. QED
    BY <2>1, <2>2, Zenon
<1>7. PICK j : j = buildStreamJSON(s)
  OBVIOUS
<1>8. SecurityShown(l, j.security, j.leaves)
  BY <1>3, <1>6, <1>7, StreamSecurityShown
<1>9. Kept(l, c)
  <2>1. l.scheme # "vless"
    OBVIOUS
  <2>. QED
    BY <1>4, <1>7, <1>8, <2>1, StreamKept
<1>. QED
  BY <1>1, <1>9, Zenon

LEMMA VLESSKept ==
  ASSUME NEW l \in NodeSources, l.scheme = "vless"
  PROVE  Kept(l, ParseVLESS(l))
<1>1. PICK c, s, v, q : /\ c = ParseVLESS(l) /\ s = (IF q THEN [v EXCEPT !.network = "tcp"] ELSE v)
                        /\ v = VLESSStream(l) /\ q = (l.type = "quic")
  OBVIOUS
<1>2. PICK security, tls, reality :
        /\ security = (IF l.security \in {"tls", "reality"} THEN l.security ELSE "none")
        /\ tls = (IF l.security = "tls" THEN Tls(l, Q(l, "sni"), Q(l, "fp")) ELSE Nil)
        /\ reality = (IF l.security = "reality" THEN Reality(l, Q(l, "sni"), Q(l, "spx")) ELSE Nil)
  OBVIOUS
<1>3. v = Stream(l, VLESSKnown, security, tls, reality, VLESSTransport(l))
  BY <1>1, <1>2, Zenon DEF VLESSStream, VLESSKnown
<1>4. c.stream = s
  <2>1. c = Config("vless", Tag(l), ParsedPort(l, DefaultPort.https), VLESSFields(l), s)
    BY <1>1, Zenon DEF ParseVLESS
  <2>. QED
    BY <2>1, ConfigIs
<1>5. "sni" \in l.given => Q(l, "sni") = "sni"
  BY QIs
<1>6. SecurityShown(l, security, SecurityLeaves(security, tls, reality))
  <2>1. CASE l.security = "tls"
    <3>1. l.given \cap {"alpn"} \subseteq l.given
      OBVIOUS
    <3>2. SecurityShown(l, "tls", SecurityLeaves("tls", Tls(l, Q(l, "sni"), Q(l, "fp")), Nil))
      BY <1>5, <3>1, TlsShown
    <3>3. security = "tls" /\ tls = Tls(l, Q(l, "sni"), Q(l, "fp")) /\ reality = Nil
      BY <1>2, <2>1, Zenon
    <3>. QED
      BY <3>2, <3>3, Zenon
  <2>2. CASE l.security = "reality"
    <3>1. SecurityShown(l, "reality", SecurityLeaves("reality", Nil, Reality(l, Q(l, "sni"), Q(l, "spx"))))
      BY <1>5, RealityShown
    <3>2. security = "reality" /\ tls = Nil /\ reality = Reality(l, Q(l, "sni"), Q(l, "spx"))
      BY <1>2, <2>2, Zenon
    <3>. QED
      BY <3>1, <3>2, Zenon
  <2>3. CASE l.security \notin {"tls", "reality"}
    <3>1. security = "none"
      BY <1>2, <2>3, Zenon
    <3>. QED
      BY <3>1, NoneShown
  <2>. QED
    BY <2>1, <2>2, <2>3, Zenon
<1>7. PICK j, k : j = buildStreamJSON(s) /\ k = buildStreamJSON(v)
  OBVIOUS
<1>8. SecurityShown(l, k.security, k.leaves)
  BY <1>3, <1>6, <1>7, StreamSecurityShown
<1>9. SecurityShown(l, j.security, j.leaves)
  <2>1. CASE q
    <3>1. l.type = "quic" /\ s = [v EXCEPT !.network = "tcp"]
      BY <1>1, <2>1, Zenon
    <3>2. j.leaves = k.leaves /\ j.security = k.security
      BY <1>3, <1>7, <3>1, QuicLeaves
    <3>. QED
      BY <1>8, <3>2, Zenon
  <2>2. CASE ~q
    <3>1. j = k
      BY <1>1, <1>7, <2>2
    <3>. QED
      BY <1>8, <3>1, Zenon
  <2>. QED
    BY <2>1, <2>2, Zenon
<1>10. l.type # "quic" => NetworkShown(l, j.network, j.leaves)
  <2>. SUFFICES ASSUME l.type # "quic" PROVE NetworkShown(l, j.network, j.leaves)
    OBVIOUS
  <2>1. j = k
    BY <1>1, <1>7
  <2>2. PICK A, B, n : /\ A = SecurityLeaves(security, tls, reality) /\ n = NetworkOf(l)
                       /\ B = TransportLeaves(n, VLESSKnown, VLESSTransport(l))
    OBVIOUS
  <2>3. k.network = n /\ k.leaves = A \cup B
    BY <1>3, <1>7, <2>2, StreamLeaves
  <2>4. NetworkShown(l, n, B)
    BY <2>2, VLESSTransportShown
  <2>5. NetworkShown(l, n, A \cup B)
    BY <2>4 DEF NetworkShown, Shows
  <2>. QED
    BY <2>1, <2>3, <2>5, Zenon
<1>11. Kept(l, c)
  BY <1>4, <1>7, <1>9, <1>10, StreamKept
<1>. QED
  BY <1>1, <1>11, Zenon

LEMMA LinkKept ==
  ASSUME NEW l \in NodeSources, l.scheme \in {"vless", "trojan", "vmess"}, ParseLink(l) # ParseError
  PROVE  Kept(l, ParseLink(l))
<1>1. CASE l.scheme = "vmess"
  <2>1. ParseLink(l) = ParseV2RayN(l)
    BY <1>1, Zenon DEF ParseLink
  <2>. QED
    BY <1>1, <2>1, VMessKept, Zenon
<1>2. CASE l.scheme = "trojan"
  <2>1. ParseLink(l) = ParseTrojan(l)
    BY <1>2, Zenon DEF ParseLink
  <2>. QED
    BY <1>2, <2>1, TrojanKept, Zenon
<1>3. CASE l.scheme = "vless"
  <2>1. ParseLink(l) = ParseVLESS(l)
    BY <1>3, Zenon DEF ParseLink
  <2>. QED
    BY <1>3, <2>1, VLESSKept, Zenon
<1>. QED
  BY <1>1, <1>2, <1>3

-----------------------------------------------------------------------------
\* Links and Clash nodes lead to the outbounds they describe.

LinkInv ==
  \/ nodeSource = [scheme |-> "none"] /\ nodeLink = Unparsed /\ nodeClash = Unparsed
  \/ \E l \in NodeSources :
       nodeSource = l /\ nodeLink = Built(ParseLink(l)) /\ nodeClash = Built(parseClashProxy(l))

\* What holds of the node of a ProxyConfig that was made from a source.
BuiltSafe(l, node, c) ==
  /\ node # Unparsed <=> c # ParseError
  /\ node # Unparsed =>
       /\ node.outbound = buildOutboundJSON(c) /\ node.row = proxyConfigToConfig(c)
       /\ SoundConfig(c) /\ (l.scheme # "direct" => KeepsPort(l, node.outbound.port))

LEMMA BuiltIs ==
  ASSUME NEW c
  PROVE  /\ c = ParseError => Built(c) = Unparsed
         /\ c # ParseError =>
              /\ Built(c) # Unparsed
              /\ Built(c).outbound = buildOutboundJSON(c) /\ Built(c).row = proxyConfigToConfig(c)
<1>1. CASE c = ParseError
  BY <1>1, Zenon DEF Built
<1>2. CASE c # ParseError
  <2>1. PICK out, row, node : out = buildOutboundJSON(c) /\ row = proxyConfigToConfig(c) /\ node = Built(c)
    OBVIOUS
  <2>2. node = [config |-> c, outbound |-> out, row |-> row]
    BY <1>2, <2>1, Zenon DEF Built
  <2>3. node.outbound = out /\ node.row = row /\ "row" \in DOMAIN node
    BY <2>2
  <2>4. "row" \notin DOMAIN Unparsed
    BY DEF Unparsed
  <2>5. node # Unparsed
    BY <2>3, <2>4, Zenon
  <2>. QED
    BY <1>2, <2>1, <2>3, <2>5, Zenon
<1>. QED
  BY <1>1, <1>2, Zenon

LEMMA NodesBuilt ==
  ASSUME NEW l \in NodeSources
  PROVE  /\ BuiltSafe(l, Built(ParseLink(l)), ParseLink(l))
         /\ BuiltSafe(l, Built(parseClashProxy(l)), parseClashProxy(l))
         /\ l.scheme # "direct" /\ Built(ParseLink(l)) # Unparsed => Built(ParseLink(l)).outbound.port \in 1 .. MaxPort
<1>1. PICK c, d, a, b : c = ParseLink(l) /\ d = parseClashProxy(l) /\ a = Built(c) /\ b = Built(d)
  OBVIOUS
<1>2. /\ a # Unparsed <=> c # ParseError
      /\ a # Unparsed => a.outbound = buildOutboundJSON(c) /\ a.row = proxyConfigToConfig(c)
  BY <1>1, BuiltIs, Zenon
<1>3. /\ b # Unparsed <=> d # ParseError
      /\ b # Unparsed => b.outbound = buildOutboundJSON(d) /\ b.row = proxyConfigToConfig(d)
  BY <1>1, BuiltIs, Zenon
<1>4. buildOutboundJSON(c).port = c.port /\ buildOutboundJSON(d).port = d.port
  BY OutboundIs
<1>5. a # Unparsed => SoundConfig(c) /\ (l.scheme # "direct" => KeepsPort(l, c.port) /\ c.port \in 0 .. MaxPort /\ c.port # 0)
  BY <1>1, <1>2, LinkParsed, Zenon
<1>6. b # Unparsed => SoundConfig(d) /\ KeepsPort(l, d.port)
  BY <1>1, <1>3, ClashParsed, Zenon
<1>7. BuiltSafe(l, a, c)
  BY <1>2, <1>4, <1>5, Zenon DEF BuiltSafe
<1>8. BuiltSafe(l, b, d)
  BY <1>3, <1>4, <1>6, Zenon DEF BuiltSafe
<1>9. l.scheme # "direct" /\ a # Unparsed => a.outbound.port \in 1 .. MaxPort
  <2>. SUFFICES ASSUME l.scheme # "direct", a # Unparsed PROVE a.outbound.port \in 1 .. MaxPort
    OBVIOUS
  <2>1. a.outbound.port = c.port
    BY <1>2, <1>4, Zenon
  <2>2. c.port \in 0 .. MaxPort /\ c.port # 0
    BY <1>5, Zenon
  <2>3. c.port \in 1 .. MaxPort
    BY <2>2, MaxPortIs
  <2>. QED
    BY <2>1, <2>3, Zenon
<1>. QED
  BY <1>1, <1>7, <1>8, <1>9, Zenon

\* The parts of LinkSafe for what was parsed of a source.
LEMMA SourceSafe ==
  ASSUME NEW l \in NodeSources, nodeSource = l, nodeLink = Built(ParseLink(l)), nodeClash = Built(parseClashProxy(l))
  PROVE  LinkSafe
<1>1. PICK c, d : c = ParseLink(l) /\ d = parseClashProxy(l)
  OBVIOUS
<1>2. BuiltSafe(l, nodeLink, c) /\ BuiltSafe(l, nodeClash, d)
  BY <1>1, NodesBuilt, Zenon
<1>3. \A node \in {nodeLink, nodeClash} \ {Unparsed} : \E e :
        /\ node.outbound = buildOutboundJSON(e) /\ node.row = proxyConfigToConfig(e) /\ SoundConfig(e)
        /\ l.scheme # "direct" => KeepsPort(l, node.outbound.port)
  <2>. SUFFICES ASSUME NEW node \in {nodeLink, nodeClash} \ {Unparsed}
                PROVE  \E e : /\ node.outbound = buildOutboundJSON(e) /\ node.row = proxyConfigToConfig(e) /\ SoundConfig(e)
                              /\ l.scheme # "direct" => KeepsPort(l, node.outbound.port)
    OBVIOUS
  <2>1. node # Unparsed /\ (node = nodeLink \/ node = nodeClash)
    OBVIOUS
  <2>2. \E e : BuiltSafe(l, node, e)
    BY <1>2, <2>1, Zenon
  <2>3. PICK e : BuiltSafe(l, node, e)
    BY <2>2, Zenon
  <2>. QED
    BY <2>1, <2>3, Zenon DEF BuiltSafe
<1>4. OneSecurity
  <2>. SUFFICES ASSUME NEW node \in {nodeLink, nodeClash} \ {Unparsed}, NEW leaf \in node.outbound.leaves
                PROVE  leaf[1] \in {"settings", node.outbound.security, node.outbound.network}
    BY Zenon DEF OneSecurity
  <2>1. PICK e : node.outbound = buildOutboundJSON(e) /\ SoundConfig(e)
    BY <1>3, Zenon
  <2>2. PICK out : out = node.outbound
    OBVIOUS
  <2>3. Own(out.leaves, out.network, out.security)
    BY <2>1, <2>2, SettingsAreOwn
  <2>4. leaf[1] \in {"settings", out.network, out.security}
    BY <2>2, <2>3, Zenon DEF Own
  <2>. QED
    BY <2>2, <2>4
<1>5. RowTellsOutbound
  <2>. SUFFICES ASSUME NEW node \in {nodeLink, nodeClash} \ {Unparsed}
                PROVE  /\ node.row.remarks # ""
                       /\ node.row.sni # "" => node.row.sni \in Values(node.outbound)
                       /\ node.row.password # "" => node.row.password \in Values(node.outbound)
    BY Zenon DEF RowTellsOutbound
  <2>1. PICK e : node.outbound = buildOutboundJSON(e) /\ node.row = proxyConfigToConfig(e) /\ SoundConfig(e)
    BY <1>3, Zenon
  <2>2. RowTold(e)
    BY <2>1, RowIsTold
  <2>. QED
    BY <2>1, <2>2, Zenon DEF RowTold
<1>6. PortKept
  <2>. SUFFICES ASSUME NEW node \in {nodeLink, nodeClash} \ {Unparsed}, nodeSource.scheme # "direct"
                PROVE  /\ nodeSource.port \in 1 .. MaxPort => node.outbound.port = nodeSource.port
                       /\ node = nodeLink => node.outbound.port \in 1 .. MaxPort
    BY Zenon DEF PortKept
  <2>1. KeepsPort(l, node.outbound.port)
    BY <1>3, Zenon
  <2>2. node = nodeLink => node.outbound.port \in 1 .. MaxPort
    BY NodesBuilt
  <2>. QED
    BY <2>1, <2>2, Zenon DEF KeepsPort
<1>7. NothingLost
  <2>. SUFFICES ASSUME l.scheme \in {"vless", "trojan", "vmess"}, nodeLink # Unparsed
                PROVE  l.given \cap Wanted(l, nodeLink.outbound) \subseteq Values(nodeLink.outbound)
    BY Zenon DEF NothingLost, Wanted
  <2>1. c # ParseError /\ nodeLink.outbound = buildOutboundJSON(c)
    BY <1>2, Zenon DEF BuiltSafe
  <2>2. Kept(l, c)
    BY <1>1, <2>1, LinkKept, Zenon
  <2>. QED
    BY <2>1, <2>2, Zenon DEF Kept
<1>8. ClashAlike
  <2>. SUFFICES ASSUME nodeLink # Unparsed, nodeClash # Unparsed, NEW a, NEW b, a = nodeLink.outbound, b = nodeClash.outbound
                PROVE  /\ a.protocol = b.protocol
                       /\ {leaf[3] : leaf \in (a.leaves \ b.leaves) \cup (b.leaves \ a.leaves)} \subseteq ClashGaps(l)
    BY Zenon DEF ClashAlike
  <2>1. /\ c # ParseError /\ a = buildOutboundJSON(c)
        /\ d # ParseError /\ b = buildOutboundJSON(d)
    BY <1>2, Zenon DEF BuiltSafe
  <2>2. ConfigsAlike(c, d, ClashGaps(l))
    BY <1>1, <2>1, NodesAlike, Zenon
  <2>3. a.protocol = b.protocol /\ AlikeBut(a.leaves, b.leaves, ClashGaps(l))
    BY <2>1, <2>2, Zenon DEF ConfigsAlike
  <2>4. PICK A, B, G : A = a.leaves /\ B = b.leaves /\ G = ClashGaps(l)
    OBVIOUS
  <2>5. {leaf[3] : leaf \in (A \ B) \cup (B \ A)} \subseteq G
    BY <2>3, <2>4 DEF AlikeBut, Within
  <2>. QED
    BY <2>3, <2>4, <2>5, Zenon
<1>. QED
  BY <1>4, <1>5, <1>6, <1>7, <1>8, Zenon DEF LinkSafe

LEMMA NoneSafe ==
  ASSUME nodeSource = [scheme |-> "none"], nodeLink = Unparsed, nodeClash = Unparsed
  PROVE  LinkSafe
<1>1. {nodeLink, nodeClash} \ {Unparsed} = {}
  OBVIOUS
<1>2. OneSecurity /\ RowTellsOutbound /\ PortKept
  BY <1>1, Zenon DEF OneSecurity, RowTellsOutbound, PortKept
<1>3. NothingLost
  BY Zenon DEF NothingLost
<1>4. ClashAlike
  BY Zenon DEF ClashAlike
<1>. QED
  BY <1>2, <1>3, <1>4 DEF LinkSafe

\* The outbound that is dialed keeps what the link says, has settings of its
\* own security and network only, is told by its row, keeps a port of 16 bits
\* and differs from that of the Clash node of the same parameters in the named
\* gaps only (internal/parser, internal/xray/config.go), for every node.
THEOREM LinksAreSafe == LinkSpec => []LinkSafe
<1>1. LinkInit => LinkInv
  BY Zenon DEF LinkInit, LinkInv
<1>2. LinkInv /\ [LinkNext]_linkVars => LinkInv'
  <2>1. ASSUME LinkInv, LinkNext PROVE LinkInv'
    <3>1. PICK l \in NodeSources : LinkParse(l)
      BY <2>1, Zenon DEF LinkNext
    <3>2. nodeSource' = l /\ nodeLink' = Built(ParseLink(l)) /\ nodeClash' = Built(parseClashProxy(l))
      BY <3>1, Zenon DEF LinkParse
    <3>. QED
      BY <3>2, Zenon DEF LinkInv
  <2>2. ASSUME LinkInv, UNCHANGED linkVars PROVE LinkInv'
    BY <2>2, Zenon DEF LinkInv, linkVars
  <2>. QED
    BY <2>1, <2>2
<1>3. LinkInv => LinkSafe
  <2>1. ASSUME nodeSource = [scheme |-> "none"] /\ nodeLink = Unparsed /\ nodeClash = Unparsed PROVE LinkSafe
    BY <2>1, NoneSafe
  <2>2. ASSUME NEW l \in NodeSources,
               nodeSource = l /\ nodeLink = Built(ParseLink(l)) /\ nodeClash = Built(parseClashProxy(l))
        PROVE  LinkSafe
    BY <2>2, SourceSafe, Zenon
  <2>. QED
    BY <2>1, <2>2, Zenon DEF LinkInv
<1>. QED
  BY <1>1, <1>2, <1>3, PTL DEF LinkSpec
=============================================================================
