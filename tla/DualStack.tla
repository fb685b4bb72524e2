----------------------------- MODULE DualStack -----------------------------
(***************************************************************************)
(* transport/dialer: DialContext over one address family, or over both at  *)
(* once (dualStackDialContext), with the lookups of transport/resolver.    *)
(*                                                                         *)
(* Each racer resolves the host in its family, dials, and hands its result *)
(* to the caller over a channel without a buffer, or closes its connection *)
(* when the caller has returned.  The caller takes the first connection,   *)
(* or the errors of both.  The socket options that Dialer registers do not *)
(* change an outcome (their errors are logged) and are left out.           *)
(***************************************************************************)
EXTENDS Naturals, FiniteSets

Families == {"v4", "v6"}
DialNetworks == {"dual", "v4", "v6", "invalid"} \* tcp, tcp4, tcp6 (or udp), anything else
DialHosts == {"name", "literal4", "literal6", "noport"}
NoConn == "none"

VARIABLES
  dialNet, dialHost, \* arguments of the call
  dialPc,      \* the caller: "idle", "single", "waiting", "returned"
  dialRet,     \* what it returned: a family's connection, or an error
  dialSeen,    \* primary and fallback: the results received, by family
  racerPc,     \* each racer: "off", "resolve", "dial", "handover", "ended"
  racerResult, \* each racer's dialResult
  open         \* connections that are open

dialVars == <<dialNet, dialHost, dialPc, dialRet, dialSeen, racerPc, racerResult, open>>

NoResult == [conn |-> FALSE, error |-> "none", resolved |-> FALSE, done |-> FALSE]
Fresh == [NoResult EXCEPT !.done = TRUE]

DialInit ==
  /\ dialNet = "dual" /\ dialHost = "name"
  /\ dialPc = "idle"
  /\ dialRet = [conn |-> NoConn, error |-> "none"]
  /\ dialSeen = [f \in Families |-> NoResult]
  /\ racerPc = [f \in Families |-> "off"]
  /\ racerResult = [f \in Families |-> Fresh]
  /\ open = {}

\* resolver.ResolveIPv4 and ResolveIPv6: a literal belongs to the family that
\* its colons tell, a name has an address of the family or not.
Lookup(host, f) ==
  CASE host = "literal4" -> IF f = "v4" THEN {"none"} ELSE {"version"}
    [] host = "literal6" -> IF f = "v6" THEN {"none"} ELSE {"version"}
    [] OTHER -> {"none", "notfound"}

-----------------------------------------------------------------------------
\* DialContext up to the first wait.

DialReturn(conn, error) ==
  /\ dialPc' = "returned"
  /\ dialRet' = [conn |-> conn, error |-> error]

DialCall(net, host) ==
  /\ dialPc = "idle"
  /\ dialNet' = net /\ dialHost' = host
  /\ \/ /\ net = "invalid" \/ host = "noport"
        /\ DialReturn(NoConn, "address")
        /\ UNCHANGED racerPc
     \/ /\ net \in Families /\ host # "noport"
        /\ dialPc' = "single"
        /\ UNCHANGED <<dialRet, racerPc>>
     \/ /\ net = "dual" /\ host # "noport"
        /\ dialPc' = "waiting"
        /\ racerPc' = [f \in Families |-> "resolve"]
        /\ UNCHANGED dialRet
  /\ UNCHANGED <<dialSeen, racerResult, open>>

\* tcp4, tcp6: resolve in the family and dial, with nobody to race.
DialSingle ==
  /\ dialPc = "single"
  /\ \E e \in Lookup(dialHost, dialNet) :
       \/ e # "none" /\ DialReturn(NoConn, e) /\ UNCHANGED open
       \/ e = "none" /\ DialReturn(NoConn, "dial") /\ UNCHANGED open
       \/ e = "none" /\ DialReturn(dialNet, "none") /\ open' = open \cup {dialNet}
  /\ UNCHANGED <<dialNet, dialHost, dialSeen, racerPc, racerResult>>

-----------------------------------------------------------------------------
\* A racer.

RacerResolve(f) ==
  /\ racerPc[f] = "resolve"
  /\ \E e \in Lookup(dialHost, f) :
       /\ racerResult' = [racerResult EXCEPT ![f].error = e, ![f].resolved = (e = "none")]
       /\ racerPc' = [racerPc EXCEPT ![f] = IF e = "none" THEN "dial" ELSE "handover"]
  /\ UNCHANGED <<dialNet, dialHost, dialPc, dialRet, dialSeen, open>>

\* The dial connects, or fails, or is cut off by the context or its timeout.
RacerDial(f) ==
  /\ racerPc[f] = "dial"
  /\ \/ /\ racerResult' = [racerResult EXCEPT ![f].conn = TRUE]
        /\ open' = open \cup {f}
     \/ /\ racerResult' = [racerResult EXCEPT ![f].error = "dial"]
        /\ UNCHANGED open
  /\ racerPc' = [racerPc EXCEPT ![f] = "handover"]
  /\ UNCHANGED <<dialNet, dialHost, dialPc, dialRet, dialSeen>>

\* Both failed: the error of a family that had an address, v4 before v6.
ErrorOf(seen) ==
  IF ~seen["v4"].resolved /\ seen["v6"].resolved THEN seen["v6"].error ELSE seen["v4"].error

\* results <- result meets the caller's range over results.
RacerHandover(f) ==
  /\ racerPc[f] = "handover" /\ dialPc = "waiting"
  /\ racerPc' = [racerPc EXCEPT ![f] = "ended"]
  /\ IF racerResult[f].error = "none"
     THEN DialReturn(f, "none") /\ UNCHANGED dialSeen
     ELSE /\ dialSeen' = [dialSeen EXCEPT ![f] = racerResult[f]]
          /\ IF \A g \in Families : dialSeen'[g].done
             THEN DialReturn(NoConn, ErrorOf(dialSeen'))
             ELSE UNCHANGED <<dialPc, dialRet>>
  /\ UNCHANGED <<dialNet, dialHost, racerResult, open>>

\* As RacerDiscard, leaving the connection as it is.
RacerForgets(f) ==
  /\ racerPc[f] = "handover" /\ dialPc = "returned"
  /\ racerPc' = [racerPc EXCEPT ![f] = "ended"]
  /\ UNCHANGED <<dialNet, dialHost, dialPc, dialRet, dialSeen, racerResult, open>>

\* The caller has returned (returned is closed): nobody takes the result.
RacerDiscard(f) ==
  /\ racerPc[f] = "handover" /\ dialPc = "returned"
  /\ racerPc' = [racerPc EXCEPT ![f] = "ended"]
  /\ open' = open \ {f}
  /\ UNCHANGED <<dialNet, dialHost, dialPc, dialRet, dialSeen, racerResult>>

Racer(f) == RacerResolve(f) \/ RacerDial(f) \/ RacerHandover(f) \/ RacerDiscard(f)

DialNext ==
  \/ \E net \in DialNetworks, host \in DialHosts : DialCall(net, host)
  \/ DialSingle
  \/ \E f \in Families : Racer(f)

\* Lookups and dials end, because net.Dialer has a timeout of 5 seconds, and
\* whoever can go on does (which of them first is left open: none runs forever).
DialFairness == WF_dialVars(DialSingle \/ \E f \in Families : Racer(f))

DialSpec == DialInit /\ [][DialNext]_dialVars /\ DialFairness

-----------------------------------------------------------------------------

Result == [conn : BOOLEAN, error : {"none", "version", "notfound", "dial"},
           resolved : BOOLEAN, done : BOOLEAN]

\* Every variable keeps its type.
DialTypeOK ==
  /\ dialNet \in DialNetworks /\ dialHost \in DialHosts
  /\ dialPc \in {"idle", "single", "waiting", "returned"}
  /\ dialRet \in [conn : Families \cup {NoConn},
                  error : {"none", "version", "notfound", "dial", "address"}]
  /\ dialSeen \in [Families -> Result]
  /\ racerPc \in [Families -> {"off", "resolve", "dial", "handover", "ended"}]
  /\ racerResult \in [Families -> Result]
  /\ open \subseteq Families

\* A connection is open only while its racer still holds it or because the
\* caller got it: the loser of the race closes what nobody will use.
NoConnLeaks ==
  \A f \in open : \/ dialPc = "returned" /\ dialRet.conn = f
                  \/ racerPc[f] = "handover" /\ racerResult[f].conn

\* The caller is told of a failure only when neither family connected: a
\* failure of v4 does not hide a v6 that connects later.
FailsOnlyIfBothFail ==
  dialPc = "returned" /\ dialRet.conn = NoConn /\ dialNet = "dual" /\ dialHost # "noport" =>
    \A f \in Families : racerPc[f] = "ended" /\ ~racerResult[f].conn

\* A connection the caller was given is open: no racer closes the winner.
WinnerStaysOpen == dialPc = "returned" /\ dialRet.conn # NoConn => dialRet.conn \in open

\* The error reported is about the dial if any family had an address at all.
ErrorTellsMost ==
  dialPc = "returned" /\ dialNet = "dual" /\ dialRet.error \in {"version", "notfound"} =>
    \A f \in Families : ~racerResult[f].resolved

\* The dual dial loses no connection, gives away no closed one, and fails only
\* with the error of a family that could be tried.
DialSafe == NoConnLeaks /\ FailsOnlyIfBothFail /\ WinnerStaysOpen /\ ErrorTellsMost

\* What makes it so: what a racer's result may be at each of its steps, and
\* what the caller has seen at each of its own.
RacerOK(f) ==
  /\ racerResult[f].done
  /\ racerPc[f] \in {"off", "resolve"} =>
       ~racerResult[f].conn /\ ~racerResult[f].resolved /\ racerResult[f].error = "none"
  /\ racerPc[f] = "dial" =>
       ~racerResult[f].conn /\ racerResult[f].resolved /\ racerResult[f].error = "none"
  /\ racerPc[f] \in {"handover", "ended"} =>
       /\ racerResult[f].conn <=> racerResult[f].error = "none"
       /\ racerResult[f].resolved <=> racerResult[f].error \in {"none", "dial"}
  /\ racerPc[f] = "handover" /\ racerResult[f].conn => f \in open

\* The caller has not started a racer.
Alone == \A f \in Families : racerPc[f] = "off"

Racing == dialNet = "dual" /\ dialHost # "noport" /\ \A f \in Families : racerPc[f] # "off"

CallOK ==
  /\ dialPc \in {"idle", "single"} => Alone /\ open = {}
  /\ dialPc # "returned" => \A f \in Families : dialSeen[f].done => racerPc[f] = "ended"
  /\ dialPc = "single" => dialNet \in Families
  /\ dialPc = "waiting" =>
       /\ Racing
       /\ \A f \in Families : racerPc[f] = "ended" =>
            dialSeen[f] = racerResult[f] /\ ~racerResult[f].conn
  /\ dialPc = "returned" =>
       \/ Alone
       \/ /\ Racing
          /\ dialRet.conn # NoConn => racerPc[dialRet.conn] = "ended" /\ dialRet.error = "none"

DialInv == DialTypeOK /\ DialSafe /\ CallOK /\ \A f \in Families : RacerOK(f)

\* The call has returned and both racers have ended, with or without a taker.
DialAtRest ==
  dialPc \in {"idle", "returned"} /\ \A f \in Families : racerPc[f] \in {"off", "ended"}
=============================================================================
