-------------------------------- MODULE Dns --------------------------------
(***************************************************************************)
(* package dns with common/picker: a resolver that asks its name servers   *)
(* at once, takes the first answer, falls back to other servers, shares    *)
(* one exchange among all who ask the same question, and answers from a    *)
(* cache even when the cached answer is old, while it fetches a new one.   *)
(*                                                                         *)
(* One host is resolved, so that a question is a record type, and the      *)
(* cache (4096 entries, stale answers returned) is a function of it.  An   *)
(* answer has addresses, has none (but names an authority), or is blank.   *)
(* Its TTL is abstract: a cached message is fresh until it becomes old.    *)
(***************************************************************************)
EXTENDS Naturals, FiniteSets

CONSTANTS
  DnsCallers, DnsCalls, \* DnsCalls: what each caller may call
  DnsConfigs \* Config: the name servers of Main and of Fallback (may be empty)

ASSUME DnsAssumption ==
  /\ DnsCalls \in [DnsCallers -> SUBSET ([kind : {"A", "AAAA", "IP"}, host : {"name", "literal4", "literal6"}])]
  /\ \A config \in DnsConfigs : DOMAIN config = {"main", "fallback"} /\ config["main"] # {}

Questions == {"A", "AAAA"}
Groups == {"main", "fallback"}
DnsHosts == {"name", "literal4", "literal6"}
\* ResolveIPv4, ResolveIPv6, ResolveIP of a host
Calls == [kind : {"A", "AAAA", "IP"}, host : DnsHosts]
Answers == {"addr", "none", "blank"}
NoAnswer == "error"
NameServers == UNION {config[g] : config \in DnsConfigs, g \in Groups}
Askers == DnsCallers \X Questions           \* the goroutines that run resolveIP

VARIABLES
  servers,    \* main and fallback of the Resolver
  dnsCall,    \* each caller: its call, its host and what it returned
  asker,      \* each asker: where it is and the message it got
  cached,     \* the cached message of a question, and whether it is old
  refreshing, \* questions with a background fetch that has not joined yet
  flight,     \* questions with an exchange in progress, and who waits for it
  batch       \* the picker of each exchange and group

dnsVars == <<servers, dnsCall, asker, cached, refreshing, flight, batch>>

NoCall == [pc |-> "idle", kind |-> "A", host |-> "name", result |-> "none"]
AskerOff == [pc |-> "off", msg |-> NoAnswer]
NotCached == [hit |-> FALSE, msg |-> NoAnswer, old |-> FALSE]
BatchOff == [pc |-> "off", asked |-> {}, failed |-> {}, won |-> NoAnswer, timeout |-> FALSE]

DnsInit ==
  /\ servers \in DnsConfigs
  /\ dnsCall = [c \in DnsCallers |-> NoCall]
  /\ asker = [a \in Askers |-> AskerOff]
  /\ cached = [q \in Questions |-> NotCached]
  /\ refreshing = {}
  /\ flight = [q \in Questions |-> [on |-> FALSE, waiters |-> {}]]
  /\ batch = [q \in Questions |-> [g \in Groups |-> BatchOff]]

\* The expiry of a cached message passes.
DnsExpire(q) ==
  /\ cached[q].hit /\ ~cached[q].old
  /\ cached' = [cached EXCEPT ![q].old = TRUE]
  /\ UNCHANGED <<servers, dnsCall, asker, refreshing, flight, batch>>

-----------------------------------------------------------------------------
\* resolveIP in an asker.

\* What resolveIP makes of a message: one of its addresses, or an error.
Outcome(msg) == CASE msg = "addr" -> "ip" [] msg = "error" -> "error" [] OTHER -> "notfound"
Got(msg) == [pc |-> "done", msg |-> msg]

\* A literal needs no exchange: it is an address of its family, or an error.
Literal(host, q) ==
  IF (host = "literal4") = (q = "A") THEN "addr" ELSE NoAnswer

\* ResolveIPv4 and ResolveIPv6 run one resolveIP, ResolveIP runs two at once.
DnsResolve(c, kind, host) ==
  /\ dnsCall[c].pc = "idle"
  /\ dnsCall' = [dnsCall EXCEPT ![c] = [pc |-> "waiting", kind |-> kind, host |-> host, result |-> "none"]]
  /\ asker' = [a \in Askers |->
       IF a[1] # c \/ kind \notin {"IP", a[2]} THEN asker[a]
       ELSE IF host = "name" THEN [asker[a] EXCEPT !.pc = "lookup"]
       ELSE Got(Literal(host, a[2]))]
  /\ UNCHANGED <<servers, cached, refreshing, flight, batch>>

\* Exchange: answer from the cache, fetch an old answer anew, or fetch.
DnsExchange(a) ==
  /\ asker[a].pc = "lookup"
  /\ LET q == a[2] IN
     \/ /\ cached[q].hit
        /\ asker' = [asker EXCEPT ![a] = Got(cached[q].msg)]
        /\ refreshing' = IF cached[q].old THEN refreshing \cup {q} ELSE refreshing
     \/ /\ ~cached[q].hit
        /\ asker' = [asker EXCEPT ![a].pc = "fetch"]
        /\ UNCHANGED refreshing
  /\ UNCHANGED <<servers, dnsCall, cached, flight, batch>>

-----------------------------------------------------------------------------
\* exchangeWithoutCache: group.Do joins the exchange of q or starts it, with
\* a picker for the main servers and one for the fallback servers.

Join(q, waiters) ==
  /\ flight' = [flight EXCEPT ![q] = [on |-> TRUE, waiters |-> @.waiters \cup waiters]]
  /\ batch' = IF flight[q].on THEN batch
              ELSE [batch EXCEPT ![q] = [g \in Groups |->
                      IF servers[g] = {} THEN BatchOff ELSE [BatchOff EXCEPT !.pc = "on", !.asked = servers[g]]]]

DnsFetch(a) ==
  /\ asker[a].pc = "fetch"
  /\ asker' = [asker EXCEPT ![a].pc = "waiting"]
  /\ Join(a[2], {a})
  /\ UNCHANGED <<servers, dnsCall, cached, refreshing>>

DnsRefresh(q) ==
  /\ q \in refreshing
  /\ refreshing' = refreshing \ {q}
  /\ Join(q, {})
  /\ UNCHANGED <<servers, dnsCall, asker, cached>>

\* The picker: the first message wins and cancels the others' context.
PickerTakes(b, s, msg) ==
  [b EXCEPT !.asked = @ \ {s}, !.won = IF b.won = NoAnswer THEN msg ELSE @]

\* As PickerFails, ending the batch with the first error.
FailsWithFirst(b, s) == [b EXCEPT !.asked = {}, !.failed = @ \cup {s}]

PickerFails(b, s) == [b EXCEPT !.asked = @ \ {s}, !.failed = @ \cup {s}]

\* client.ExchangeContext: an answer, or an error (a failed exchange, SERVFAIL,
\* REFUSED).
ServerAnswers(q, g, s) ==
  /\ s \in batch[q][g].asked
  /\ \/ \E msg \in Answers : batch' = [batch EXCEPT ![q][g] = PickerTakes(@, s, msg)]
     \/ batch' = [batch EXCEPT ![q][g] = PickerFails(@, s)]
  /\ UNCHANGED <<servers, dnsCall, asker, cached, refreshing, flight>>

\* The context ends, by a winner or after 5 seconds, and every client returns.
PickerEnds(b) == [b EXCEPT !.asked = {}, !.timeout = (b.won = NoAnswer)]

PickerDone(q, g) ==
  /\ batch[q][g].asked # {}
  /\ batch' = [batch EXCEPT ![q][g] = PickerEnds(@)]
  /\ UNCHANGED <<servers, dnsCall, asker, cached, refreshing, flight>>

\* Wait has returned: every server of the group is done.
Posted(b) == b.pc = "on" /\ b.asked = {}

\* ipExchange: the main servers' message if it has an address or nothing else
\* was asked, otherwise what the fallback servers said.
FlightResult(q) ==
  IF servers["fallback"] = {} \/ batch[q]["main"].won = "addr" THEN batch[q]["main"].won
  ELSE batch[q]["fallback"].won

\* As Put, for every message.
PutAll(entry, msg) == [hit |-> TRUE, msg |-> msg, old |-> FALSE]

\* putMsgToCache, for a message that has any record to take a TTL from.
Put(entry, msg) ==
  IF msg \in {"addr", "none"} THEN [hit |-> TRUE, msg |-> msg, old |-> FALSE] ELSE entry

FlightEnd(q) ==
  /\ flight[q].on /\ Posted(batch[q]["main"])
  /\ servers["fallback"] = {} \/ batch[q]["main"].won = "addr" \/ Posted(batch[q]["fallback"])
  /\ LET msg == FlightResult(q) IN
     /\ cached' = [cached EXCEPT ![q] = Put(@, msg)]
     /\ asker' = [a \in Askers |-> IF a \in flight[q].waiters THEN Got(msg) ELSE asker[a]]
  /\ flight' = [flight EXCEPT ![q] = [on |-> FALSE, waiters |-> {}]]
  /\ batch' = [batch EXCEPT ![q] = [g \in Groups |-> BatchOff]]
  /\ UNCHANGED <<servers, dnsCall, refreshing>>

-----------------------------------------------------------------------------

\* ResolveIP returns the A address, or else what AAAA gave.
DnsReturn(c) ==
  /\ dnsCall[c].pc = "waiting"
  /\ LET call == dnsCall[c]
         first == <<c, IF call.kind = "IP" THEN "A" ELSE call.kind>>
         second == <<c, "AAAA">>
         ends(r) == dnsCall' = [dnsCall EXCEPT ![c].pc = "returned", ![c].result = r]
     IN  /\ asker[first].pc = "done"
         /\ \/ /\ call.kind # "IP" \/ Outcome(asker[first].msg) = "ip"
               /\ ends(Outcome(asker[first].msg))
            \/ /\ call.kind = "IP" /\ Outcome(asker[first].msg) # "ip" /\ asker[second].pc = "done"
               /\ ends(IF Outcome(asker[second].msg) = "ip" THEN "ip" ELSE "notfound")
  /\ UNCHANGED <<servers, asker, cached, refreshing, flight, batch>>

DnsNext ==
  \/ \E c \in DnsCallers : \E call \in DnsCalls[c] : DnsResolve(c, call.kind, call.host)
  \/ \E a \in Askers : DnsExchange(a) \/ DnsFetch(a)
  \/ \E q \in Questions :
       \/ DnsExpire(q) \/ DnsRefresh(q) \/ FlightEnd(q)
       \/ \E g \in Groups : PickerDone(q, g) \/ \E s \in servers[g] : ServerAnswers(q, g, s)
  \/ \E c \in DnsCallers : DnsReturn(c)

\* Goroutines run, the context ends after 5 seconds and with it every exchange.
\* No server has to answer, no answer has to expire.
DnsRuns ==
  \/ \E a \in Askers : DnsExchange(a) \/ DnsFetch(a)
  \/ \E q \in Questions : DnsRefresh(q) \/ FlightEnd(q) \/ \E g \in Groups : PickerDone(q, g)
  \/ \E c \in DnsCallers : DnsReturn(c)

DnsFairness == WF_dnsVars(DnsRuns)

DnsSpec == DnsInit /\ [][DnsNext]_dnsVars /\ DnsFairness

-----------------------------------------------------------------------------

\* One server's failure hides no other server's answer: a group has no message
\* only when all its servers failed or its time was over.
FailsOnlyIfAllFail ==
  \A q \in Questions, g \in Groups : LET b == batch[q][g] IN
    Posted(b) /\ b.won = NoAnswer => b.timeout \/ b.failed = servers[g]

\* Whoever waits, waits for an exchange that is under way.
NobodyForgotten == \A a \in Askers : asker[a].pc = "waiting" => flight[a[2]].on /\ a \in flight[a[2]].waiters

\* ResolveIP fails only when neither type has an address.
EitherFamilyWill ==
  \A c \in DnsCallers : dnsCall[c].kind = "IP" /\ dnsCall[c].result \in {"error", "notfound"} =>
    \A q \in Questions : asker[<<c, q>>].pc = "done" /\ Outcome(asker[<<c, q>>].msg) # "ip"

DnsSafe == FailsOnlyIfAllFail /\ NobodyForgotten /\ EitherFamilyWill

\* What makes them so: a group without a message still asks the servers that
\* have not failed, and the askers that wait are those of the exchange.
DnsTypeOK ==
  /\ servers \in DnsConfigs
  /\ dnsCall \in [DnsCallers -> [pc : {"idle", "waiting", "returned"}, kind : {"A", "AAAA", "IP"},
                                 host : DnsHosts, result : {"none", "ip", "error", "notfound"}]]
  /\ asker \in [Askers -> [pc : {"off", "lookup", "fetch", "waiting", "done"}, msg : Answers \cup {NoAnswer}]]
  /\ cached \in [Questions -> [hit : BOOLEAN, msg : Answers \cup {NoAnswer}, old : BOOLEAN]]
  /\ refreshing \subseteq Questions
  /\ flight \in [Questions -> [on : BOOLEAN, waiters : SUBSET Askers]]
  /\ batch \in [Questions -> [Groups ->
       [pc : {"off", "on"}, asked : SUBSET NameServers, failed : SUBSET NameServers,
        won : Answers \cup {NoAnswer}, timeout : BOOLEAN]]]

StillAsked ==
  \A q \in Questions, g \in Groups : LET b == batch[q][g] IN
    b.pc = "on" /\ b.won = NoAnswer /\ ~b.timeout => b.asked \cup b.failed = servers[g]

WaitersWait ==
  /\ \A q \in Questions, a \in Askers :
       a \in flight[q].waiters <=> asker[a].pc = "waiting" /\ a[2] = q
  /\ \A q \in Questions : flight[q].waiters # {} => flight[q].on

OneCallEach ==
  \A c \in DnsCallers :
    /\ dnsCall[c].pc = "idle" => \A q \in Questions : asker[<<c, q>>].pc = "off"
    /\ dnsCall[c].pc # "returned" => dnsCall[c].result = "none"

DnsInv == DnsTypeOK /\ StillAsked /\ WaitersWait /\ OneCallEach /\ EitherFamilyWill

\* Every call has returned, and every old answer that was handed out has been
\* fetched anew.
DnsAtRest ==
  /\ \A c \in DnsCallers : dnsCall[c].pc # "waiting"
  /\ \A q \in Questions : q \notin refreshing /\ ~flight[q].on
=============================================================================
