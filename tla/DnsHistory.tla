----------------------------- MODULE DnsHistory -----------------------------
(***************************************************************************)
(* Module Dns with what it forgets: what was said of each question, and    *)
(* what was in the cache when a call began.  With these it implements      *)
(* module Resolver.                                                        *)
(***************************************************************************)
EXTENDS Dns

VARIABLES
  heard, \* question -> the messages its exchanges came to, "error" for none
  knew   \* caller -> the questions that were in the cache when it called

historyVars == <<dnsVars, heard, knew>>

InCache == {q \in Questions : cached[q].hit}

\* What the groups of an exchange have come to.
Posts(q) == {batch[q][g].won : g \in {h \in Groups : Posted(batch[q][h])}}

HistoryInit == DnsInit /\ heard = [q \in Questions |-> {}] /\ knew = [c \in DnsCallers |-> {}]

Remember ==
  /\ heard' = [q \in Questions |-> heard[q] \cup Posts(q)']
  /\ knew' = [c \in DnsCallers |->
       IF dnsCall[c].pc = "idle" /\ dnsCall'[c].pc # "idle" THEN InCache ELSE knew[c]]

HistoryNext == DnsNext /\ Remember

HistorySpec == HistoryInit /\ [][HistoryNext]_historyVars

-----------------------------------------------------------------------------

\* The resolver does what module Resolver promises, whatever servers fail or
\* are late, whoever shares an exchange, and however old the cache is.
resolverCall ==
  [c \in DnsCallers |->
     [pc |-> dnsCall[c].pc, kind |-> dnsCall[c].kind, host |-> dnsCall[c].host,
      knew |-> knew[c], result |-> dnsCall[c].result]]
Promised == INSTANCE Resolver WITH
  Callers <- DnsCallers, CallsOf <- DnsCalls, said <- heard, known <- InCache, call <- resolverCall
ResolvesAsPromised == Promised!Spec

\* Why: what a group came to was heard while it stands in the batch, what is
\* cached or handed to an asker was heard, and an asker of a question that was
\* known when its call began never leaves the cache.
HeardTypeOK ==
  /\ heard \in [Questions -> SUBSET (Answers \cup {NoAnswer})]
  /\ knew \in [DnsCallers -> SUBSET Questions]
PostsHeard == \A q \in Questions : Posts(q) \subseteq heard[q]
CacheHeard == \A q \in InCache : cached[q].msg \in heard[q] \cap {"addr", "none"}
KnewStays == \A c \in DnsCallers : knew[c] \subseteq InCache
LiteralsAlone ==
  \A c \in DnsCallers, q \in Questions :
    dnsCall[c].pc # "idle" /\ dnsCall[c].host # "name" =>
      asker[<<c, q>>].pc = "off" \/ asker[<<c, q>>] = Got(Literal(dnsCall[c].host, q))
NamesHeard ==
  \A c \in DnsCallers, q \in Questions : LET a == asker[<<c, q>>] IN
    dnsCall[c].pc # "idle" /\ dnsCall[c].host = "name" =>
      /\ a.pc = "done" => a.msg \in heard[q]
      /\ q \in knew[c] => a.pc \notin {"fetch", "waiting"} /\ (a.pc = "done" => a.msg \in {"addr", "none"})
HistoryInv ==
  /\ HeardTypeOK /\ PostsHeard /\ CacheHeard /\ KnewStays /\ LiteralsAlone /\ NamesHeard
  /\ \A c \in DnsCallers : dnsCall[c].pc = "idle" => knew[c] = {}
=============================================================================
