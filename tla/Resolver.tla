------------------------------ MODULE Resolver ------------------------------
(***************************************************************************)
(* What a resolver promises its callers, without servers, caches, shared   *)
(* exchanges and races: a call comes to what was said of its questions,    *)
(* where "error" is said when nobody answered; a literal is looked up      *)
(* nowhere; and once an answer to a question is known, no call that begins *)
(* from then on fails for want of one.                                     *)
(***************************************************************************)
EXTENDS Naturals

CONSTANTS Callers, CallsOf \* CallsOf: what each caller may call

Questions == {"A", "AAAA"}
Messages == {"addr", "none", "blank", "error"}
Lasting == {"addr", "none"} \* messages that are known from then on

VARIABLES
  said,  \* question -> what was ever said of it
  known, \* the questions with an answer that lasts
  call   \* caller -> its call, what was known when it began, and its result

vars == <<said, known, call>>

NoCall == [pc |-> "idle", kind |-> "A", host |-> "name", knew |-> {}, result |-> "none"]

Init ==
  /\ said = [q \in Questions |-> {}]
  /\ known = {}
  /\ call = [c \in Callers |-> NoCall]

Say(q, msg) ==
  /\ said' = [said EXCEPT ![q] = @ \cup {msg}]
  /\ UNCHANGED <<known, call>>

Learn(q) ==
  /\ said[q] \cap Lasting # {}
  /\ known' = known \cup {q}
  /\ UNCHANGED <<said, call>>

Begin(c, kind, host) ==
  /\ call[c].pc = "idle"
  /\ call' = [call EXCEPT ![c] =
       [pc |-> "waiting", kind |-> kind, host |-> host, knew |-> known, result |-> "none"]]
  /\ UNCHANGED <<said, known>>

\* What a question of a call may come to: a literal is an address of one family.
Literal(host, q) == IF (host = "literal4") = (q = "A") THEN "addr" ELSE "error"
Replies(c, q) ==
  IF call[c].host # "name" THEN {Literal(call[c].host, q)}
  ELSE IF q \in call[c].knew THEN said[q] \cap Lasting ELSE said[q]

Outcome(msg) == CASE msg = "addr" -> "ip" [] msg = "error" -> "error" [] OTHER -> "notfound"

\* Of both families, the A address comes first; none is found only when
\* neither has one.
EitherOf(a, aaaa) == IF "addr" \in {a, aaaa} THEN "ip" ELSE "notfound"
Results(c) ==
  IF call[c].kind = "IP"
  THEN {EitherOf(a, aaaa) : a \in Replies(c, "A"), aaaa \in Replies(c, "AAAA")}
         \cup (IF "addr" \in Replies(c, "A") THEN {"ip"} ELSE {})
  ELSE {Outcome(msg) : msg \in Replies(c, call[c].kind)}

Return(c) ==
  /\ call[c].pc = "waiting"
  /\ \E r \in Results(c) : call' = [call EXCEPT ![c].pc = "returned", ![c].result = r]
  /\ UNCHANGED <<said, known>>

Next ==
  \/ \E q \in Questions : Learn(q) \/ \E msg \in Messages : Say(q, msg)
  \/ \E c \in Callers : Return(c) \/ \E what \in CallsOf[c] : Begin(c, what.kind, what.host)

Spec == Init /\ [][Next]_vars
=============================================================================
