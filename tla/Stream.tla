------------------------------- MODULE Stream -------------------------------
(***************************************************************************)
(* What a stream of tests promises its client, without goroutines,         *)
(* channels or counters: tests start in order, at most Limit at a time;    *)
(* each finds at most one result; and the client is told the results in    *)
(* the order in which they were found, none left out, none changed.  The   *)
(* call is complete when the client has been told a result of every test;  *)
(* it breaks only when a result that was found could not be told.          *)
(***************************************************************************)
EXTENDS Naturals, Sequences, FiniteSets

CONSTANTS Count, Limit

Tests == 0 .. Count - 1

VARIABLES
  status,  \* test -> "queued", "running" or "finished"
  results, \* the results found so far, each with the id of its test
  told,    \* how many of them the client has been told
  call     \* "open", "complete" or "broken"

vars == <<status, results, told, call>>

Running == {t \in Tests : status[t] = "running"}
Found(t) == \E k \in DOMAIN results : results[k].id = t

Init ==
  /\ status = [t \in Tests |-> "queued"]
  /\ results = << >> /\ told = 0
  /\ call = "open"

\* Tests go on starting when the call has broken: nobody stops them at once.
Start(t) ==
  /\ status[t] = "queued"
  /\ \A u \in 0 .. t - 1 : status[u] # "queued"
  /\ Cardinality(Running) < Limit
  /\ status' = [status EXCEPT ![t] = "running"]
  /\ UNCHANGED <<results, told, call>>

Find(t) ==
  /\ status[t] = "running" /\ ~Found(t)
  /\ \E k \in DOMAIN results' :
       results'[k].id = t /\ results' = Append(results, results'[k])
  /\ UNCHANGED <<status, told, call>>

\* A test may end without a result.
Finish(t) ==
  /\ status[t] = "running"
  /\ status' = [status EXCEPT ![t] = "finished"]
  /\ UNCHANGED <<results, told, call>>

Tell ==
  /\ call = "open" /\ told < Len(results)
  /\ told' = told + 1
  /\ UNCHANGED <<status, results, call>>

Break ==
  /\ call = "open" /\ told < Len(results)
  /\ call' = "broken"
  /\ UNCHANGED <<status, results, told>>

Complete ==
  /\ call = "open"
  /\ told = Count /\ \A t \in Tests : Found(t)
  /\ call' = "complete"
  /\ UNCHANGED <<status, results, told>>

Next == Tell \/ Break \/ Complete \/ \E t \in Tests : Start(t) \/ Find(t) \/ Finish(t)

Spec == Init /\ [][Next]_vars
=============================================================================
