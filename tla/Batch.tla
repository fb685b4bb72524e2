------------------------------- MODULE Batch -------------------------------
(***************************************************************************)
(* What a batch of tests promises its caller, without goroutines, channels *)
(* or counters: tests start in order, at most Limit at a time, each once;  *)
(* the batch is complete only when every test has produced its result, and *)
(* the report then holds exactly these results.  A caller who cancels is   *)
(* told at once and gets no report, while tests under way still finish.    *)
(***************************************************************************)
EXTENDS Naturals, FiniteSets

CONSTANTS Count, Limit, NoResult

Tests == 0 .. Count - 1

VARIABLES status, result, outcome, report

vars == <<status, result, outcome, report>>

Running == {t \in Tests : status[t] = "running"}

Init ==
  /\ status = [t \in Tests |-> "queued"]
  /\ result = [t \in Tests |-> NoResult]
  /\ outcome = "open"
  /\ report = [t \in Tests |-> NoResult]

Start(t) ==
  /\ outcome = "open" /\ status[t] = "queued"
  /\ \A u \in 0 .. t - 1 : status[u] # "queued"
  /\ Cardinality(Running) < Limit
  /\ status' = [status EXCEPT ![t] = "running"]
  /\ UNCHANGED <<result, outcome, report>>

\* A test may find its result, whatever that is, before it counts as finished.
Obtain(t) ==
  /\ status[t] = "running" /\ result[t] = NoResult
  /\ result'[t] # NoResult
  /\ result' = [result EXCEPT ![t] = result'[t]]
  /\ UNCHANGED <<status, outcome, report>>

Finish(t) ==
  /\ status[t] = "running"
  /\ status' = [status EXCEPT ![t] = "finished"]
  /\ UNCHANGED <<result, outcome, report>>

Complete ==
  /\ outcome = "open"
  /\ \A t \in Tests : status[t] = "finished" /\ result[t] # NoResult
  /\ outcome' = "complete"
  /\ report' = result
  /\ UNCHANGED <<status, result>>

Abandon ==
  /\ outcome = "open"
  /\ \E t \in Tests : status[t] = "queued"
  /\ outcome' = "abandoned"
  /\ UNCHANGED <<status, result, report>>

Next == Complete \/ Abandon \/ \E t \in Tests : Start(t) \/ Obtain(t) \/ Finish(t)

Spec == Init /\ [][Next]_vars
=============================================================================
