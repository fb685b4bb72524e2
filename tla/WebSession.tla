----------------------------- MODULE WebSession -----------------------------
(***************************************************************************)
(* The web front end and the server behind it: the page's store            *)
(* (test-store.ts), the form that starts and terminates tests              *)
(* (TestForm.tsx), and the handler updateTest, over the WebSockets that    *)
(* join them.  Every Start opens a connection of its own and polls the     *)
(* store every 100 ms until it may send its request; no connection is      *)
(* closed when its test ends.  The browser runs one handler at a time; the *)
(* server reads a connection and runs the tests it asked for concurrently. *)
(*                                                                         *)
(* Run r is the r-th click on Start, with connection r.  A test is reduced *)
(* to one node and to the messages that change what the page is doing;     *)
(* module TestRun has their order: endone and eof come in either.  Every   *)
(* node has the same id in every test, as the real ones count from zero.   *)
(***************************************************************************)
EXTENDS Naturals, Sequences, FiniteSets

CONSTANTS
  MaxStarts,    \* bound: clicks on Start
  MaxAttempts,  \* polls after the first that find no connection yet, 49 in the code
  Lossy         \* bound: whether open connections are ever dropped

ASSUME SessionAssumption ==
  MaxStarts \in Nat \ {0} /\ MaxAttempts \in Nat /\ Lossy \in BOOLEAN

Runs == 1 .. MaxStarts

VARIABLES
  starts,          \* clicks on Start so far
  loading,         \* store: a test is on
  ws,              \* store: the connection in use, 0 for null
  rows,            \* store: result, one row per test that announced its node
  live,            \* store: the node has a meter
  poll, attempts,  \* per run: the timer chain checkAndSend
  sock,            \* per run: readyState of its connection
  refused,         \* per run: closed before it was open
  inbox, outbox,   \* per connection: requests and messages on their way
  srv,             \* per connection: the read loop of updateTest
  test, at,        \* per run: where its test stands, and on which connection
  endone,          \* per run: the node's endone is written
  stray,           \* history: an error event ended the display of a test under way
  leaked           \* history: a timer chain has acted in a later run than its own

storeVars == <<loading, ws, rows, live>>
formVars == <<starts, poll, attempts>>
netVars == <<sock, refused, inbox, outbox>>
serverVars == <<srv, test, at, endone>>
history == <<stray, leaked>>
vars == <<storeVars, formVars, netVars, serverVars, history>>

Kinds == {"gotservers", "startping", "endone", "eof", "error"}
Message == [run: Runs, kind: Kinds]

Init ==
  /\ starts = 0 /\ loading = FALSE /\ ws = 0 /\ rows = <<>> /\ live = FALSE
  /\ poll = [r \in Runs |-> "none"] /\ attempts = [r \in Runs |-> 0]
  /\ sock = [r \in Runs |-> "none"] /\ refused = [r \in Runs |-> FALSE]
  /\ inbox = [r \in Runs |-> <<>>] /\ outbox = [r \in Runs |-> <<>>]
  /\ srv = [r \in Runs |-> "none"] /\ test = [r \in Runs |-> "none"]
  /\ at = [r \in Runs |-> 0] /\ endone = [r \in Runs |-> FALSE]
  /\ stray = FALSE /\ leaked = FALSE

-----------------------------------------------------------------------------
\* The form.

\* As Reset, forgotten.
KeepRows == UNCHANGED <<rows, live>>

\* reset() of the store, which leaves loading and ws alone.
Reset == rows' = <<>> /\ live' = FALSE

\* The Start button is disabled while loading.  The first poll runs at once
\* and finds the connection not open yet.
Start ==
  /\ ~loading /\ starts < MaxStarts
  /\ starts' = starts + 1
  /\ Reset /\ loading' = TRUE /\ ws' = starts'
  /\ sock' = [sock EXCEPT ![starts'] = "connecting"]
  /\ poll' = [poll EXCEPT ![starts'] = "waiting"]
  /\ UNCHANGED <<attempts, refused, inbox, outbox, serverVars, history>>

\* disconnect(): with no connection in the store it does nothing at all.
CloseSocket(s) ==
  /\ sock' = [sock EXCEPT ![s] = "closing"]
  /\ outbox' = [outbox EXCEPT ![s] = <<>>]
  /\ refused' = [refused EXCEPT ![s] = (sock[s] = "connecting")]
Disconnect ==
  IF ws = 0 THEN UNCHANGED <<sock, refused, outbox, ws, loading>>
  ELSE CloseSocket(ws) /\ ws' = 0 /\ loading' = FALSE

\* The Stop button is enabled while loading.
Terminate ==
  /\ loading
  /\ Disconnect /\ Reset
  /\ UNCHANGED <<formVars, inbox, serverVars, history>>

\* The state of the connection that the store holds.
Current == IF ws = 0 THEN "null" ELSE sock[ws]

\* One call of checkAndSend of run r: it looks at the connection that the
\* store holds now.  The last call of a chain is the end of its attempts too.
ChainEnds(r, outcome) ==
  /\ poll' = [poll EXCEPT ![r] = outcome]
  /\ attempts' = [attempts EXCEPT ![r] = 0]
  /\ leaked' = (leaked \/ r # starts)

PollSends(r) ==
  /\ poll[r] = "waiting" /\ Current = "open"
  /\ inbox' = [inbox EXCEPT ![ws] = Append(@, r)]
  /\ ChainEnds(r, "sent")
  /\ UNCHANGED <<starts, storeVars, sock, refused, outbox, serverVars, stray>>

PollFails(r) ==
  /\ poll[r] = "waiting" /\ Current \in {"null", "closing", "closed"}
  /\ ChainEnds(r, "failed") /\ loading' = FALSE
  /\ UNCHANGED <<starts, ws, rows, live, netVars, serverVars, stray>>

PollAgain(r) ==
  /\ poll[r] = "waiting" /\ Current = "connecting"
  /\ attempts[r] < MaxAttempts
  /\ attempts' = [attempts EXCEPT ![r] = @ + 1]
  /\ UNCHANGED <<starts, poll, storeVars, netVars, serverVars, history>>

\* As PollGivesUp, never.
NeverGiveUp(r) == poll[r] = "waiting" /\ attempts[r] > MaxAttempts /\ UNCHANGED vars

PollGivesUp(r) ==
  /\ poll[r] = "waiting" /\ Current = "connecting"
  /\ attempts[r] = MaxAttempts
  /\ ChainEnds(r, "gaveup") /\ Disconnect
  /\ UNCHANGED <<starts, rows, live, inbox, serverVars, stray>>

Poll(r) == PollSends(r) \/ PollFails(r) \/ PollAgain(r) \/ PollGivesUp(r)

-----------------------------------------------------------------------------
\* The connections.

\* The connection is up: the server has upgraded it and starts to read.
Opened(s) ==
  /\ sock[s] = "connecting"
  /\ sock' = [sock EXCEPT ![s] = "open"] /\ srv' = [srv EXCEPT ![s] = "reading"]
  /\ UNCHANGED <<storeVars, formVars, refused, inbox, outbox, test, at, endone, history>>

\* onclose, and onerror before it, do not ask whether the store still holds
\* the connection they belong to.
OnClose == ws' = 0 /\ UNCHANGED <<loading, stray>>
OnError(s) ==
  /\ ws' = 0 /\ loading' = FALSE
  /\ stray' = (stray \/ (loading /\ (ws # s \/ sock[s] = "open")))

ConnectFails(s) ==
  /\ sock[s] = "connecting"
  /\ sock' = [sock EXCEPT ![s] = "closed"]
  /\ OnError(s)
  /\ UNCHANGED <<rows, live, formVars, refused, inbox, outbox, serverVars, leaked>>

\* The closing handshake has ended; a connection closed before it was open has
\* failed and raises an error as well.
Closed(s) ==
  /\ sock[s] = "closing"
  /\ sock' = [sock EXCEPT ![s] = "closed"]
  /\ refused' = [refused EXCEPT ![s] = FALSE]
  /\ IF refused[s] THEN OnError(s) ELSE OnClose
  /\ UNCHANGED <<rows, live, formVars, inbox, outbox, serverVars, leaked>>

\* The network or the server drops an open connection, with or without an
\* error event.
Dropped(s) ==
  /\ Lossy /\ sock[s] = "open"
  /\ sock' = [sock EXCEPT ![s] = "closed"]
  /\ outbox' = [outbox EXCEPT ![s] = <<>>]
  /\ OnClose \/ OnError(s)
  /\ UNCHANGED <<rows, live, formVars, refused, inbox, serverVars, leaked>>

-----------------------------------------------------------------------------
\* The server.

Write(s, r, kind) ==
  outbox' = IF sock[s] = "open"
            THEN [outbox EXCEPT ![s] = Append(@, [run |-> r, kind |-> kind])] ELSE outbox

serverRest == <<storeVars, formVars, sock, refused, history>>

\* One turn of the read loop: a request without usable links is answered with
\* an error, any other starts a test, whatever is already running.
Accept(s) ==
  /\ srv[s] = "reading" /\ inbox[s] # <<>>
  /\ LET r == Head(inbox[s]) IN
       /\ inbox' = [inbox EXCEPT ![s] = Tail(@)]
       /\ \/ Write(s, r, "error") /\ UNCHANGED <<test, at>>
          \/ /\ test' = [test EXCEPT ![r] = "started"] /\ at' = [at EXCEPT ![r] = s]
             /\ UNCHANGED outbox
  /\ UNCHANGED <<serverRest, srv, endone>>

\* ReadMessage fails; the deferred cancel ends the context of all its tests.
ReadEnds(s) ==
  /\ srv[s] = "reading" /\ sock[s] \in {"closing", "closed"}
  /\ srv' = [srv EXCEPT ![s] = "ended"]
  /\ UNCHANGED <<serverRest, inbox, outbox, test, at, endone>>

Advance(r, from, to, kind) ==
  /\ test[r] = from /\ test' = [test EXCEPT ![r] = to]
  /\ Write(at[r], r, kind)
  /\ UNCHANGED <<serverRest, inbox, srv, at, endone>>

WriteEof(r) == Advance(r, "tested", "ended", "eof")

WriteEndone(r) ==
  /\ test[r] \in {"tested", "ended"} /\ ~endone[r]
  /\ endone' = [endone EXCEPT ![r] = TRUE]
  /\ Write(at[r], r, "endone")
  /\ UNCHANGED <<serverRest, inbox, srv, test, at>>

\* A cancelled run returns without eof if it is still starting nodes.
Abandon(r) ==
  /\ test[r] = "announced" /\ srv[at[r]] = "ended"
  /\ test' = [test EXCEPT ![r] = "ended"] /\ endone' = [endone EXCEPT ![r] = TRUE]
  /\ UNCHANGED <<serverRest, inbox, outbox, srv, at>>

Test(r) ==
  \/ Advance(r, "started", "announced", "gotservers")
  \/ Advance(r, "announced", "tested", "startping")
  \/ WriteEof(r) \/ WriteEndone(r) \/ Abandon(r)

-----------------------------------------------------------------------------
\* handleMessage of the store.

MarkRows(testing, tested) ==
  rows' = [k \in DOMAIN rows |-> [rows[k] EXCEPT !.testing = testing, !.tested = tested]]

\* As HandleEof, trusting endone to have come for every row.
HandleEofPlain == loading' = FALSE /\ live' = FALSE /\ UNCHANGED rows

\* As HandleEof, leaving loading to the last endone.
HandleEofLoading == UNCHANGED <<loading, rows>> /\ live' = FALSE

HandleEof ==
  /\ loading' = FALSE /\ live' = FALSE
  /\ rows' = [k \in DOMAIN rows |->
                IF rows[k].testing THEN [rows[k] EXCEPT !.testing = FALSE, !.tested = TRUE]
                ELSE rows[k]]

Handle(m) ==
  CASE m.kind = "gotservers" ->
         /\ rows' = Append(rows, [run |-> m.run, testing |-> FALSE, tested |-> FALSE])
         /\ UNCHANGED <<live, loading>>
    [] m.kind = "startping" ->
         /\ rows' = [k \in DOMAIN rows |-> [rows[k] EXCEPT !.testing = TRUE]]
         /\ live' = TRUE /\ UNCHANGED loading
    [] m.kind = "endone" -> MarkRows(FALSE, TRUE) /\ live' = FALSE /\ UNCHANGED loading
    [] m.kind = "eof" -> HandleEof
    [] m.kind = "error" -> loading' = FALSE /\ UNCHANGED <<rows, live>>

\* A connection delivers in order, and nothing once it is being closed; what a
\* dropped one still held is lost.
Receive(s) ==
  /\ sock[s] = "open" /\ outbox[s] # <<>>
  /\ outbox' = [outbox EXCEPT ![s] = Tail(@)]
  /\ Handle(Head(outbox[s]))
  /\ UNCHANGED <<ws, formVars, sock, refused, inbox, serverVars, history>>

Network(s) ==
  Opened(s) \/ ConnectFails(s) \/ Closed(s) \/ Dropped(s) \/ Receive(s) \/ Accept(s) \/ ReadEnds(s)

Next == Start \/ Terminate \/ \E r \in Runs : Poll(r) \/ Network(r) \/ Test(r)

\* Timers fire, the server serves and the browser delivers; a connection need
\* neither open nor fail.
Fairness ==
  \A r \in Runs :
    WF_vars(Poll(r)) /\ WF_vars(Accept(r)) /\ WF_vars(Test(r)) /\ WF_vars(Receive(r))

Spec == Init /\ [][Next]_vars
FairSpec == Spec /\ Fairness

\* Nothing has gone wrong yet that the properties below except.
Undisturbed == ~stray /\ ~leaked

-----------------------------------------------------------------------------
States == {"none", "connecting", "open", "closing", "closed"}

TypeOK ==
  /\ starts \in 0 .. MaxStarts /\ loading \in BOOLEAN /\ live \in BOOLEAN
  /\ ws \in 0 .. starts
  /\ rows \in Seq([run: Runs, testing: BOOLEAN, tested: BOOLEAN])
  /\ poll \in [Runs -> {"none", "waiting", "sent", "failed", "gaveup"}]
  /\ attempts \in [Runs -> 0 .. MaxAttempts]
  /\ sock \in [Runs -> States] /\ refused \in [Runs -> BOOLEAN]
  /\ inbox \in [Runs -> Seq(Runs)] /\ outbox \in [Runs -> Seq(Message)]
  /\ srv \in [Runs -> {"none", "reading", "ended"}]
  /\ test \in [Runs -> {"none", "started", "announced", "tested", "ended"}]
  /\ at \in [Runs -> 0 .. MaxStarts] /\ endone \in [Runs -> BOOLEAN]
  /\ stray \in BOOLEAN /\ leaked \in BOOLEAN

\* The page is idle only when nothing on it is under test: no meter runs and no
\* row is highlighted, or its check box would stay disabled.  Error events in the
\* course of a test and leaked timers, which Undisturbed excepts, do break it.
QuietWhenIdle ==
  ~loading /\ Undisturbed =>
    ~live /\ \A k \in DOMAIN rows : ~rows[k].testing

\* The table shows the nodes of the last click on Start only, although the
\* connections of earlier tests stay open.
RowsOfLastRun ==
  Undisturbed => \A k \in DOMAIN rows : rows[k].run = starts

-----------------------------------------------------------------------------
\* Why the two hold: an inductive invariant.

\* The store's connection is that of the last click, and not closed; a test
\* writes to the connection that asked for it.
Connected ==
  /\ ws # 0 => ws = starts /\ sock[ws] \in {"connecting", "open"}
  /\ \A r \in Runs : test[r] # "none" => at[r] \in Runs

\* A run sends one request, over its own connection, which carries nothing but
\* the error or the messages of the one test, eof before none but endone.
OwnConnection(r) ==
  /\ inbox[r] \in {<<>>, <<r>>}
  /\ poll[r] = "waiting" \/ sock[r] \in {"none", "connecting"} =>
       inbox[r] = <<>> /\ outbox[r] = <<>> /\ test[r] = "none"
  /\ inbox[r] # <<>> => outbox[r] = <<>> /\ test[r] = "none"
  /\ test[r] = "none" => Len(outbox[r]) <= 1
  /\ test[r] # "none" => at[r] = r
  /\ \A i \in DOMAIN outbox[r] :
       /\ outbox[r][i].run = r
       /\ outbox[r][i].kind = "error" <=> test[r] = "none"
       /\ outbox[r][i].kind = "eof" =>
            test[r] = "ended" /\ \A j \in DOMAIN outbox[r] : i < j => outbox[r][j].kind = "endone"

\* The page hears no more of run r, but for its endone.
Silent(r) ==
  \/ sock[r] \in {"closing", "closed"}
  \/ /\ poll[r] # "waiting" /\ inbox[r] = <<>> /\ test[r] \in {"none", "ended"}
     /\ \A i \in DOMAIN outbox[r] : outbox[r][i].kind = "endone"

Separate ==
  /\ \A r \in Runs : OwnConnection(r)
  /\ \A r \in Runs : starts < r => poll[r] = "none" /\ sock[r] = "none"
  /\ \A r \in Runs : r < starts \/ (r = starts /\ ~loading) => Silent(r)
  /\ starts = 0 \/ test[starts] = "none" => rows = <<>> /\ ~live

SessionInv == TypeOK /\ Connected /\ (Undisturbed => Separate) /\ QuietWhenIdle /\ RowsOfLastRun

-----------------------------------------------------------------------------
\* Every timer chain ends, also when the connection never opens.
PollersEnd == \A r \in Runs : poll[r] = "waiting" ~> poll[r] # "waiting"

\* A test that is on ends on the page too, unless its connection is lost.
LoadingEnds == loading ~> ~loading \/ ws = 0

-----------------------------------------------------------------------------
\* What comments say of the page and the code does not do.

\* "The connection failed (ws set to null by onerror/onclose) or the retries
\* are used up: stop": a start stops only if its own connection is lost.
StartStopsOnlyIfConnectionFails ==
  \A r \in Runs : poll[r] \in {"failed", "gaveup"} => sock[r] \in {"closing", "closed"}
=============================================================================
