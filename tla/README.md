# proxy-speedtest in TLA+

TLA+ models of `proxy-speedtest` (Go, with a React front end), the TLC
configurations that check them on small instances, and TLAPS proofs of the
results that matter most for every number of links and every concurrency.
Line numbers are those of the repository's sources; `PROJECT.json` maps every
definition to the lines it models.

## 1. The system

A *test* takes a list of proxy links, pings every node, measures its download
and optionally its upload bandwidth, and reports one `render.Node` per link.

| component | state | operations | used by |
|---|---|---|---|
| node test (`testOne`, `pingLink`; `web/profile.go`) | one goroutine's position, the Node it builds | ping, download phase, upload phase, messages, one send on `nodeChan` | both dispatchers |
| batch dispatcher (`ProfileTest.run`) | `guard`, `wg`, `nodeChan`, `nodes`, the summary | start goroutines, give up on cancellation, wait, `eof`, collect | command line, web server, Go API |
| streaming test (`ProfileTest.TestAll`) and gRPC `StartTest` | as above, without the wait; the stream | start goroutines; receive, reply | gRPC server, Go API |
| speed phase (`runSpeedPhase`, `DownloadWithURLThreads`, `UploadWithURLThreads`) | atomic counter, channel of samples, sums, contexts | threads, measuring loop, consumer | node test |
| `internal/tester` | semaphore, WaitGroup, result channel | `Test`, `TestSync`, `testOne` | library users |
| web session (`test-store.ts`, `TestForm.tsx`, `updateTest`) | loading, connection, rows, meters, timers; the read loop | start, stop, poll, connection events, messages | the page |
| options (`parseMessage`, `readConfig`, `main.go`) | none | defaults, bounds, groups, filter and headers of a request or a command | every entry point |
| command line (`TestFromCMD`, `cmdoutput.go`, `cmdprogress.go`) | targets, progress per node | plan outputs, print lines, emit | `main.go` |
| messages (`web/msg.go`, the writers) | the order under one lock | announce in chunks, report, fan out | `run`, the page, the progress lines |
| address lookup (`startIPFetch`, `FetchBoth`) | the two addresses, `ipDone` | ask all sources at once, merge, footer with a 3 s wait | `run`, pictures |
| dialers (`transport/dialer`, `internal/xray`) | racing connections, the xray instance and its mutex | dial in both families, dial through xray, close | every connection |
| DNS (`dns`, `common/picker`, `common/cache`) | exchanges under way, cache entries | race of servers, fallback, shared exchange, stale answers | dialers |
| range download (`download_range.go`) | ranges, workers, channels | fetch in parts, add up, give up on the timeout | library users |
| link and subscription parsers (`internal/parser`, `ParseLinks`) | none | text to links, links and Clash nodes to outbounds | every entry point |
| buffers, statistics, structure decoder, SOCKS5 codec, drawing, generated code | none that a test depends on | conversions | throughout |

How they interact: goroutines of one batch share `guard`, `wg`, `nodeChan`, the
context and the message writer; a node test calls a speed phase, whose three
kinds of goroutines share the counter, the channel and two contexts; the page
and the server share nothing but WebSocket connections, of which one page may
hold several.

What makes it hard: cancellation at any time (Stop, a closed connection, a
gRPC client that leaves) against selects that may take either case; channels
that are sent to after nobody receives any more; messages that arrive after
the event they belong to; timeouts that race results; events of an old
connection that act on a new one. The list, line by line, is under `hazards`
in `PROJECT.json`.

What makes each component correct:

* dispatcher: no more than `Concurrency` tests at once; the report holds each
  goroutine's own result under its own id; it ends; it leaves nothing behind;
  after `eof` nothing but `endone` is written;
* streaming test: one reply per link, and an end for the handler;
* speed phase: every byte in one place, verdicts of two goroutines that agree,
  an end in bounded time;
* tester: a complete slice, a channel closed after the last send;
* web session: an idle page shows nothing under test, the table belongs to the
  last start, timers and tests end;
* network: no connection is left open or handed out closed, one failure hides
  no success, whoever waits waits for something under way, and all of it ends;
* conversions: a parameter that a link gives reaches the outbound, a group stays
  with its links, each output is written once and where it was asked for, the
  progress lines say what the results say.

## 2. Modules

| module | models | checked by | proved in |
|---|---|---|---|
| `TestOne` | `testOne` and `pingLink` as actions of goroutine `i`, with the shared `wg`, `guard`, `nodeChan` and context | (through its users) | `TestOneProofs` (lemmas) |
| `TestRun` | `ProfileTest.run` over `TestOne` | `MCTestRun` | `TestRunProofs` |
| `Batch` | abstract: what a batch promises its caller | refinement `KeepsPromise` | `TestRunProofs` (refinement) |
| `TestAll` | `ProfileTest.TestAll` and the gRPC handler over `TestOne` | `MCTestAll` | `TestAllProofs` |
| `Stream` | abstract: what a stream of tests promises its client | refinement `StreamsAsPromised` | `TestAllProofs` (refinement) |
| `SpeedPhase` | one phase of one node: threads, loop, consumer | itself | `SpeedPhaseProofs` |
| `Tester` | `internal/tester` `Test`, `TestSync` and its workers | `MCNet`, itself | `LibraryProofs` |
| `DualStack` | `transport/dialer` `DialContext` and the two racers, `transport/resolver` | `MCNet` | `NetworkProofs` |
| `XrayDialer` | `internal/xray` `DialContext` and `Close` around one mutex | `MCNet` | `NetworkProofs` |
| `Dns` | `dns` `Resolver` with `common/picker`: exchanges, races, cache | `MCNet` | `NetworkProofs` |
| `DnsHistory` | `Dns` with what it forgets: what was said, and what was cached when a call began | `MCDns`, `MCNet` | `NetworkProofs` |
| `Resolver` | abstract: what a resolver promises its callers | refinement `ResolvesAsPromised` | `NetworkProofs` (refinement) |
| `DownloadRange` | `download` `DownloadRange` and its workers | `MCNet` | `LibraryProofs` |
| `IpInfo` | the lookup of the public addresses and the picture that waits for it | `MCNet` | `LibraryProofs` |
| `LruCache` | `common/cache` with readers that read after the unlock | `MCConvert` | `ConvertProofs` |
| `Links` | the parsers of links and Clash nodes, the outbound, the row | `MCConvert` | `NetworkProofs` |
| `Subscription` | `ParseLinks` and `ParseSubscription`: what a text is | `MCConvert`, `MCSubscription` | `ConvertProofs` |
| `Options` | requests, command lines and configuration files into options | `MCConvert` | `ConvertProofs` |
| `OutputPlan` | the targets of a run and the writing of each | `MCConvert`, `MCOutput` | `ConvertProofs` |
| `Selections` | some of a sequence, in its order: what a filtering loop keeps | (through its users) | `ConvertProofs` (lemmas) |
| `Messages` | the messages of a run and the two ends that read them | `MCConvert` | `ConvertProofs` |
| `WebSession` | the page, the connections, the read loop, tests as message sources | itself | `WebSessionProofs` |

### How state and actions correspond to the code

*TestOne.* `pc[i]` is the place of goroutine `i` in `testOne`; an action is the
code between two points where another goroutine can matter: a message written,
a read of the context, a send, the deferred `wg.Done()`. `job` is the request
(mode, upload, kinds of links, `TestIDs`). The outcome of a ping is
`alive`, `error`, or `zero`: no error, but a median of 0 ms, which `elapse < 1`
treats as dead and `err != nil` does not. `log[i]` holds the messages in order,
a phase's repeated sample once. `traffic[i]` is `dSum`. A phase is reduced to
its samples and its verdict; `SpeedPhase` opens it. `EndDownload` therefore may
announce a failure only if the phase has delivered no byte, which is what
`FailureMeansNoBytes` says there.

*TestRun.* `dpc` is the dispatcher's place: `add` (the loop head and
`wg.Wait`), `select`, `collect`, and the ends `returned`, `cancelled`,
`panicked` (an index out of range of `TestIDs` or of `Links`). `Spawn` and
`GiveUp` are the two cases of the select and may both be enabled. After the
test the goroutine writes `endone` and then takes its token back, `WriteEndone`
and `Release`.

*TestAll.* The dispatcher is the same loop without ids, `endone`, or wait; the
handler receives, replies and counts. Every return of the handler ends the
stream's context.

*SpeedPhase.* `tpc` are the connections, `lpc` the measuring loop, `cpc` the
consumer. `ctxDone` is the caller's context, `dlDone` the phase's own, which
ends with it, by the timeout, or by the deferred cancel. `FlushTick` and
`FlushLast` are the cases of the loop's select, `Deliver` and `Drop` those of
the send. `moved` and `dropped` are history variables.

*Tester.* `semaphore`, `wg`, `resultChan` and `closed` are the code's; a panic
is a state (`panicked`), because a send on a closed channel and a division by
zero end the process. `NetEnds` takes the second for rest: a download that ends within
its first millisecond panics (`internal/tester/download.go:98`), which no claim forbids.

*WebSession.* Run `r` is the `r`-th click on Start, with connection `r` and
timer chain `poll[r]`. `ws` is the connection the store holds. Handlers of the
browser are atomic. The server's test of a run is reduced to
`gotservers`, `startping`, `eof` and `endone` of one node, in the orders that
`TestRun` allows. `stray` and `leaked` are history variables that say that an
error event has ended the display of a running test, or a timer has acted in a
later run than its own; two safety properties except these histories.

*DualStack.* A racer resolves, dials, and stands at the send (`handover`);
`RacerHandover` and `RacerDiscard` are the two cases of its select, the second
enabled once the caller has returned. `open` is the set of connections nobody
has closed. *XrayDialer.* `mutex` is held from `DialLock` to the end of the
core's dial; `CloseLock` waits for it. *Dns.* A question is a record type of one
host. `flight[q]` is singleflight's call, with those who wait for it, `batch` the
Picker of each group of servers; an old entry is handed out and put into
`refreshing`. `DnsHistory` adds `heard`, the messages exchanges came to, and
`knew`, the questions in the cache when a call began; with them a state of `Dns`
is one of `Resolver`, whose `said` only grows. *DownloadRange.* Workers stand at one of three sends; the caller's
loop takes them, reports once a second, and returns when all are done or on its
context. *IpInfo.* Each provider answers once in each family; what it says is an
outcome, and a merged field is named by the provider it came from.

*LruCache.* Entries are cells of a heap, because a reader keeps its pointer
after the unlock; `Keep` is what remains in index and list.

*Links.* The value of a parameter is named by the parameter, so that an outbound
tells where each of its values comes from. *Subscription.* A text is a record
that says what it is; trial after trial, as the code does. *Options.* One action
takes a request or a command as a whole. *OutputPlan.* `Begin` sorts and plans,
then the targets are written in order, and any write may fail. *Messages.* Of a
short list two nodes report, their messages mixed under the lock; a long list is
announced only, to go over the limits of the chunks. A node's outcome is its ping,
whether that was an error, and the bytes and milliseconds of the samples of its
download; each "gotspeed" tells the average up to its sample. A ping that fails
ends a test, but not that of a direct link, and a ping of 0 ms without an error
only announces that there will be no speed. Messages that no line is made from
(`startping`, `startspeed`, those of the upload) are left out.

`MCNet` and `MCConvert` put parts that share nothing side by side: in a
behaviour one part moves and the others stay in their first state, so that the
states are the sum, not the product, of theirs. A `...Safe` property of a part
is the conjunction of its named claims.

## 3. Runs

| run | bounds | distinct states |
|---|---|---|
| `run` | 3 links, 2 at a time, 1 byte; 3 modes over three kinds of links, the upload, 3 lists of ids | 159 thousand |
| `speed_phase` | 2 threads, 3 s, dead after 2 s, 3 bytes, both directions | 109 thousand |
| `test_all` | 3 links, 2 at a time, 1 byte; 4 requests: each mode, the upload, mixtures of links | 139 thousand |
| `web_session` | 2 starts, 1 retry of the timer, lossy connections | 95 thousand |
| `net` | tester: 3 proxies, 2 at a time, 3 modes; both families; 2 callers of DNS and 2 servers, or one and a fallback; 3 threads and an owner; 2 parts of up to 3 bytes; 2 providers | 483 thousand |
| `convert` | cache of 2 entries and 3 instants; some 12 thousand nodes; 13 thousand requests and commands; texts of up to 2 links; 200 plans; lists of up to 1101 links | 525 thousand |

What they show:

* `run` — `ReportFaithful`: the caller's array and sums are what the goroutines
  measured, also under permuted ids. `SendNeverBlocks`: a buffer of
  `linksCount` is enough whatever was given up. `QuietAfterEof`: after `eof`
  only `endone`. `KeepsPromise`: `run` implements `Batch`. `CollectNeverStarves`:
  the collecting loop, which has no case for the context, always finds a Node if
  links parse. `RunReturns`, `GoroutinesEnd`: it ends if links parse, and
  goroutines end in any case. `IndInv` is the invariant of the proofs.
* `speed_phase` — `BytesConserved`, and `NoLossWhileRunning` in `IndInv`: a byte counted is in
  the counter, on its way, in the channel, summed, or dropped, the last only
  once the phase is over. `FailureMeansNoBytes`: the message -1 never follows a
  positive sample. `DrainedUnlessCancelled`, `SumsSettled`: the sums are final
  when they are read. `DeadNodeGivenUp`, `PhaseEnds`: bounded time.
* `test_all` — `RepliesFaithful`: each reply is the Node of one link, none
  twice. `StreamsAsPromised`: `TestAll` with the handler implements `Stream`; the
  client is told the results in the order in which they were found, and a call is
  complete only with all of them. `StrandedOnlyByLoss`, `CallEnds`: the handler, which only counts,
  waits in vain only when the dispatcher gave up or a link did not parse.
  `GoroutinesEnd`: goroutines end although a failed handler receives no more;
  with a single place in `nodeChan` some would not.
* `web_session` — `QuietWhenIdle`, `RowsOfLastRun`: an idle page is quiet and the
  table is that of the last click. `PollersEnd`, `LoadingEnds`: timer chains and
  tests end. `SessionInv`, which begins with the types, is the invariant of the
  proofs.
* `net` — `TesterSafe`: the slice of `TestSync` is complete unless cancelled, and
  ping, speed and error of a result agree. `DialSafe`: the loser of the race is
  closed, the winner is not, and a call fails only if both families failed, with
  the error that tells most. `DnsSafe`: one server's failure hides no other's
  answer, nobody waits for an exchange that is over, `ResolveIP` fails only if
  neither family has an address. `ResolvesAsPromised`: `Dns` implements
  `Resolver`; a call comes to what was said of its questions and does not fail for
  want of an answer that was in the cache when it began. `XraySafe`: nobody dials through a closed
  instance. `DrSafe`: each byte is asked for once and none is lost between a
  worker and the caller; a worker is left behind only by the timeout. `IpSafe`:
  fields come from the first provider that has them, and the footer agrees with
  the message. `NetEnds`: each part comes to rest whenever it is left alone.
* `convert` — `LruSafe`: index and list agree. `LinkSafe`: `NothingLost`,
  `OneSecurity`, `RowTellsOutbound`, `PortKept`, and `ClashAlike`, which lists
  every value on which a Clash node and the link that says the same part.
  `OptionSafe`: groups stay with their links whatever fails or is filtered, one
  link of each node stays, bounds hold, the last header of a name wins, flags
  count on either side of a link. `SubscriptionSafe`: the source of lines does
  not matter, but for the exceptions it names. `OutputSafe`: standard output
  stays clean, every format is emitted, the named file gets the first, text and
  table tell of the same nodes. `MessageSafe`: chunks number the links without a
  gap, the counter counts nodes once, a line says ok if and only if the node has a
  ping or a speed; that is when the text output would list it, but for a node
  without a ping whose bytes come to less than one per second.

Goroutines of a batch interact only through counters and the channel, and each
question concerns two of them: one that waits for the other's slot, ids swapped,
one Node missing; three links with two slots add a link that still waits while
two overlap. One byte per node tells
a dead node from a live one; three bytes and three seconds let a phase have a
sample in the channel, one on its way and one in the counter. Two starts are
enough for an old connection and a new one. `MaxAttempts` stands for the 49
polls after the first that the form allows; one retry is enough to poll again
and to give up. Two servers, two callers and two providers are a first and a
later one; a third thread lets one dial, one wait and one come late. Two entries
of a cache are an old and a recent one, three instants a past, a present and a
future. The inputs of `convert` give every parameter, all but one, one alone and
none, and numbers on both sides of each limit.

Deadlock is not checked where the system comes to rest: a batch that has
returned, a phase that has finished, a page with no clicks left. The liveness properties
say instead that it rests only where it should.

### Fairness

Weak fairness of the dispatcher, the handler and each goroutine: the Go
scheduler runs what can run. A ping ends by its own timeout, a phase by
`Options.Timeout`; samples are bounded by `MaxSamples`, as seconds are in the
code. In `SpeedPhase` time passes, loop and consumer run, and a thread leaves
once its context is done; nothing is assumed of servers, which may stall, fail
or answer for ever. In `WebSession` timers fire, the server serves and the browser delivers;
a connection need neither open nor fail, and nobody need click. Nothing assumes
that a context is ever cancelled.

In `net` each part has weak fairness of the disjunction of its steps: dials,
fetches and exchanges end by their own timeouts. One condition for all of a
part's goroutines is weaker than one for each, and is enough because none of
them can run for ever: whatever runs ends. `convert` states no fairness; its
questions are about what a conversion yields.

### Where the code and its documents differ

Each has a run that finds the counterexample:

* `run_unparsable`: a link that `Link2Config` rejects sends no Node
  (`profile.go:752`) and `run` never returns.
* `run_lines`: `endone` is written after `wg.Done()` (`profile.go:612`, `745`);
  `run` may return, and the command line exit, before the last lines.
* `tester_closed`: a worker may send on the closed channel after a
  cancellation (`tester.go:78`, `97`).
* `web_start`: the close event of an earlier connection clears the connection
  of the running start (`test-store.ts:267`).
* `subscription_clash`: a Clash file - by its name, or of more than 2048 bytes, so
  that `parseFile` reads it as one - yields no link, because the four converters
  of `config/parser.go:66-80` return the empty string; `README.md:9` lists Clash
  files as supported. (The parser of `internal/parser` reads them.)
* `output_names`: `text` and `table` share the extension and the time, hence the
  file (`cmdoutput.go:63`), although `README.md:174` gives each its own.

Seen while modelling, without a run of their own: a node that moved no byte in
`speedonly` mode counts as a success (`profile.go:810`); the consumer of a
cancelled phase leaves a sample behind, although a comment says it drains the
channel (`profile.go:819`, `856`); the last sample of a phase that times out
may be missing in the sum (`download.go:326`); `TestSync` returns nil entries after a
cancellation (`tester.go:98`); a late `endone` of an earlier run marks a row of
the next (`test-store.ts:379`); a connection error leaves rows highlighted
(`test-store.ts:271`); a ping of 0 ms without an error goes on to the speed test
in `pingonly` mode (`profile.go:919`, against the comment at 786); an orphaned
timer chain acts on the connection of the next start (`TestForm.tsx:212`).

Of the options: a timeout of 0 becomes 8 ns, because the floor is compared after
the multiplication (`profile.go:371`); `timeout`, `concurrency` and `mode` of a
configuration file never count, since the flags have defaults (`main.go:70`),
its `unique` is not read, its threads are not capped, and a file that cannot be
read is passed over in silence (`server.go:341`); text of several lines given
with `-test` leaves the subscription that the file names (`server.go:395`); the
port is 10888 without arguments, though the flag says 8090 (`main.go:188`).

Of the conversions: lists drop `direct://`, wireguard, socks and http links, and
vless, ss and trojan links without a query or fragment (`profile.go:29`); a
Shadowrocket link without a slash behind its port is cut; a file of at most 2048
bytes is read as base64 only (`profile.go:254`); aliases of schemes count in
lower case only (`wireguard.go:26`); a Clash vless node with reality names no server
(`clash.go:156`); `allowInsecure` and the early data of WebSocket do not reach the
outbound (`xray/dialer.go:360`); pings are sorted as text (`table.go:162`); a
picture that cannot be saved is not reported, while one that cannot be rendered
stops the command (`cmdoutput.go:322`, `316`); a port of more than 16 bits wraps when the
JSON of a vmess link has it as a number and becomes 65535 when it is text
(`vmess.go:258`); a node whose bytes are too few for an average is listed in the
text, but has no value in the table and failed by its progress line
(`cmdoutput.go:186`, `235`, `cmdprogress.go:24`). Of the
cache: `GetWithExpire` reads an entry after the unlock (`lrucache.go:103`), although a
comment calls the cache thread-safe (`lrucache.go:53`).

## 4. Proofs

For every value of the constants that their assumptions allow:

| theorem | property | statement |
|---|---|---|
| `TestRunProofs!ReportSound`, `TypeCorrect` | `IndInv`, `TypeOK` | the inductive invariant and the types of `run` |
| `TestRunProofs!ConcurrencyBounded` | | at most `Concurrency` nodes under test |
| `TestRunProofs!RoomForEveryNode` | `SendNeverBlocks` | a goroutine never blocks on its Node |
| `TestRunProofs!CollectingNeverStarves` | `CollectNeverStarves` | if links parse, a Node is there whenever `run` wants one |
| `TestRunProofs!EofIsLast` | `QuietAfterEof` | after `eof` only `endone` is written |
| `TestRunProofs!ReportIsFaithful` | `ReportFaithful` | rows and sums are what the goroutines measured |
| `TestRunProofs!PromiseKept` | `KeepsPromise` | `run` implements `Batch`, for requests with distinct ids |
| `TestAllProofs!CountersSound`, `ConcurrencyBounded`, `RoomForEveryNode` | `IndInv` | the same counters for `TestAll` |
| `TestAllProofs!NeverStranded` | `StrandedOnlyByLoss` | the handler waits in vain only if links were lost |
| `TestAllProofs!RepliesAreFaithful` | `RepliesFaithful` | a reply is what its link's goroutine measured, none is given twice |
| `TestAllProofs!StreamKept` | `StreamsAsPromised` | `TestAll` with its handler implements `Stream` |
| `SpeedPhaseProofs!PhaseSound`, `NoByteLost` | `IndInv`, `BytesConserved` | every byte is in one place |
| `SpeedPhaseProofs!NoLossBeforeTheEnd` | | none is dropped while the phase's context is live |
| `SpeedPhaseProofs!SilentNodeGivenUp` | `DeadNodeGivenUp` | a node that moves no byte is given up in time |
| `SpeedPhaseProofs!VerdictsAgree` | `FailureMeansNoBytes` | -1 never follows a positive sample |
| `SpeedPhaseProofs!ChannelDrained`, `SumsFinal` | `DrainedUnlessCancelled`, `SumsSettled` | what `runSpeedPhase` returns is complete and final |
| `LibraryProofs!TesterIsSafe` | `TesterSafe` | the slice of `TestSync` is complete unless cancelled, its results agree with the mode |
| `LibraryProofs!AddressesAreSafe` | `IpSafe` | addresses merge by priority, the picture agrees with the page |
| `LibraryProofs!RangeDownloadIsSafe` | `DrSafe` | ranges cover the file once, no byte is lost on the way to the caller |
| `NetworkProofs!DialIsSafe` | `DialSafe` | the race of two dials leaks no connection, hides no success, and reports the telling error |
| `NetworkProofs!XrayDialSafe` | `XraySafe` | nobody dials through a closed instance |
| `NetworkProofs!ResolverIsSafe` | `DnsSafe` | one server's failure hides no other's answer, nobody waits for nothing |
| `NetworkProofs!ResolverKeepsPromise` | `ResolvesAsPromised` | `Dns` with its history implements `Resolver` |
| `NetworkProofs!LinksAreSafe` | `LinkSafe` | an outbound keeps what its link says, and differs from the Clash node's in the named values only |
| `ConvertProofs!CacheIsSafe` | `LruSafe` | index and list never come apart |
| `ConvertProofs!MessagesAreSafe` | `MessageSafe` | page and progress writer hear of every node; its line says ok if and only if its Node has a ping or a speed |
| `ConvertProofs!OptionsAreSafe` | `OptionSafe` | what is tested, and how, is what was asked for |
| `ConvertProofs!SubscriptionsAreSafe` | `SubscriptionSafe` | a text becomes the links it lists, wherever it comes from |
| `ConvertProofs!OutputsAreSafe` | `OutputSafe` | what a run found is emitted once, where it was asked for |
| `WebSessionProofs!SessionSound`, `SessionTypes` | `SessionInv`, its `TypeOK` | the inductive invariant and the types of the page and its connections |
| `WebSessionProofs!IdleIsQuiet` | `QuietWhenIdle` | an idle page shows nothing under test |
| `WebSessionProofs!RunsNeverMix` | `RowsOfLastRun` | the table belongs to the last click |

*Assumptions*, all evaluated by TLC. `CountsAssumption`: at least one link, a
concurrency of at least one (the option parsing replaces smaller values, and
`run` returns early for an empty list), a bound on the samples.
`JobsAssumption`: the requests are requests. `NoIdsAssumption` (`TestAll` only):
it does not read `TestIDs`. `PhaseAssumption`: timeouts of at least one second.
`TesterAssumption`: a concurrency of at least one; no proxies are allowed.
`DnsAssumption`: a resolver has a main server; the one that the program builds,
`DefaultResolver`, has two. `DrAssumption`: at least one part.
`ProvidersAssumption`: the providers are finitely many, in an order.
`XrayAssumption`, `OwnerAssumption`: finitely many threads, of which `owner` and
`free` are none. `LruAssumption`: a size of at least one (`WithSize` of zero means
no limit, and nobody passes it). `MsgAssumption`: a list of at least one link;
pings, bytes and times that are natural numbers. `SessionAssumption`: at least one click; its
bounds on clicks and polls are any numbers. Those of the conversions type the
inputs: `NodesAssumption` (a node says its scheme, network and security, and which
parameters it gives), `TextsAssumption` (what base64, addresses and files hold
are texts again), `LinksAssumption`, `RequestsAssumption` and
`CommandsAssumption` (subscriptions yield links; requests and command lines have
the fields that their decoders fill; a header with a blank name, which is passed
over everywhere, is left out), `PlansAssumption` and `ResultsAssumption`. Two of
them say more than types: nobody names an output file as the clock would, and a
node with a ping or a speed is marked successful, as `testOne` does
(`profile.go:810`). `DualStack` has no constants: its
theorem confirms by deduction what `net` enumerates.

`PromiseKept` has the hypothesis `DistinctIds`, a property of the request that no
step changes: the code lets a retest name one row twice, and then the later of
two Nodes stands in the report, which `Batch` does not allow. `ReportFaithful`
says under the same condition what the rows hold, and of the sums without it.

*The counters of the dispatchers.* None of the properties is inductive: that the
semaphore admits `Concurrency` goroutines says nothing of how many hold its
tokens, and that the channel has room says nothing of how many are still to
send. `CountInv` makes the counters say what they count:

* `SlotsCounted`: `guard` is the cardinality of `Holding`, the goroutines
  between their start and the release of the token;
* `AwaitedCounted`: `wg` is the cardinality of `Testing`, plus one between
  `wg.Add(1)` and the start, or for good once the dispatcher has given up;
* `NodesCounted`: what is in `nodeChan` and what has been received (for
  `TestAll`: is in the handler's hand or replied) are as many as `Sent`;
* `StartedInOrder`, `Selecting`, `Admitted`, `PastParser`, `AfterEof`: where
  the goroutines and the dispatcher can stand together.

The properties then are facts about finite sets of goroutines. A goroutine that
has yet to send is outside `Sent`, so `Sent` is smaller than the batch and the
channel has room. When `wg` is zero `Testing` is empty, so all goroutines have
sent if links parse, and what has not been received is in the channel.

A step of `testOne` is the same for both dispatchers. `TestOneProofs` shows
once that each of its 17 actions is quiet, a send, or the deferred `wg.Done()`,
and that each keeps the slots and moves `wg` with `Testing` and the channel's
length with `Sent` (`WorkerStep`); each dispatcher adds its own actions.

*The contents of the report.* Counts say nothing of whose Node lies in the
channel. `Measured` ties the Node a goroutine is building to its place in
`testOne` and to its traffic. `Ledger` names the senders: there is a function from the
positions of the channel to goroutines, injective, each position holding the
Node of its sender, and the goroutines sent but not in it, those collected, are
the ones `summary` and `nodes` speak of. A send extends the function, a
`Collect` takes its first value off. When `run` returns the channel is empty and
all have sent, so the ledger is the report. `TestAll` orders its Nodes, replies
before the hand before the channel, as one sequence `Flow`; `FlowFaithful` says
that it has no id twice and holds Nodes as their goroutines sent them. Only the
send lengthens it, every other step moves its parts.

*The refinements.* A test of `Batch` is queued, running or finished as `pc[i]`
is before, in or after `testOne` (`batchStatus`); its result is the Node sent,
`batchReport` what `nodes` holds under the ids once `run` has returned. `Spawn`
is the abstract start, which is in order by `StartedInOrder` and within the
limit by `CountInv`; the step of `wg.Done()` is the end; `Return` is the completion, for which `Ledger` supplies the report;
`GiveUp` abandons; every other step changes nothing that the mapping shows.

The results of `Stream` are `Flow`, and what the client was told is the length of
`replies`, its first part. So only the send of a goroutine finds a result, and by
`FlowFaithful` the test had none before; the handler's receive is unseen, its reply
tells the Node in its hand, a failed send leaves that one untold. When the handler
returns it has counted `LinksCount` replies with different ids, so each link is
among them.

*The phase.* `BytesConserved` is inductive with the types. The verdict needs
`Verdicts`, which ties the loop's maximum and return value to its total and the
consumer's maximum to its sum: a return value of zero means a total of zero,
conservation bounds the consumer's sum by the total. `Endings` orders the ends:
the channel is closed by the loop's return, the consumer ends before
`runSpeedPhase`, and it has emptied a closed channel unless the caller
cancelled. It also says that a loop that has not started has spent no second,
without which a node could be past `DeadAfter` before its first tick.

*The library.* Of `Tester`, `Started` counts with `wg` the workers started and
not gone, `Delivery` says that a result sent is in the channel, once, or in its
place, and that a channel closed without a cancellation has no worker left;
`Progress` gives what a Result holds at each step, from which it agrees with the
mode. Of `DownloadRange`, a reported byte is a pair of worker and position, so
that the caller's sum is the cardinality of a set and no sum over workers is
needed; `Worked` bounds each worker by its range, `Ranges` says that the ranges
are `calcRange`'s, whose blocks meet without overlap by integer division. Of
`IpInfo`, `Merged` says that what is known is the merge of what all
providers said, and `Told` that page and picture hear the same of it.

*The network.* `DialSafe` alone is not inductive: it says nothing of a result
that is still on its way. `RacerOK` says what a racer's result is at each of
its steps, `CallOK` that the caller has seen exactly the racers that ended
while it waited, and that a racer still running when it has returned has lost
to the other one (`RacerRuns`). `XraySafe` is inductive with the types and the
owner's never dialing: whoever finds the mutex free knows that nobody dials. Of
`Dns`, `StillAsked` says that a race without a winner still asks every server
that has not failed, and `WaitersWait` that the waiters of an exchange are
exactly the askers that wait, so that its end forgets none.

*The cache.* `LruSafe` needs only the types and that a reader holds an entry. The
work is in `Keep`: a sweep and a deletion leave some entries of the list, in
their order, and the index loses exactly those that left; moving an entry to the
back loses none; and as each key has at most one entry, the index bounds the list.
That an entry can be found for a new key follows from counting: list and readers
together hold fewer than there are.

*The messages.* `LineTellsResult` compares a line, made from messages, with a
result, which the progress writer never sees. `MsgInv` says what connects them
while a node is on its way: its messages still to be sent are `InOrder`, and what
the writer knows together with what it has yet to hear is the result (`Pinged`,
`Fast`), so that nothing is missing when `endone` comes. `Fast` is an equivalence:
the speed that is heard last, whether it is on its way or known already, is a
number if and only if the Node has an average, because the last average told is
the Node's, and "N/A" follows only a phase of no bytes. Both directions of the
line rest on it; the exception is a sum above 0 with an average of 0. That every node is known
by then needs that nobody reports before the last chunk; and the counter is the
cardinality of the nodes with nothing left to send, a subset of those announced.

*The page.* `SessionInv` says of each run that its connection carries its own
messages only (`OwnConnection`): one request goes out, and back come the error
or the messages of the one test, nothing but `endone` after `eof`. A run that is
over is `Silent`: its connection is closing, or nothing is on its way but
`endone`. Hence no earlier run can touch the rows of the last, and a page that
has gone idle hears nothing that would light it up. Both hold only while
`Undisturbed`, the histories that §3 excepts.

*The promise of the resolver.* A refinement step needs that a call's result was
said while it ran or before. `HistoryInv` ties what the races hold to `heard`
(`PostsHeard`: whatever a group has come to was said of its question;
`CacheHeard`: so was what the cache holds), and says that a question known when a
call began is in the cache still (`KnewStays`), because entries turn stale but
never leave. A literal asks nothing (`LiteralsAlone`), and who asked for a name
holds what was said of it (`NamesHeard`). Every step of `Dns` then says something,
learns a question, begins, ends, or changes nothing that the mapping shows.

*The conversions.* Their inductive invariants say where the state comes from:
the options are those of the request or command (`OptInv`), the links those of a
text that the first one leads to (`SubInv`), the written files those of a plan
(`OutInv`), the outbound that of the node (`LinkInv`). The work lies in what
the operators yield for every input:

* `OutputSafe` rests on `SoundPlan`, a description of the targets without the loop
  that makes them: every format that was asked for has one, the named file is the
  first data format's, and no two data formats share a place but `text` and `table`. Formats asked for twice, and nodes that no output
  lists, go through `Selections`: a selection is in order, without repetition,
  and a selection of a selection is one.
* `SubscriptionSafe` rests on the same lemmas, since every source keeps some of the
  lines it holds: a link that comes out was in the text, and the sources differ
  only in what they keep.
* `OptionSafe` needs that links and groups, flattened from the subscriptions by
  two folds, stay aligned (`FlattenAligned`), and that the merge of headers
  leaves each name once, with its last value (`MergedOnce`).
* `LinkSafe` goes parser by parser. Each gives a `SoundConfig`, one that has an
  address or a tag, the secrets of its protocol, and TLS or reality settings if
  that is its security and not otherwise, from which `OneSecurity`
  and `RowTellsOutbound` follow; `NothingLost` from what the stream
  shows of its source, security (`SecurityShown`) and transport
  (`TransportShown`) apart; `ClashAlike` from comparing the leaves of two
  outbounds part by part, settings, security and transport, each equal but for
  the values that `ClashGaps` names.

Where a fact about a fold or a recursive function needs an induction, the proof
takes the least counterexample of a set of numbers (`LeastIndex`, from the
well-foundedness of `<`), because the library's induction theorems take an operator.
The four are not invariants of the run `convert`, where they would double its
time; TLC has checked them apart, on the instance of that run, without the part of
`OptInv` and `LinkInv` that says from which set an input was taken.

Out of the prover's reach, and left to TLC: everything under fairness
(`RunReturns`, `GoroutinesEnd`, `CallEnds`, `PhaseEnds`, `NetEnds`,
`PollersEnd`, `LoadingEnds`), because it rests on ENABLED. Every invariant, action
property and refinement that a passing run checks is stated by a theorem.

## 5. What is not modelled

* In `run`: the early return for an empty list. In phases: `startCh`
  and `trafficChan`, which every caller passes as nil.
* Pictures and their arrival at the page; the live meters' animation, selection
  and layout; the stateless HTTP endpoints.
* Writes to the WebSocket are taken as instantaneous; in the code they serialise
  on `p.mu` and have no deadline, so that a client that stops reading stalls all
  nodes. Fetching a subscription inside the read loop is one step for the same reason.
* In the cache: `CloneTo` and `Exist`, which nothing calls, and the eviction
  callback, which nobody sets. Among links: an `ss://` link that is base64
  throughout.
* What libraries do: xray-core, gRPC, the WebSocket and DNS codecs, HTTP.
* Buffer pools (buffers are written and not read), `RewindReader`, statistics,
  the structure decoder and the SOCKS5 codec, which the program's tests do not use;
  drawing; generated code.

## 6. Plan

Pictures in `WebSession`: `picdata` of an earlier run behind the next start.
