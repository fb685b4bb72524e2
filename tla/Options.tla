------------------------------ MODULE Options ------------------------------
(***************************************************************************)
(* What is to be tested, and how: a request of the web page                *)
(* (web/profile.go, web/server.go) or a command line (main.go,             *)
(* web/server.go, web/cmdoutput.go) becomes links with their groups and    *)
(* the options of the run.                                                 *)
(*                                                                         *)
(* A subscription, a link and the key under which two links are one node   *)
(* are model values; what a subscription yields is given.  "" is a blank.  *)
(* A command line is what stands before its positional argument, the       *)
(* argument, and what stands after it; flags are a function of the names   *)
(* that are given.                                                         *)
(***************************************************************************)
EXTENDS Integers, Sequences, FiniteSets, SequencesExt, Selections

CONSTANTS
  Requests, \* requests of the page to consider
  Commands, \* command lines to consider
  LinksOf,  \* subscription -> the links it yields, << >> when it cannot be had
  KeyOf     \* link -> the key of its node, "none" when it does not parse

\* What a request holds, and a command line with the configuration file.  A
\* header whose name is blank is passed over everywhere and left out here.
HeaderRecords == [name : STRING \ {""}, spelling : STRING, value : STRING]
FileRecords ==
  [readable : BOOLEAN, timeout : Int, concurrency : Int, threads : Int, mode : STRING, upload : BOOLEAN,
   url : STRING, size : STRING, downloadHeaders : Seq(HeaderRecords), uploadHeaders : Seq(HeaderRecords),
   direct : BOOLEAN, subscription : STRING]
ASSUME LinksAssumption == \A sub \in DOMAIN LinksOf : LinksOf[sub] \in Seq(DOMAIN KeyOf)
ASSUME RequestsAssumption ==
  \A m \in Requests :
    /\ "subscriptions" \in DOMAIN m /\ "positional" \notin DOMAIN m
    /\ m.subscriptions \in Seq([sub : DOMAIN LinksOf \cup {""}, group : STRING])
    /\ m.subscription \in DOMAIN LinksOf \cup {""} /\ m.links \in Seq(DOMAIN KeyOf)
    /\ m.timeout \in Int /\ m.concurrency \in Int /\ m.threads \in Int
    /\ m.retest \in BOOLEAN /\ m.direct \in BOOLEAN /\ m.unique \in BOOLEAN
ASSUME CommandsAssumption ==
  \A c \in Commands :
    /\ c = [before |-> c.before, positional |-> c.positional, after |-> c.after, file |-> c.file]
    /\ c.file \in FileRecords
    /\ \A flags \in {c.before, c.after} :
         /\ \A f \in DOMAIN flags \cap {"timeout", "concurrency", "threads"} : flags[f] \in Int
         /\ \A f \in DOMAIN flags \cap {"H", "dH", "uH"} : flags[f] \in Seq(HeaderRecords)

VARIABLES
  optStage,  \* "idle", "parsed", "refused", "testing", "printed" or "serving"
  optInput,  \* the request or the command line
  optLinks,  \* the links to test
  optGroups, \* their groups; << >> when the links have none of their own
  optOptions \* the options of the run

optionVars == <<optStage, optInput, optLinks, optGroups, optOptions>>

Second == 1000 \* nanoseconds; all that matters is that it exceeds LeastTimeout
LeastTimeout == 8
MaxThreads == 256
DirectLink == "direct"

Given(value, default) == IF value = "" THEN default ELSE value
AtLeast(n, least) == IF n < least THEN least ELSE n
Capped(threads) == IF threads > MaxThreads THEN MaxThreads ELSE threads

\* The first function where it is defined, the second one elsewhere.
Over(f, g) == [x \in DOMAIN f \cup DOMAIN g |-> IF x \in DOMAIN f THEN f[x] ELSE g[x]]

-----------------------------------------------------------------------------
\* Requests of the page.

hasSubscriptionInput(m) ==
  (\E i \in DOMAIN m.subscriptions : m.subscriptions[i].sub # "") \/ m.subscription # ""

\* The floor of the timeout is compared with nanoseconds.
RequestOptions(m) ==
  [timeout |-> AtLeast(m.timeout * Second, LeastTimeout), concurrency |-> AtLeast(m.concurrency, 1),
   threads |-> Capped(AtLeast(m.threads, 1)), uploadSize |-> Given(m.uploadSize, "cloudflare"),
   groupName |-> IF m.groupName = "?empty?" THEN "Default" ELSE Given(m.groupName, "Default"),
   direct |-> m.direct \/ (~m.retest /\ ~hasSubscriptionInput(m)),
   downloadHeaders |-> m.downloadHeaders, uploadHeaders |-> m.uploadHeaders, downloadSize |-> m.downloadSize]

\* An entry that is blank, fails or yields nothing is passed over.
Yielding(entries) == {i \in DOMAIN entries : entries[i].sub # "" /\ LinksOf[entries[i].sub] # << >>}
Usable(m) == At(m.subscriptions, Yielding(m.subscriptions))
EntryLinks(entries) == FlattenSeq([i \in DOMAIN entries |-> LinksOf[entries[i].sub]])
EntryGroups(entries) ==
  FlattenSeq([i \in DOMAIN entries |-> [j \in DOMAIN LinksOf[entries[i].sub] |-> entries[i].group]])

RequestLinks(m) ==
  CASE m.retest -> m.links
    [] ~m.retest /\ (m.direct \/ ~hasSubscriptionInput(m)) -> <<DirectLink>>
    [] ~m.retest /\ ~m.direct /\ hasSubscriptionInput(m) /\ m.subscriptions # << >> -> EntryLinks(Usable(m))
    [] OTHER -> LinksOf[m.subscription]
RequestGroups(m) ==
  IF m.retest \/ m.direct \/ ~hasSubscriptionInput(m) THEN << >> ELSE EntryGroups(Usable(m))

parseMessage(m) ==
  /\ optInput' = m
  /\ IF RequestLinks(m) = << >> /\ ~m.retest
     THEN optStage' = "refused" /\ UNCHANGED <<optLinks, optGroups, optOptions>>
     ELSE /\ optStage' = "parsed"
          /\ optLinks' = RequestLinks(m) /\ optGroups' = RequestGroups(m)
          /\ optOptions' = RequestOptions(m)

\* The filter of the option Unique: the first link of each node stays, a link
\* that does not parse goes.
FirstOfNode(links) ==
  {i \in DOMAIN links : KeyOf[links[i]] # "none" /\ \A j \in 1 .. i - 1 : KeyOf[links[j]] # KeyOf[links[i]]}
Kept(m, links) == IF m.unique THEN FirstOfNode(links) ELSE DOMAIN links
GroupsOf(links, groups) == [i \in DOMAIN links |-> IF i \in DOMAIN groups THEN groups[i] ELSE ""]

\* As Filter, with the groups left as they are.
FilterLinks ==
  /\ optStage = "parsed"
  /\ optStage' = "testing"
  /\ optLinks' = At(optLinks, Kept(optInput, optLinks))
  /\ UNCHANGED <<optInput, optOptions, optGroups>>

Filter ==
  /\ optStage = "parsed"
  /\ optStage' = "testing"
  /\ optLinks' = At(optLinks, Kept(optInput, optLinks))
  /\ optGroups' = IF optGroups = << >> THEN << >> ELSE At(GroupsOf(optLinks, optGroups), Kept(optInput, optLinks))
  /\ UNCHANGED <<optInput, optOptions>>

groupFor(i) ==
  IF i \in DOMAIN optGroups /\ optGroups[i] # "" THEN optGroups[i] ELSE optOptions.groupName

-----------------------------------------------------------------------------
\* Headers.  A name is spelled in several ways, which net/http makes one.

\* The headers by name as spelled, the last one of a spelling counting.
HeaderMap(list) ==
  [key \in {<<list[i].name, list[i].spelling>> : i \in DOMAIN list} |->
     list[SelectLastInSeq(list, LAMBDA h : <<h.name, h.spelling>> = key)].value]

IdentityHeader == [key \in {<<"accept-encoding", "canonical">>} |-> "identity"]
requestHeaders(list, size, isDownload) ==
  Over(IF size = "worker" /\ isDownload THEN IdentityHeader ELSE << >>, HeaderMap(list))

\* The values that a name may be sent with: the map has no order, and a blank
\* value is not set.
applyHeaders(headers) ==
  [name \in {key[1] : key \in DOMAIN headers} |->
     {headers[key] : key \in {k \in DOMAIN headers : k[1] = name /\ headers[k] # ""}}]

\* A header takes the place of an earlier one of its name.
Merge(merged, header) ==
  LET i == SelectInSeq(merged, LAMBDA h : h.name = header.name) IN
  IF i = 0 THEN Append(merged, header) ELSE [merged EXCEPT ![i] = header]
mergeHeaderLists(list) ==
  LET merged[n \in 0 .. Len(list)] == IF n = 0 THEN << >> ELSE Merge(merged[n - 1], list[n]) IN merged[Len(list)]

\* A preset that is not known is Cloudflare's, one's own address goes first.
DownloadPresets == {"cloudflare", "hetzner-de", "hetzner-us", "linode-jp", "vultr-sg", "ovh-eu",
                    "datapacket-us", "huawei-cn", "worker"}
UploadPresets == {"cloudflare", "dlptest", "worker", "cdn"}
GetDownloadURL(size, url) == Given(url, IF size \in DownloadPresets THEN size ELSE "cloudflare")
GetUploadURL(size, url) == Given(url, IF size \in UploadPresets THEN size ELSE "cloudflare")
GetUploadProfile(size) == IF size = "cdn" THEN "PUT" ELSE "POST"

-----------------------------------------------------------------------------
\* Command lines.

FlagDefaults ==
  [test |-> "", direct |-> FALSE, grpc |-> FALSE, v |-> FALSE, timeout |-> 16, concurrency |-> 2, threads |-> 1,
   mode |-> "all", upload |-> "unset", url |-> "", size |-> "", H |-> << >>, dH |-> << >>, uH |-> << >>, p |-> 8090]
HeaderFlags == {"H", "dH", "uH"} \* repeatable: what is given later is added

\* flag.Parse stops at the positional argument, and goes on behind a link.
LinkGiven(c) == IF c.positional.kind = "link" THEN c.positional.text ELSE ""
Later(c) == IF c.positional.kind = "link" THEN c.after ELSE << >>
FlagsOf(c) ==
  LET all == Over(Later(c), Over(c.before, FlagDefaults))
      Of(flags, h) == IF h \in DOMAIN flags THEN flags[h] ELSE << >>
  IN  [f \in DOMAIN FlagDefaults |-> IF f \in HeaderFlags THEN Of(c.before, f) \o Of(Later(c), f) ELSE all[f]]

\* main: what is done, and for a test with which subscription.
Dispatch(c) ==
  LET f == FlagsOf(c)
      link == LinkGiven(c)
  IN  CASE f.v -> [what |-> "version"]
        [] ~f.v /\ f.test # "" -> [what |-> "test", subscription |-> f.test]
        [] ~f.v /\ f.test = "" /\ f.direct /\ link = "" -> [what |-> "test", subscription |-> DirectLink]
        [] ~f.v /\ f.test = "" /\ ~(f.direct /\ link = "") /\ f.grpc -> [what |-> "grpc", port |-> f.p]
        [] ~f.v /\ f.test = "" /\ ~f.grpc /\ link # "" -> [what |-> "test", subscription |-> link]
        [] OTHER -> [what |-> "web",
                     port |-> IF c.before = << >> /\ c.positional.kind = "none" THEN 10888 ELSE f.p]

\* The options without a configuration file, and what a file makes of them; a
\* file that cannot be read or parsed is as none.
NoFile ==
  [readable |-> FALSE, timeout |-> 15, concurrency |-> 2, threads |-> 0, mode |-> "all", upload |-> FALSE,
   url |-> "", size |-> "", downloadHeaders |-> << >>, uploadHeaders |-> << >>, direct |-> FALSE,
   subscription |-> "none"]
readConfig(file) ==
  [file EXCEPT !.timeout = AtLeast(@, LeastTimeout) * Second, !.concurrency = AtLeast(@, 1)]

\* Text of several lines, which is neither an address to url.Parse nor a file,
\* leaves the subscription that the configuration file names.
SubscriptionOf(base, subscription) ==
  IF subscription = "lines" /\ base.readable THEN base.subscription ELSE subscription

\* The upload and the endpoints stay as in the file unless they are given.
CommandOptions(f, file, subscription) ==
  LET base == readConfig(IF file.readable THEN file ELSE NoFile) IN
  [timeout |-> IF f.timeout > 0 THEN f.timeout * Second ELSE base.timeout,
   concurrency |-> IF f.concurrency > 0 THEN f.concurrency ELSE base.concurrency,
   threads |-> IF f.threads > 0 THEN Capped(f.threads) ELSE base.threads,
   mode |-> IF f.mode \in {"pingonly", "speedonly"} THEN f.mode ELSE "all",
   upload |-> IF f.upload = "unset" THEN base.upload ELSE f.upload = "true",
   url |-> Given(f.url, base.url), downloadSize |-> Given(f.size, base.size),
   downloadHeaders |-> mergeHeaderLists(base.downloadHeaders \o f.H \o f.dH),
   uploadHeaders |-> mergeHeaderLists(base.uploadHeaders \o f.H \o f.uH),
   groupName |-> "Default", direct |-> SubscriptionOf(base, subscription) = DirectLink \/ base.direct,
   subscription |-> SubscriptionOf(base, subscription)]

TestFromCMD(c) ==
  /\ Dispatch(c).what = "test"
  /\ optInput' = c
  /\ optOptions' = CommandOptions(FlagsOf(c), c.file, Dispatch(c).subscription)
  /\ optLinks' = LinksOf[optOptions'.subscription]
  /\ optStage' = IF optLinks' = << >> THEN "refused" ELSE "testing"
  /\ UNCHANGED optGroups

\* -v, the gRPC server and the web server.
Serve(c) ==
  /\ Dispatch(c).what # "test"
  /\ optInput' = c
  /\ optStage' = IF Dispatch(c).what = "version" THEN "printed" ELSE "serving"
  /\ UNCHANGED <<optLinks, optGroups, optOptions>>

OptionInit ==
  /\ optStage = "idle" /\ optInput = [retest |-> FALSE]
  /\ optLinks = << >> /\ optGroups = << >> /\ optOptions = << >>

OptionNext ==
  \/ /\ optStage = "idle"
     /\ \/ \E m \in Requests : parseMessage(m)
        \/ \E c \in Commands : TestFromCMD(c) \/ Serve(c)
  \/ Filter

OptionSpec == OptionInit /\ [][OptionNext]_optionVars

-----------------------------------------------------------------------------

\* The inductive invariant: what is tested is made of one request, filtered, or
\* of one command line.
OptInv ==
  /\ optStage \in {"idle", "parsed", "refused", "testing", "printed", "serving"}
  /\ optStage = "parsed" =>
       /\ optInput \in Requests /\ optOptions = RequestOptions(optInput)
       /\ optLinks = RequestLinks(optInput) /\ optGroups = RequestGroups(optInput)
  /\ optStage = "testing" =>
       \/ LET links == RequestLinks(optInput)
              groups == RequestGroups(optInput)
          IN  /\ optInput \in Requests /\ optOptions = RequestOptions(optInput)
              /\ optLinks = At(links, Kept(optInput, links))
              /\ optGroups = IF groups = << >> THEN << >> ELSE At(GroupsOf(links, groups), Kept(optInput, links))
       \/ /\ optInput \in Commands /\ Dispatch(optInput).what = "test"
          /\ optOptions = CommandOptions(FlagsOf(optInput), optInput.file, Dispatch(optInput).subscription)

FromPage == optStage = "testing" /\ "subscriptions" \in DOMAIN optInput
FromCommand == optStage = "testing" /\ "positional" \in DOMAIN optInput

\* Each link is shown under the group of an entry that has it, whatever entries
\* fail and whatever links the filter takes out before it; of several entries
\* that have its node, under the first.
GroupsAligned ==
  FromPage /\ optGroups # << >> =>
    \A i \in DOMAIN optLinks : \E k \in DOMAIN Usable(optInput) :
      LET entry == Usable(optInput)[k] IN
      /\ optLinks[i] \in ToSet(LinksOf[entry.sub])
      /\ groupFor(i) = Given(entry.group, optOptions.groupName)
      /\ optInput.unique => \A l \in 1 .. k - 1 : \A link \in ToSet(LinksOf[Usable(optInput)[l].sub]) :
                               KeyOf[link] # KeyOf[optLinks[i]]

\* The filter leaves one link of every node that can be parsed, in the order
\* of the request, and no other.
UniqueKeepsEach ==
  FromPage /\ optInput.unique =>
    /\ \A i, j \in DOMAIN optLinks : KeyOf[optLinks[i]] = KeyOf[optLinks[j]] => i = j
    /\ {KeyOf[link] : link \in ToSet(optLinks)}
         = {KeyOf[link] : link \in ToSet(RequestLinks(optInput))} \ {"none"}

\* A run never starts with no workers, no threads, too many threads or without
\* a timeout; the floor in nanoseconds never changes a timeout that was asked
\* for.  (A number of threads in a configuration file is not capped.)
WithinBounds ==
  /\ FromPage => optOptions.threads \in 1 .. MaxThreads
  /\ FromCommand /\ FlagsOf(optInput).threads > 0 => optOptions.threads \in 1 .. MaxThreads
  /\ optStage = "testing" => optOptions.concurrency >= 1 /\ optOptions.timeout >= LeastTimeout
  /\ FromPage /\ optInput.timeout > 0 => optOptions.timeout = optInput.timeout * Second

GivenHeaders(c, down) ==
  (IF ~c.file.readable THEN << >> ELSE IF down THEN c.file.downloadHeaders ELSE c.file.uploadHeaders)
  \o FlagsOf(c).H \o (IF down THEN FlagsOf(c).dH ELSE FlagsOf(c).uH)
LastNamed(headers, name) == headers[SelectLastInSeq(headers, LAMBDA h : h.name = name)]
SentHeaders(down) ==
  applyHeaders(requestHeaders(IF down THEN optOptions.downloadHeaders ELSE optOptions.uploadHeaders,
                              optOptions.downloadSize, down))

\* Every name goes out with the value given last - in the file, then for both
\* directions, then for this one - however it is spelled, and not at all when
\* that value is blank.  Only the header that a worker's download adds may
\* clash with one of the user's in another spelling.
HeaderPriority ==
  FromCommand =>
    \A down \in BOOLEAN :
      \A name \in {header.name : header \in ToSet(GivenHeaders(optInput, down))} :
        IF down /\ optOptions.downloadSize = "worker" /\ name = "accept-encoding"
        THEN "identity" \in SentHeaders(down)[name]
        ELSE SentHeaders(down)[name] = {LastNamed(GivenHeaders(optInput, down), name).value} \ {""}

\* "flags after the link count as well": what stands behind a link says the same
\* as in front of it, unless it is said twice.
FlagsAnywhere ==
  FromCommand /\ optInput.positional.kind = "link" /\ DOMAIN optInput.before \cap DOMAIN optInput.after = {} =>
    FlagsOf(optInput) = FlagsOf([optInput EXCEPT !.before = Over(optInput.before, optInput.after), !.after = << >>])

\* A command tests the subscription or the link that it names, -direct only
\* when it names neither; what the file says of the endpoint and the upload
\* holds unless the command says otherwise.
CommandObeyed ==
  FromCommand =>
    LET c == optInput
        f == FlagsOf(c)
        named == IF f.test # "" THEN f.test ELSE LinkGiven(c)
    IN  /\ named = "" => f.direct /\ optOptions.subscription = DirectLink
        /\ named \notin {"", "lines"} => optOptions.subscription = named
        /\ f.upload # "unset" => optOptions.upload = (f.upload = "true")
        /\ f.upload = "unset" => optOptions.upload = (c.file.readable /\ c.file.upload)
        /\ f.size = "" => GetDownloadURL(optOptions.downloadSize, optOptions.url)
                           = IF f.url # "" THEN f.url
                             ELSE IF c.file.readable THEN GetDownloadURL(c.file.size, c.file.url) ELSE "cloudflare"

\* What is tested is what the page or the command line asked for.
OptionSafe ==
  GroupsAligned /\ UniqueKeepsEach /\ WithinBounds /\ HeaderPriority /\ FlagsAnywhere /\ CommandObeyed
=============================================================================
