---------------------------- MODULE Subscription ----------------------------
(***************************************************************************)
(* web/profile.go ParseLinks: a text becomes the links to test.  The text  *)
(* is an address, a file, direct:// alone, lines of links, base64, a Clash *)
(* configuration, or something else; ParseLinks finds out which by trial.  *)
(* Beside it goes internal/parser's ParseSubscription, which does the same *)
(* job for the library.                                                    *)
(*                                                                         *)
(* A text is a record whose kind says what it is.  A link of a text has a  *)
(* scheme, and says whether it has a query or a fragment ("tail").         *)
(***************************************************************************)
EXTENDS Integers, Sequences, SequencesExt, Selections

CONSTANTS
  Texts, \* texts to begin with
  Web,   \* address -> [ok, yaml, text]: what can be fetched there
  Disk   \* path -> [yaml, big, text]: the files; big is more than 2048 bytes

\* What base64, an address and a file hold is a text as well.
LinkRecords == [scheme : STRING, tail : BOOLEAN]
ASSUME TextsAssumption ==
  /\ \A text \in Texts :
       /\ text.kind \in {"lines", "base64", "clash", "url", "path", "direct", "other"}
       /\ text.kind = "lines" => text.links \in Seq(LinkRecords)
       /\ text.kind = "base64" => text.inner \in Texts
       /\ text.kind = "clash" => text.nodes \in Seq(STRING)
       /\ text.kind = "url" => text.at \in DOMAIN Web
       /\ text.kind = "path" => text.at \in DOMAIN Disk
  /\ \A address \in DOMAIN Web : Web[address].text \in Texts
  /\ \A path \in DOMAIN Disk : Disk[path].text \in Texts

VARIABLES
  subText,  \* the text that ParseLinks was called with last
  subFirst, \* the text that it was called with first
  subStage, \* "idle", "parsing" or "done"
  subLinks, \* the links; << >> as well when there is an error
  subError  \* whether there is an error

subVars == <<subText, subFirst, subStage, subLinks, subError>>

Nothing == [kind |-> "none"]
IsUrl(text) == text.kind = "url"
IsFilePath(text) == text.kind = "path"
DecodeB64Succeeds(text) == text.kind = "base64" \* lines have colons, which are not base64
LinesIn(text) == IF text.kind = "lines" THEN text.links ELSE << >>

-----------------------------------------------------------------------------
\* What the regular expression regProfile finds in lines.  Of a Shadowrocket
\* link without a slash behind the port it takes the beginning.

ListedSchemes == {"vmess", "ssr", "vless", "ss", "trojan", "rocket"}
Cut(link) == IF link.scheme = "rocket" /\ ~link.tail THEN [link EXCEPT !.scheme = "cut"] ELSE link
Found(link) == link.scheme \in ListedSchemes /\ (link.scheme \in {"vless", "ss", "trojan"} => link.tail)

parseProfiles(text) ==
  LET lines == LinesIn(text)
      found == At(lines, {i \in DOMAIN lines : Found(lines[i])})
  IN  [i \in DOMAIN found |-> Cut(found[i])]

\* The words by which text is taken for lines: "vless://" contains "ss://".
HasLinks(text) == \E i \in DOMAIN LinesIn(text) : LinesIn(text)[i].scheme \in ListedSchemes

\* proxyToLink has no link for any node, so a Clash configuration has none.
proxyToLink(node) == ""
ParseClash(text) ==
  At([i \in DOMAIN text.nodes |-> proxyToLink(text.nodes[i])], {i \in DOMAIN text.nodes : proxyToLink(text.nodes[i]) # ""})

\* The outcome of a parser: links and an error.
Yields(links) == [links |-> links, error |-> FALSE]
Fails == [links |-> << >>, error |-> TRUE]

\* As parseBase64, with the text that is still encoded.
ParseEncoded(text) == IF DecodeB64Succeeds(text) THEN Yields(parseProfiles(text)) ELSE Fails

parseBase64(text) == IF DecodeB64Succeeds(text) THEN Yields(parseProfiles(text.inner)) ELSE Fails

\* YAML that is no Clash configuration is an error, but is then searched for
\* braces, of which text of the other kinds has none.
parseClash(text) == Yields(IF text.kind = "clash" THEN ParseClash(text) ELSE << >>)

parseFile(path) ==
  LET file == Disk[path]
      decoded == parseBase64(file.text)
  IN  CASE file.yaml -> parseClash(file.text)
        [] ~file.yaml /\ decoded.error /\ file.big /\ file.text.kind = "clash" -> parseClash(file.text)
        [] ~file.yaml /\ decoded.error /\ file.big /\ HasLinks(file.text) -> Yields(parseProfiles(file.text))
        [] OTHER -> decoded

\* The parsers in turn until one yields links; the last, parseFile, fails for a
\* text that is no path.
Tried(text) ==
  LET decoded == parseBase64(text) IN
  CASE parseProfiles(text) # << >> -> Yields(parseProfiles(text))
    [] parseProfiles(text) = << >> /\ decoded.links # << >> -> decoded
    [] parseProfiles(text) = << >> /\ decoded.links = << >> /\ parseClash(text).links # << >> -> parseClash(text)
    [] OTHER -> Fails

-----------------------------------------------------------------------------

Finish(outcome) ==
  /\ subStage' = "done"
  /\ subLinks' = outcome.links /\ subError' = outcome.error
  /\ UNCHANGED <<subText, subFirst>>

ParseLinks(text) ==
  /\ subStage' = "parsing" /\ subText' = text /\ subFirst' = text
  /\ UNCHANGED <<subLinks, subError>>

\* direct:// alone is its own link.
Direct == subStage = "parsing" /\ subText.kind = "direct" /\ Finish(Yields(<<[scheme |-> "direct", tail |-> FALSE]>>))

\* An address is fetched; base64 behind it is a text to parse anew.
getSubscriptionLinks ==
  /\ subStage = "parsing" /\ IsUrl(subText)
  /\ LET answer == Web[subText.at]
         text == answer.text
     IN  \/ ~answer.ok /\ Finish(Fails)
         \/ answer.ok /\ answer.yaml /\ Finish(parseClash(text))
         \/ /\ answer.ok /\ ~answer.yaml /\ DecodeB64Succeeds(text)
            /\ subText' = text.inner
            /\ UNCHANGED <<subStage, subFirst, subLinks, subError>>
         \/ answer.ok /\ ~answer.yaml /\ text.kind = "clash" /\ Finish(parseClash(text))
         \/ /\ answer.ok /\ ~answer.yaml /\ text.kind \notin {"base64", "clash"}
            /\ Finish(IF HasLinks(text) THEN Yields(parseProfiles(text)) ELSE Fails)

ReadFile == subStage = "parsing" /\ IsFilePath(subText) /\ Finish(parseFile(subText.at))

TryParsers == subStage = "parsing" /\ subText.kind \notin {"direct", "url", "path"} /\ Finish(Tried(subText))

SubInit == subText = Nothing /\ subFirst = Nothing /\ subStage = "idle" /\ subLinks = << >> /\ subError = FALSE

SubNext ==
  \/ subStage = "idle" /\ \E text \in Texts : ParseLinks(text)
  \/ Direct \/ getSubscriptionLinks \/ ReadFile \/ TryParsers

SubSpec == SubInit /\ [][SubNext]_subVars

-----------------------------------------------------------------------------
\* internal/parser: every link that one of its parsers can handle, and the
\* nodes of a Clash configuration; nothing at all is an error.

KnownSchemes == {"vmess", "rocket", "vless", "trojan", "ss", "wireguard", "http", "socks", "direct"}

LibraryLinks(text) ==
  CASE text.kind = "lines" -> At(text.links, {i \in DOMAIN text.links : text.links[i].scheme \in KnownSchemes})
    [] text.kind = "direct" -> <<[scheme |-> "direct", tail |-> FALSE]>>
    [] OTHER -> << >>
\* Content is Clash's by its name or by a word in it; base64 is taken off once.
LibraryContent(yaml, text) ==
  CASE text.kind = "clash" -> text.nodes
    [] text.kind # "clash" /\ yaml -> << >>
    [] text.kind = "base64" /\ ~yaml -> LibraryLinks(text.inner)
    [] OTHER -> LibraryLinks(text)

ParseSubscription(text) ==
  CASE text.kind = "url" -> IF Web[text.at].ok THEN LibraryContent(FALSE, Web[text.at].text) ELSE << >>
    [] text.kind = "path" -> LibraryContent(Disk[text.at].yaml, Disk[text.at].text)
    [] text.kind = "base64" -> LibraryLinks(text.inner)
    [] OTHER -> LibraryLinks(text)

-----------------------------------------------------------------------------

\* The text behind an address, a file and base64.
Source(text) ==
  CASE text.kind = "url" -> Web[text.at].text [] text.kind = "path" -> Disk[text.at].text [] OTHER -> text
Plain(text) == IF Source(text).kind = "base64" THEN Source(text).inner ELSE Source(text)

\* Links are listed whole, in the order of the text, and none twice that is not
\* there twice; the ones that are listed are ones the parsers know, but for
\* ssr:// and what a cut link has left.
AsListed(links, known) ==
  LET kept == At(links, {i \in DOMAIN links : links[i].scheme \notin {"ssr", "cut"}})
  IN  kept = At(known, {i \in DOMAIN known : known[i] \in ToSet(kept)})
NoneInvented == subStage = "done" /\ subLinks # << >> => AsListed(subLinks, ParseSubscription(subText))

\* Lines lead to the same links wherever they come from - typed, in base64, in
\* a file or behind an address - but for a file of at most 2048 bytes, where
\* only base64 is read, and one that calls itself YAML.
FromSource(text, outcome) ==
  \/ outcome.links = parseProfiles(Plain(text))
  \/ outcome.error /\ text.kind = "path" /\ ~Disk[text.at].big /\ Disk[text.at].text.kind = "lines"
  \/ outcome.error /\ text.kind = "url" /\ ~Web[text.at].ok
  \/ outcome.links = << >> /\ text.kind = "url" /\ Web[text.at].yaml
  \/ outcome.links = << >> /\ text.kind = "path" /\ Disk[text.at].yaml
SourceIrrelevant ==
  subStage = "done" /\ Plain(subFirst).kind = "lines" => FromSource(subFirst, [links |-> subLinks, error |-> subError])

\* Texts become the links they list.
SubscriptionSafe == NoneInvented /\ SourceIrrelevant

\* The inductive invariant: the text is the one that ParseLinks was called with
\* first, or has been found in base64 behind an address.
SubInv ==
  /\ subStage \in {"idle", "parsing", "done"}
  /\ subStage # "idle" =>
       /\ subFirst \in Texts /\ subText \in Texts
       /\ subText = subFirst \/ (subFirst.kind = "url" /\ Web[subFirst.at].ok /\ ~Web[subFirst.at].yaml
                                /\ (subText = Plain(subFirst) \/ Plain(subFirst).kind # "lines"))
  /\ SubscriptionSafe

\* "Support Clash configuration files": a configuration with nodes yields links,
\* at least from a file that is read as one, which has YAML in its name or more
\* than 2048 bytes.
ReadAsClash(file) == file.text.kind = "clash" /\ (file.yaml \/ file.big)
ClashYieldsLinks ==
  subStage = "done" /\ subText.kind = "path" /\ ReadAsClash(Disk[subText.at]) /\ Disk[subText.at].text.nodes # << >> =>
    subLinks # << >>
=============================================================================
