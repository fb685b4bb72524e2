------------------------------- MODULE IpInfo -------------------------------
(***************************************************************************)
(* web: the public addresses of the testing machine.  A test that draws a  *)
(* picture starts startIPFetch: for each address family every provider is  *)
(* asked at once, and what they say is merged in the order of the          *)
(* providers.  The answer goes to the page as an ipinfo message, and into  *)
(* the footer of the picture, which waits for it 3 seconds at most.        *)
(***************************************************************************)
EXTENDS Naturals, FiniteSets, FiniteSetsExt

CONSTANT Providers \* positions in the list of providers

Networks == {"tcp4", "tcp6"}
Fields == {"geo", "isp"} \* Country, Region and City go together
Unknown == 0             \* no provider: the field is empty

ASSUME ProvidersAssumption == Providers \subseteq Nat \ {Unknown} /\ IsFiniteSet(Providers)

\* What a fetch gives: an error, the address of the other family, or an
\* address of this family and the fields that are not empty.
Fetched == [answer : {"failed", "mismatch"}, fields : {{}}] \cup [answer : {"info"}, fields : SUBSET Fields]
Pending == [answer |-> "pending", fields |-> {}]

VARIABLES
  ipFetch,   \* the goroutine of startIPFetch: "off", "asking", "set", "closed" (ipDone)
  ipResult,  \* results: what each provider has said, for each family
  ipMerged,  \* fetchPublicIP's accumulator once it has returned: field -> provider
  ipKnown,   \* p.ipV4 and p.ipV6
  ipMessage, \* the families in the ipinfo message, once it is written
  ipPicture  \* the picture: "none", "waiting", "drawn"; and its lines

ipVars == <<ipFetch, ipResult, ipMerged, ipKnown, ipMessage, ipPicture>>

Nothing == [f \in Fields \cup {"ip"} |-> Unknown]

IpInit ==
  /\ ipFetch = "off"
  /\ ipResult = [n \in Networks |-> [i \in Providers |-> Pending]]
  /\ ipMerged = [n \in Networks |-> Nothing]
  /\ ipKnown = [n \in Networks |-> Nothing]
  /\ ipMessage = [written |-> FALSE, families |-> {}]
  /\ ipPicture = [pc |-> "none", timeout |-> FALSE, lines |-> {}]

\* shouldFetchIP: a picture will be drawn.  Without one nothing is asked.
startIPFetch ==
  /\ ipFetch = "off"
  /\ ipFetch' = "asking"
  /\ UNCHANGED <<ipResult, ipMerged, ipKnown, ipMessage, ipPicture>>

-----------------------------------------------------------------------------
\* fetchPublicIP in one family.

\* familyMatch: a result of the other family is dropped.
Has(info, f) == info.answer = "info" /\ (f = "ip" \/ f \in info.fields)

\* As Merge, with the last provider first.
MergeLast(results) ==
  [f \in Fields \cup {"ip"} |->
    LET having == {i \in Providers : Has(results[i], f)} IN IF having = {} THEN Unknown ELSE Max(having)]

\* merge: in the order of the providers, a field is filled if it is empty.
Merge(results) ==
  [f \in Fields \cup {"ip"} |->
    LET having == {i \in Providers : Has(results[i], f)} IN IF having = {} THEN Unknown ELSE Min(having)]

\* A provider has answered, or failed, or run into the 3 seconds of its client
\* or the 8 seconds of FetchBoth.  The last one ends wg.Wait.
ProviderFetched(n, i, info) ==
  /\ ipFetch = "asking" /\ ipResult[n][i] = Pending
  /\ ipResult' = [ipResult EXCEPT ![n][i] = info]
  /\ ipMerged' = IF \E j \in Providers : ipResult'[n][j] = Pending THEN ipMerged
                 ELSE [ipMerged EXCEPT ![n] = Merge(ipResult'[n])]
  /\ UNCHANGED <<ipFetch, ipKnown, ipMessage, ipPicture>>

\* FetchBoth has returned: both families are done.
SetKnown ==
  /\ ipFetch = "asking" /\ \A n \in Networks, i \in Providers : ipResult[n][i] # Pending
  /\ ipKnown' = ipMerged
  /\ ipFetch' = "set"
  /\ UNCHANGED <<ipResult, ipMerged, ipMessage, ipPicture>>

Known(table) == {n \in Networks : table[n]["ip"] # Unknown}

\* The ipinfo message, if any family is known; then close(ipDone).
WriteIpInfo ==
  /\ ipFetch = "set"
  /\ ipMessage' = IF Known(ipKnown) = {} THEN ipMessage ELSE [written |-> TRUE, families |-> Known(ipKnown)]
  /\ ipFetch' = "closed"
  /\ UNCHANGED <<ipResult, ipMerged, ipKnown, ipPicture>>

-----------------------------------------------------------------------------
\* renderPic or savePic, when all nodes are tested.

RenderPic ==
  /\ ipPicture.pc = "none" /\ ipFetch # "off"
  /\ ipPicture' = [ipPicture EXCEPT !.pc = "waiting"]
  /\ UNCHANGED <<ipFetch, ipResult, ipMerged, ipKnown, ipMessage>>

\* ipInfoLines: wait for ipDone or for 3 seconds, then take what is known.
IpInfoLines ==
  /\ ipPicture.pc = "waiting"
  /\ \E timeout \in BOOLEAN :
       /\ timeout \/ ipFetch = "closed"
       /\ ipPicture' = [pc |-> "drawn", timeout |-> timeout, lines |-> Known(ipKnown)]
  /\ UNCHANGED <<ipFetch, ipResult, ipMerged, ipKnown, ipMessage>>

IpNext ==
  \/ startIPFetch \/ SetKnown \/ WriteIpInfo \/ RenderPic \/ IpInfoLines
  \/ \E n \in Networks, i \in Providers, info \in Fetched : ProviderFetched(n, i, info)

\* Every fetch ends within its timeout; goroutines and the renderer run.
IpFairness ==
  WF_ipVars(\/ SetKnown \/ WriteIpInfo \/ IpInfoLines
            \/ \E n \in Networks, i \in Providers, info \in Fetched : ProviderFetched(n, i, info))

IpSpec == IpInit /\ [][IpNext]_ipVars /\ IpFairness

-----------------------------------------------------------------------------

\* A known field comes from the first provider of the list that answered in
\* this family and has it, whatever the order in which they answered; a field
\* is empty only if nobody has it.
MergedByPriority ==
  \A n \in Networks, f \in Fields \cup {"ip"} : ipFetch \in {"set", "closed"} =>
    LET i == ipKnown[n][f] IN
    /\ i # Unknown => Has(ipResult[n][i], f) /\ \A j \in Providers : j < i => ~Has(ipResult[n][j], f)
    /\ i = Unknown => \A j \in Providers : ~Has(ipResult[n][j], f)

\* A picture that did not give up on the lookup shows the families that the
\* page was told of, and one that gave up shows either all of them or none.
PictureAgrees ==
  ipPicture.pc = "drawn" /\ ipFetch = "closed" =>
    /\ ~ipPicture.timeout => ipPicture.lines = ipMessage.families
    /\ ipPicture.lines \in {{}, ipMessage.families}

IpSafe == MergedByPriority /\ PictureAgrees

\* What makes them so: once a family's providers have all spoken its merge is
\* the one of what they said, and it is what is known after FetchBoth; the page
\* and the picture are told what is known.
IpTypeOK ==
  /\ ipFetch \in {"off", "asking", "set", "closed"}
  /\ ipResult \in [Networks -> [Providers -> Fetched \cup {Pending}]]
  /\ ipMerged \in [Networks -> [Fields \cup {"ip"} -> Providers \cup {Unknown}]]
  /\ ipKnown \in [Networks -> [Fields \cup {"ip"} -> Providers \cup {Unknown}]]
  /\ ipMessage \in [written : BOOLEAN, families : SUBSET Networks]
  /\ ipPicture \in [pc : {"none", "waiting", "drawn"}, timeout : BOOLEAN, lines : SUBSET Networks]

Merged ==
  \A n \in Networks :
    /\ ipFetch \in {"off", "asking"} =>
         /\ ipKnown[n] = Nothing
         /\ (\A i \in Providers : ipResult[n][i] # Pending) => ipMerged[n] = Merge(ipResult[n])
    /\ ipFetch \in {"set", "closed"} => ipKnown[n] = Merge(ipResult[n])

Told ==
  /\ ipMessage.families = (IF ipFetch = "closed" THEN Known(ipKnown) ELSE {})
  /\ ipPicture.pc = "drawn" =>
       \/ ipFetch = "closed" /\ ipPicture.lines = Known(ipKnown)
       \/ ipPicture.timeout /\ ipPicture.lines \in {{}, Known(ipKnown)}

IpInv == IpTypeOK /\ Merged /\ Told

\* The lookup has ended and told the page of each known family, also when the
\* picture was drawn without it; and the picture is drawn.
IpAtRest ==
  /\ ipFetch # "off" => ipFetch = "closed" /\ ipMessage.families = Known(ipMerged)
  /\ ipPicture.pc # "waiting"
=============================================================================
