------------------------------- MODULE MCNet -------------------------------
(***************************************************************************)
(* The library's tester and the concurrent parts of the network below the  *)
(* tests, side by side: in each behaviour one of them moves and the others *)
(* stay as they began, so that the states are the sum of theirs.           *)
(***************************************************************************)
EXTENDS Tester, DualStack, MCDns, XrayDialer, DownloadRange, IpInfo

VARIABLE suite \* the one that moves

\* What does not move is in one state only.
NetInit ==
  /\ suite \in {"tester", "dual", "dns", "xray", "range", "ip"}
  /\ Init /\ (suite = "tester" \/ mode = "all")
  /\ HistoryInit /\ (suite = "dns" \/ servers["fallback"] = {})
  /\ DialInit /\ XrayInit /\ DrInit /\ IpInit

NetNext ==
  /\ UNCHANGED suite
  /\ \/ suite = "tester" /\ Next /\ UNCHANGED <<dialVars, historyVars, xrayVars, drVars, ipVars>>
     \/ suite = "dual" /\ DialNext /\ UNCHANGED <<vars, historyVars, xrayVars, drVars, ipVars>>
     \/ suite = "dns" /\ HistoryNext /\ UNCHANGED <<vars, dialVars, xrayVars, drVars, ipVars>>
     \/ suite = "xray" /\ XrayNext /\ UNCHANGED <<vars, dialVars, historyVars, drVars, ipVars>>
     \/ suite = "range" /\ DrNext /\ UNCHANGED <<vars, dialVars, historyVars, xrayVars, ipVars>>
     \/ suite = "ip" /\ IpNext /\ UNCHANGED <<vars, dialVars, historyVars, xrayVars, drVars>>

\* The tester runs from its first state, and is fair where it moves.  The others
\* have no fair action enabled before they are called: their fairness says
\* nothing where they do not move.
TesterFairness ==
  WF_vars(suite = "tester" /\ Running(Dispatcher \/ Sync \/ \E i \in Proxies : Worker(i)))

netVars == <<suite, vars, dialVars, historyVars, xrayVars, drVars, ipVars>>
NetSpec ==
  /\ NetInit /\ [][NetNext]_netVars
  /\ TesterFairness /\ DialFairness /\ DnsFairness /\ XrayFairness /\ DrFairness /\ IpFairness

\* Whatever is called returns, and what it started ends, so that each part comes
\* to rest whenever it is left alone: TestSync (unless the process has died), a
\* dual dial with its racers, the DNS calls with their refreshes, the dials
\* through xray and the Close, a range download, the lookup of the public
\* addresses with the picture that waits for it.
NetEnds ==
  []<>(/\ suite = "tester" => rpc = "returned" \/ panicked # "no"
       /\ DialAtRest /\ DnsAtRest /\ XrayAtRest /\ DrAtRest /\ IpAtRest)
=============================================================================
