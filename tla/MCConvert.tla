----------------------------- MODULE MCConvert -----------------------------
(***************************************************************************)
(* The conversions and the cache side by side: in each behaviour one of    *)
(* them moves and the others stay as they began, so that the states are    *)
(* the sum of theirs.                                                      *)
(***************************************************************************)
EXTENDS LruCache, Links, Options, Messages, MCSubscription, MCOutput

VARIABLE convert \* the one that moves

-----------------------------------------------------------------------------
\* Links: every scheme with every network and security, given every parameter,
\* all but one, only one, or none; ports at the edges of 16 bits,
\* in JSON as numbers and as text.

Schemes == {"vmess", "rocket", "vless", "trojan", "ss", "wireguard", "http", "socks", "direct"}
Parameters ==
  {"user", "password", "fragment", "flow", "scy", "sni", "peer", "alpn", "fp", "allowInsecure", "pbk", "sid", "spx",
   "path", "host", "serviceName", "service-name", "mode", "header", "seed", "ed", "method", "2022", "nocolon",
   "publickey", "public-key", "presharedkey", "psk", "address", "local-address", "mtu", "reserved"}

\* Everything is given, or all but one, or one of all.
MCGiven == {Parameters, Parameters \ {"nocolon"}} \cup {Parameters \ {p, "nocolon"} : p \in Parameters} \cup {{p} : p \in Parameters} \cup {{}}

Node(scheme, type, security, given, port, spelling, alias) ==
  [scheme |-> scheme, type |-> type, security |-> security, given |-> given,
   port |-> port, spelling |-> spelling, alias |-> alias]

MCNodes ==
  {Node(s, t, x, g, 443, "lower", FALSE) :
     s \in {"vmess", "rocket", "vless", "trojan"},
     t \in {"", "tcp", "ws", "websocket", "grpc", "gun", "h2", "http", "kcp", "mkcp", "quic", "httpupgrade", "splithttp", "xhttp"},
     x \in {"none", "tls", "reality"}, g \in MCGiven}
  \cup {Node(s, "", x, g, 8080, "lower", FALSE) : s \in {"ss", "wireguard", "http", "socks", "direct"}, x \in {"none", "tls"}, g \in MCGiven}
  \cup {Node(s, "ws", "tls", g, port, spelling, alias) :
     s \in Schemes, g \in {{}, Parameters, {"porttext"}}, port \in {0, 1, 65535, 65536, 65979},
     spelling \in {"lower", "upper", "mixed"}, alias \in BOOLEAN}

-----------------------------------------------------------------------------
\* Options: entries that are blank, fail, share a node or hold junk; headers of
\* two spellings; flags before and behind a link.
Header(name, spelling, value) == [name |-> name, spelling |-> spelling, value |-> value]
HeaderLists ==
  {<< >>, <<Header("key", "a", "1")>>, <<Header("key", "b", "2")>>, <<Header("key", "a", "")>>,
   <<Header("key", "a", "3"), Header("accept-encoding", "canonical", "gzip")>>,
   <<Header("key", "a", "4"), Header("key", "b", "5"), Header("accept-encoding", "a", "br")>>}

MCLinksOf == [lines |-> <<"a", "b">>, one |-> <<"a", "junk">>, two |-> <<"c", "a2", "b">>, fails |-> << >>, direct |-> <<"direct">>]
MCKeyOf == [a |-> "a", a2 |-> "a", b |-> "b", c |-> "c", junk |-> "none", direct |-> "direct"]

Entries == {[sub |-> s, group |-> g] : s \in {"", "one", "two", "fails"}, g \in {"", "g1"}}
Request(timeout, concurrency, threads, retest, direct, subscriptions, subscription, group, unique) ==
  [timeout |-> timeout, concurrency |-> concurrency, threads |-> threads, retest |-> retest, direct |-> direct,
   subscriptions |-> subscriptions, subscription |-> subscription, groupName |-> group, unique |-> unique,
   links |-> <<"a", "b", "a2">>, uploadSize |-> "", downloadSize |-> "worker", downloadHeaders |-> << >>, uploadHeaders |-> << >>]
MCRequests ==
  {Request(16, 2, 1, retest, direct, subs, sub, "?empty?", unique) :
     retest \in BOOLEAN, direct \in BOOLEAN, unique \in BOOLEAN, sub \in {"", "one"},
     subs \in {<< >>} \cup {<<e>> : e \in Entries} \cup {<<e, f>> : e, f \in Entries}}
  \cup {Request(t, n, w, TRUE, FALSE, << >>, "", "g", FALSE) : t \in {-1, 0, 1, 7, 8}, n \in {-1, 0, 1}, w \in {0, 1, 256, 257}}

File(readable, threads, upload, url, size, headers, sub) ==
  [readable |-> readable, timeout |-> 0, concurrency |-> 0, threads |-> threads, mode |-> "pingonly", upload |-> upload,
   url |-> url, size |-> size, downloadHeaders |-> headers, uploadHeaders |-> headers, direct |-> FALSE, subscription |-> sub]
Positionals == {[kind |-> "none"], [kind |-> "link", text |-> "one"], [kind |-> "other"]}
Command(before, positional, after, file) == [before |-> before, positional |-> positional, after |-> after, file |-> file]
Switches ==
  {<< >>, "direct" :> TRUE, "test" :> "two", "test" :> "lines", "grpc" :> TRUE, "v" :> TRUE, "p" :> 1,
   [direct |-> TRUE, grpc |-> TRUE], [test |-> "one", direct |-> TRUE]}
FlagValues == {<< >>, "threads" :> 300, "threads" :> 0, "upload" :> "false", "upload" :> "true", "url" :> "u", [size |-> "ovh-eu", timeout |-> 0]}
Files == {File(r, t, u, url, "hetzner-de", << >>, "two") : r \in BOOLEAN, t \in {0, 9}, u \in BOOLEAN, url \in {"", "v"}}
MCCommands ==
  {Command(before @@ more, p, after, file) :
     before \in Switches, more \in FlagValues, p \in Positionals, after \in {<< >>, "upload" :> "true", "test" :> "two"}, file \in Files}
  \cup {Command([size |-> size, H |-> h, dH |-> d], [kind |-> "link", text |-> "one"],
                [uH |-> u, H |-> << >>, test |-> "two"], File(TRUE, 1, FALSE, "", "", list, "two")) :
          size \in {"", "worker"}, h \in HeaderLists, d \in HeaderLists, u \in HeaderLists, list \in HeaderLists}

-----------------------------------------------------------------------------
\* Messages: lists around the limits of the chunks.
MCLinkCounts == {1, 10, 200, 201, 219, 1019, 1020, 1101}

-----------------------------------------------------------------------------
ConvertInit ==
  /\ convert \in {"cache", "links", "options", "subscription", "output", "messages"}
  /\ LruInit /\ LinkInit /\ OptionInit /\ SubInit /\ OutInit /\ MsgInit

ConvertNext ==
  /\ UNCHANGED convert
  /\ \/ convert = "cache" /\ LruNext /\ UNCHANGED <<linkVars, optionVars, subVars, outVars, msgVars>>
     \/ convert = "links" /\ LinkNext /\ UNCHANGED <<lruVars, optionVars, subVars, outVars, msgVars>>
     \/ convert = "options" /\ OptionNext /\ UNCHANGED <<lruVars, linkVars, subVars, outVars, msgVars>>
     \/ convert = "subscription" /\ SubNext /\ UNCHANGED <<lruVars, linkVars, optionVars, outVars, msgVars>>
     \/ convert = "output" /\ OutNext /\ UNCHANGED <<lruVars, linkVars, optionVars, subVars, msgVars>>
     \/ convert = "messages" /\ MsgNext /\ UNCHANGED <<lruVars, linkVars, optionVars, subVars, outVars>>

ConvertSpec == ConvertInit /\ [][ConvertNext]_<<convert, lruVars, linkVars, optionVars, subVars, outVars, msgVars>>
=============================================================================
