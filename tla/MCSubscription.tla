--------------------------- MODULE MCSubscription ---------------------------
(***************************************************************************)
(* Instances of Subscription for TLC: two links of every pair of schemes,  *)
(* Clash files and other texts; each typed, in base64, in small and large  *)
(* files and behind addresses that answer or fail, named YAML or not.      *)
(***************************************************************************)
EXTENDS Subscription

LinkOf(scheme, tail) == [scheme |-> scheme, tail |-> tail]
MCLines ==
  {[kind |-> "lines", links |-> <<LinkOf(s, t), LinkOf(u, TRUE)>>] :
     s \in {"vmess", "rocket", "vless", "ss", "ssr", "wireguard", "direct"},
     u \in {"vmess", "rocket", "trojan", "ssr", "wireguard", "socks", "http", "direct"}, t \in BOOLEAN}
MCPlain == MCLines \cup {[kind |-> "clash", nodes |-> <<"n1", "n2">>], [kind |-> "clash", nodes |-> << >>], [kind |-> "other"], [kind |-> "direct"]}
MCContents == MCPlain \cup {[kind |-> "base64", inner |-> t] : t \in MCPlain}
MCWeb ==
  [at \in {[c |-> c, ok |-> ok, yaml |-> y] : c \in MCContents, ok \in BOOLEAN, y \in BOOLEAN} |->
     [ok |-> at.ok, yaml |-> at.yaml, text |-> at.c]]
MCDisk ==
  [at \in {[c |-> c, big |-> b, yaml |-> y] : c \in MCContents, b \in BOOLEAN, y \in BOOLEAN} |->
     [big |-> at.big, yaml |-> at.yaml, text |-> at.c]]
MCTexts ==
  MCContents \cup {[kind |-> "url", at |-> a] : a \in DOMAIN MCWeb} \cup {[kind |-> "path", at |-> a] : a \in DOMAIN MCDisk}
=============================================================================
