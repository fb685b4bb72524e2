----------------------------- MODULE XrayDialer -----------------------------
(***************************************************************************)
(* internal/xray: a Dialer around an xray-core instance.                   *)
(*                                                                         *)
(* The threads of a download dial through one Dialer while its owner may   *)
(* already be closing it; d.mu is held for the whole dial.  Loading,       *)
(* creating and starting an instance, dialing through it and closing it    *)
(* are xray-core's, and each may fail.                                     *)
(***************************************************************************)
EXTENDS Naturals, FiniteSets

CONSTANT XThreads \* goroutines that call DialContext

ASSUME XrayAssumption == IsFiniteSet(XThreads) /\ XThreads # {}

Owner == "owner"
ASSUME OwnerAssumption == Owner \notin XThreads /\ "free" \notin XThreads
Users == XThreads \cup {Owner}

VARIABLES
  instance, \* the instance: "none", "failed", "running", "closed"
  held,     \* whether d.instance points to it
  mutex,    \* who holds d.mu
  user      \* each user: "idle", "lock", "dial" or "close" under the mutex, how it ended

xrayVars == <<instance, held, mutex, user>>

Ended == {"conn", "closed", "address", "failed"}

XrayInit ==
  /\ instance = "none" /\ held = FALSE /\ mutex = "free"
  /\ user = [u \in Users |-> "idle"]

\* NewDialer: the config is not nil and builds, loads and starts; an instance
\* that does not start is closed.
NewDialer ==
  /\ instance = "none"
  /\ \/ instance' = "running" /\ held' = TRUE
     \/ instance' = "failed" /\ UNCHANGED held
  /\ UNCHANGED <<mutex, user>>

-----------------------------------------------------------------------------
\* DialContext and Close: d.mu.Lock() ... defer d.mu.Unlock().

Begin(u) ==
  /\ instance \in {"running", "closed"} /\ user[u] = "idle"
  /\ user' = [user EXCEPT ![u] = "lock"]
  /\ UNCHANGED <<instance, held, mutex>>

\* With the mutex: the dialer may be closed by now, or the address is invalid.
DialLock(u) ==
  /\ u # Owner /\ user[u] = "lock" /\ mutex = "free"
  /\ \/ /\ ~held
        /\ user' = [user EXCEPT ![u] = "closed"] /\ UNCHANGED mutex
     \/ /\ held
        /\ \/ user' = [user EXCEPT ![u] = "address"] /\ UNCHANGED mutex
           \/ user' = [user EXCEPT ![u] = "dial"] /\ mutex' = u
  /\ UNCHANGED <<instance, held>>

\* core.Dial gives a connection, or fails, at the latest when its context ends.
CoreDial(u) ==
  /\ user[u] = "dial"
  /\ \E r \in {"conn", "failed"} : user' = [user EXCEPT ![u] = r]
  /\ mutex' = "free"
  /\ UNCHANGED <<instance, held>>

\* As CloseLock, without the mutex.
CloseUnlocked ==
  /\ user[Owner] = "lock"
  /\ held /\ instance' = "closed" /\ held' = FALSE /\ user' = [user EXCEPT ![Owner] = "closed"]
  /\ UNCHANGED mutex

\* Close: an instance that fails to close is kept, and may be closed again.
CloseLock ==
  /\ user[Owner] = "lock" /\ mutex = "free"
  /\ \/ held /\ instance' = "closed" /\ held' = FALSE /\ user' = [user EXCEPT ![Owner] = "closed"]
     \/ held /\ UNCHANGED <<instance, held>> /\ user' = [user EXCEPT ![Owner] = "failed"]
     \/ ~held /\ UNCHANGED <<instance, held>> /\ user' = [user EXCEPT ![Owner] = "closed"]
  /\ UNCHANGED mutex

CloseAgain ==
  /\ user[Owner] = "failed"
  /\ user' = [user EXCEPT ![Owner] = "lock"]
  /\ UNCHANGED <<instance, held, mutex>>

XrayNext ==
  \/ NewDialer \/ CloseLock \/ CloseAgain
  \/ \E u \in Users : Begin(u) \/ DialLock(u) \/ CoreDial(u)

\* A dial ends with its context, and a goroutine takes a mutex that stays free.
\* (Each thread dials once: it does in the end.)
XrayFairness ==
  /\ \A u \in XThreads : WF_xrayVars(DialLock(u) \/ CoreDial(u))
  /\ WF_xrayVars(CloseLock)

XraySpec == XrayInit /\ [][XrayNext]_xrayVars /\ XrayFairness

-----------------------------------------------------------------------------

\* Nobody dials through an instance that has been closed, and the dialer lets
\* go of an instance only when it is closed.
XraySafe ==
  /\ \A u \in XThreads : user[u] = "dial" => instance = "running" /\ mutex = u
  /\ held <=> instance = "running"
  /\ mutex # "free" => user[mutex] = "dial"

\* It needs only the types, and that the owner, who closes, never dials.
XrayTypeOK ==
  /\ instance \in {"none", "failed", "running", "closed"}
  /\ held \in BOOLEAN
  /\ mutex \in XThreads \cup {"free"}
  /\ user \in [Users -> {"idle", "lock", "dial"} \cup Ended]

XrayInv == XrayTypeOK /\ XraySafe /\ user[Owner] # "dial"

\* Every dial and the Close have ended, although each keeps the others waiting.
XrayAtRest == \A u \in Users : user[u] \in Ended \cup {"idle"}
=============================================================================
