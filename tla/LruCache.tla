------------------------------ MODULE LruCache ------------------------------
(***************************************************************************)
(* common/cache: an LRU cache with a size, an age and a mutex.             *)
(*                                                                         *)
(* The index leads from a key to its entry and the list holds the entries  *)
(* from the least to the most recent.  get returns a pointer to the entry, *)
(* and Get and GetWithExpire read its fields after the mutex has been      *)
(* released.  A value is named by the expiry that is stored with it.       *)
(* CloneTo and Exist, which nothing calls, are left out.                   *)
(***************************************************************************)
EXTENDS Integers, Sequences, FiniteSets, SequencesExt

CONSTANTS
  LruKeys, LruReaders,   \* LruReaders: goroutines inside GetWithExpire
  LruMaxSize, LruMaxTime \* LruMaxTime bounds the clock

ASSUME LruAssumption ==
  /\ LruKeys # {} /\ IsFiniteSet(LruReaders)
  /\ LruMaxSize \in Nat \ {0} /\ LruMaxTime \in Nat

\* WithAge, WithStale, WithUpdateAgeOnGet: as package dns sets them, and three others.
LruOptions ==
  {[maxAge |-> 0, stale |-> TRUE, update |-> FALSE], [maxAge |-> 1, stale |-> TRUE, update |-> FALSE]}
    \cup {[maxAge |-> 1, stale |-> FALSE, update |-> u] : u \in BOOLEAN}
EntryIds == 1 .. (LruMaxSize + Cardinality(LruReaders) + 1)
NoEntry == 0
DeadEntry == [key |-> CHOOSE k \in LruKeys : TRUE, value |-> 0, expires |-> 0]
ReaderIdle == [pc |-> "idle", entry |-> NoEntry, value |-> 0, expires |-> 0]

ReaderType == [pc : {"idle", "got", "value", "read"}, entry : EntryIds \cup {NoEntry}, value : Nat, expires : Nat]

VARIABLES
  lruMade,    \* whether the cache exists
  lruOptions, \* maxAge, staleReturn, updateAgeOnGet
  lruNow,     \* time.Now().Unix()
  lruIndex,   \* cache: key -> entry
  lruList,    \* lru: entries, the least recent first
  lruHeap,    \* the entries in use
  lruReader   \* each reader: the entry it got and the fields it has read

lruVars == <<lruMade, lruOptions, lruNow, lruIndex, lruList, lruHeap, lruReader>>

LruInit ==
  /\ lruMade = FALSE
  /\ lruOptions = [maxAge |-> 0, stale |-> TRUE, update |-> FALSE]
  /\ lruNow = 0
  /\ lruIndex = [k \in LruKeys |-> NoEntry]
  /\ lruList = << >>
  /\ lruHeap = [e \in EntryIds |-> DeadEntry]
  /\ lruReader = [p \in LruReaders |-> ReaderIdle]

\* NewLRUCache with its options.
NewLRUCache(options) ==
  /\ ~lruMade /\ lruMade' = TRUE
  /\ lruOptions' = options
  /\ UNCHANGED <<lruNow, lruIndex, lruList, lruHeap, lruReader>>

LruTick ==
  /\ lruMade /\ lruNow < LruMaxTime
  /\ lruNow' = lruNow + 1
  /\ UNCHANGED <<lruMade, lruOptions, lruIndex, lruList, lruHeap, lruReader>>

-----------------------------------------------------------------------------
\* The list and the index, as values.

Ages == ~lruOptions.stale /\ lruOptions.maxAge > 0
Expired(e, heap) == Ages /\ heap[e].expires <= lruNow
\* The list's own links lead to the element of an entry: nothing is searched.
Unlink(list, e) == RemoveAt(list, CHOOSE i \in DOMAIN list : list[i] = e)
MoveToBack(list, e) == Append(Unlink(list, e), e)

\* maybeDeleteOldest: the expired entries at the front go.
Swept(list, heap) ==
  LET fresh == {i \in DOMAIN list : ~Expired(list[i], heap)} IN
  IF fresh = {} THEN << >> ELSE SubSeq(list, CHOOSE i \in fresh : \A j \in fresh : i <= j, Len(list))

\* As Keep, leaving the index as it is.
KeepIndex(index, list, kept, heap) ==
  /\ lruList' = kept /\ lruIndex' = index
  /\ lruHeap' = [e \in EntryIds |->
       IF e \in ToSet(kept) \/ \E p \in LruReaders : lruReader'[p].entry = e THEN heap[e] ELSE DeadEntry]

\* The cache's entries are now kept; deleteElement of those that left list.
Keep(index, list, kept, heap) ==
  LET gone == ToSet(list) \ ToSet(kept) IN
  /\ lruList' = kept
  /\ lruIndex' = [k \in LruKeys |-> IF index[k] \in gone THEN NoEntry ELSE index[k]]
  /\ lruHeap' = [e \in EntryIds |->
       IF e \in ToSet(kept) \/ \E p \in LruReaders : lruReader'[p].entry = e THEN heap[e] ELSE DeadEntry]

FreeEntry ==
  CHOOSE e \in EntryIds : e \notin ToSet(lruList) /\ \A p \in LruReaders : lruReader[p].entry # e

-----------------------------------------------------------------------------

\* SetWithExpire; Set is SetWithExpire at now + maxAge, or at 0 without an age.
SetWithExpire(k, expires) ==
  /\ lruMade
  /\ UNCHANGED <<lruMade, lruOptions, lruNow, lruReader>>
  /\ LET old == lruIndex[k]
         e == IF old # NoEntry THEN old ELSE FreeEntry
         heap == [lruHeap EXCEPT ![e] = [key |-> k, value |-> expires, expires |-> expires]]
         pushed == IF old # NoEntry THEN MoveToBack(lruList, e) ELSE Append(lruList, e)
         fitting == IF old = NoEntry /\ Len(pushed) > LruMaxSize THEN Tail(pushed) ELSE pushed
     IN  Keep([lruIndex EXCEPT ![k] = e], pushed, Swept(fitting, heap), heap)

\* get, the part of Get and GetWithExpire that holds the mutex.
LruGet(p, k) ==
  /\ lruReader[p].pc = "idle" /\ lruIndex[k] # NoEntry
  /\ UNCHANGED <<lruMade, lruOptions, lruNow>>
  /\ LET e == lruIndex[k] IN
     \/ /\ Expired(e, lruHeap)
        /\ UNCHANGED lruReader
        /\ Keep(lruIndex, lruList, Swept(Unlink(lruList, e), lruHeap), lruHeap)
     \/ /\ ~Expired(e, lruHeap)
        /\ lruReader' = [lruReader EXCEPT ![p] = [ReaderIdle EXCEPT !.pc = "got", !.entry = e]]
        /\ Keep(lruIndex, lruList, MoveToBack(lruList, e),
                IF lruOptions.maxAge > 0 /\ lruOptions.update
                THEN [lruHeap EXCEPT ![e].expires = lruNow + lruOptions.maxAge] ELSE lruHeap)

\* entry.value and entry.expires, read one after the other without the mutex.
LruReadValue(p) ==
  /\ lruReader[p].pc = "got"
  /\ lruReader' = [lruReader EXCEPT ![p].pc = "value", ![p].value = lruHeap[lruReader[p].entry].value]
  /\ UNCHANGED <<lruMade, lruOptions, lruNow, lruIndex, lruList, lruHeap>>

LruReadExpires(p) ==
  /\ lruReader[p].pc = "value"
  /\ lruReader' = [lruReader EXCEPT ![p].pc = "read", ![p].expires = lruHeap[lruReader[p].entry].expires]
  /\ UNCHANGED <<lruMade, lruOptions, lruNow, lruIndex, lruList, lruHeap>>

LruReturn(p) ==
  /\ lruReader[p].pc = "read"
  /\ lruReader' = [lruReader EXCEPT ![p] = ReaderIdle]
  /\ UNCHANGED <<lruMade, lruOptions, lruNow>>
  /\ Keep(lruIndex, lruList, lruList, lruHeap)

LruDelete(k) ==
  /\ lruIndex[k] # NoEntry
  /\ UNCHANGED <<lruMade, lruOptions, lruNow, lruReader>>
  /\ Keep(lruIndex, lruList, Unlink(lruList, lruIndex[k]), lruHeap)

LruNext ==
  \/ \E options \in LruOptions : NewLRUCache(options)
  \/ LruTick
  \/ \E k \in LruKeys :
       \/ \E x \in {lruNow, lruNow + 1} : SetWithExpire(k, x)
       \/ LruDelete(k)
       \/ \E p \in LruReaders : LruGet(p, k)
  \/ \E p \in LruReaders : LruReadValue(p) \/ LruReadExpires(p) \/ LruReturn(p)

LruSpec == LruInit /\ [][LruNext]_lruVars

-----------------------------------------------------------------------------

LruTypeOK ==
  /\ lruMade \in BOOLEAN /\ lruOptions \in LruOptions /\ lruNow \in Nat
  /\ lruIndex \in [LruKeys -> EntryIds \cup {NoEntry}]
  /\ lruList \in Seq(EntryIds)
  /\ lruHeap \in [EntryIds -> [key : LruKeys, value : Nat, expires : Nat]]
  /\ lruReader \in [LruReaders -> ReaderType]

\* The index and the list hold the same entries, each once and under its own
\* key, and no more than the size allows: through evictions, sweeps, deletions
\* and readers that still hold an entry that left.
LruSafe ==
  /\ IsInjective(lruList)
  /\ ToSet(lruList) = {lruIndex[k] : k \in LruKeys} \ {NoEntry}
  /\ \A k \in LruKeys : lruIndex[k] # NoEntry => lruHeap[lruIndex[k]].key = k
  /\ Len(lruList) <= LruMaxSize

\* It is inductive with the types and the readers' entries.
ReadersHold == \A p \in LruReaders : lruReader[p].pc # "idle" => lruReader[p].entry # NoEntry
LruInv == LruTypeOK /\ ReadersHold /\ LruSafe
=============================================================================
