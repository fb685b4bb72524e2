---------------------------- MODULE ConvertProofs ----------------------------
(***************************************************************************)
(* Proofs about module LruCache, for any keys, readers, size and time: the *)
(* index and the list never come apart; about module Messages, for any     *)
(* lists, pings and speeds: both ends hear what the run found out; about   *)
(* module OutputPlan, for any plans and results: what a run found is what  *)
(* is emitted; about module Subscription, for any texts: they become the   *)
(* links they list; and about module Options, for any requests, command    *)
(* lines, files and subscriptions: what is tested is what was asked for.   *)
(***************************************************************************)
EXTENDS LruCache, Messages, OutputPlan, Subscription, Options,
        FiniteSetTheorems, FunctionTheorems, SequenceTheorems, WellFoundedInduction, TLAPS

-----------------------------------------------------------------------------
\* Lists of entries, each at most once.

Lists == {list \in Seq(EntryIds) : IsInjective(list)}
Heaps == [EntryIds -> [key : LruKeys, value : Nat, expires : Nat]]

\* A list without some of another's entries.
Part(kept, list) == kept \in Lists /\ ToSet(kept) \subseteq ToSet(list) /\ Len(kept) <= Len(list)

LEMMA ListFacts ==
  ASSUME NEW list \in Lists
  PROVE  /\ list \in Seq(EntryIds) /\ Len(list) \in Nat /\ DOMAIN list = 1 .. Len(list)
         /\ \A i \in 1 .. Len(list) : list[i] \in EntryIds
         /\ ToSet(list) = {list[i] : i \in 1 .. Len(list)}
         /\ \A i, j \in 1 .. Len(list) : list[i] = list[j] => i = j
<1>1. list \in Seq(EntryIds) /\ IsInjective(list)
  BY DEF Lists
<1>2. Len(list) \in Nat /\ DOMAIN list = 1 .. Len(list) /\ \A i \in 1 .. Len(list) : list[i] \in EntryIds
  BY <1>1, LenProperties, ElementOfSeq
<1>. QED
  BY <1>1, <1>2, Zenon DEF IsInjective, ToSet

LEMMA EmptyList == ASSUME NEW list \in Lists PROVE Part(<< >>, list)
<1>1. << >> \in Seq(EntryIds) /\ Len(<< >>) = 0 /\ DOMAIN << >> = {}
  BY EmptySeq
<1>2. IsInjective(<< >>) /\ ToSet(<< >>) = {}
  BY <1>1, Zenon DEF IsInjective, ToSet
<1>. QED
  BY <1>1, <1>2, ListFacts DEF Part, Lists

\* The end of a list, from any place of it.
LEMMA EndOfList ==
  ASSUME NEW list \in Lists, NEW m \in 1 .. Len(list)
  PROVE  Part(SubSeq(list, m, Len(list)), list)
<1>1. /\ Len(list) \in Nat /\ \A i \in 1 .. Len(list) : list[i] \in EntryIds
      /\ \A i, j \in 1 .. Len(list) : list[i] = list[j] => i = j
      /\ ToSet(list) = {list[i] : i \in 1 .. Len(list)}
  BY ListFacts, Zenon
<1>. DEFINE end == SubSeq(list, m, Len(list))
<1>2. /\ end \in Seq(EntryIds) /\ Len(end) = Len(list) - m + 1
      /\ \A i \in 1 .. Len(list) - m + 1 : end[i] = list[m + i - 1]
  <2>1. \A i \in m .. Len(list) : list[i] \in EntryIds
    BY <1>1
  <2>2. m \in Int /\ Len(list) \in Int /\ m <= Len(list)
    BY <1>1
  <2>3. /\ SubSeq(list, m, Len(list)) \in Seq(EntryIds)
        /\ Len(SubSeq(list, m, Len(list))) = IF m <= Len(list) THEN Len(list) - m + 1 ELSE 0
        /\ \A i \in 1 .. Len(list) - m + 1 : SubSeq(list, m, Len(list))[i] = list[m + i - 1]
    BY <2>1, <2>2, SubSeqProperties
  <2>. QED
    BY <2>2, <2>3
<1>3. DOMAIN end = 1 .. Len(end)
  BY <1>2, LenProperties
<1>. HIDE DEF end
<1>4. IsInjective(end)
  <2>1. ASSUME NEW i \in 1 .. Len(end), NEW j \in 1 .. Len(end), end[i] = end[j] PROVE i = j
    <3>1. m + i - 1 \in 1 .. Len(list) /\ m + j - 1 \in 1 .. Len(list)
      BY <1>1, <1>2
    <3>2. end[i] = list[m + i - 1] /\ end[j] = list[m + j - 1]
      BY <1>1, <1>2
    <3>3. m + i - 1 = m + j - 1
      BY <1>1, <2>1, <3>1, <3>2
    <3>. QED
      BY <3>3
  <2>. QED
    BY <1>3, <2>1, Zenon DEF IsInjective
<1>5. ToSet(end) \subseteq ToSet(list)
  BY <1>1, <1>2, <1>3 DEF ToSet
<1>6. Part(end, list)
  BY <1>1, <1>2, <1>4, <1>5 DEF Part, Lists
<1>. QED
  BY <1>6 DEF end

LEMMA LeastIndex ==
  ASSUME NEW S \in SUBSET Nat, S # {}
  PROVE  \E i \in S : \A j \in S : i <= j
<1>1. PICK x \in S : \A y \in S : ~ (<<y, x>> \in OpToRel(<, Nat))
  BY NatLessThanWellFounded, WFMin, Zenon
<1>2. \A y \in S : <<y, x>> \in Nat \X Nat /\ <<y, x>>[1] = y /\ <<y, x>>[2] = x
  OBVIOUS
<1>3. \A y \in S : ~ (y < x)
  BY <1>1, <1>2, Zenon DEF OpToRel
<1>. QED
  BY <1>3

\* What a sweep leaves is the end of the list.
LEMMA SweptIsPart ==
  ASSUME NEW list \in Lists, NEW heap
  PROVE  Part(Swept(list, heap), list)
<1>. DEFINE fresh == {i \in DOMAIN list : ~Expired(list[i], heap)}
<1>1. CASE fresh = {}
  <2>1. Swept(list, heap) = << >>
    BY <1>1 DEF Swept
  <2>. QED
    BY <2>1, EmptyList
<1>2. CASE fresh # {}
  <2>1. DOMAIN list = 1 .. Len(list) /\ fresh \subseteq 1 .. Len(list) /\ fresh \in SUBSET Nat
    BY ListFacts
  <2>. HIDE DEF fresh
  <2>2. PICK m : m = CHOOSE i \in fresh : \A j \in fresh : i <= j
    OBVIOUS
  <2>3. m \in fresh
    BY <1>2, <2>1, <2>2, LeastIndex, Zenon
  <2>4. Swept(list, heap) = SubSeq(list, m, Len(list))
    BY <1>2, <2>2 DEF Swept, fresh
  <2>. QED
    BY <2>1, <2>3, <2>4, EndOfList
<1>. QED
  BY <1>1, <1>2

LEMMA PartOfPart ==
  ASSUME NEW list \in Lists, NEW some, NEW kept, Part(some, list), Part(kept, some)
  PROVE  Part(kept, list)
<1>1. Len(list) \in Nat /\ Len(some) \in Nat /\ Len(kept) \in Nat
  BY ListFacts DEF Part
<1>. QED
  BY <1>1 DEF Part

\* Unlinking an entry of the list takes out that one.
LEMMA UnlinkOne ==
  ASSUME NEW list \in Lists, NEW e \in ToSet(list)
  PROVE  /\ Unlink(list, e) \in Lists /\ Len(Unlink(list, e)) = Len(list) - 1
         /\ ToSet(Unlink(list, e)) = ToSet(list) \ {e}
<1>1. /\ Len(list) \in Nat /\ DOMAIN list = 1 .. Len(list) /\ \A i \in 1 .. Len(list) : list[i] \in EntryIds
      /\ \A i, j \in 1 .. Len(list) : list[i] = list[j] => i = j
      /\ ToSet(list) = {list[i] : i \in 1 .. Len(list)}
  BY ListFacts, Zenon
<1>2. PICK at : at = CHOOSE i \in DOMAIN list : list[i] = e
  OBVIOUS
<1>3. at \in 1 .. Len(list) /\ list[at] = e
  BY <1>1, <1>2
<1>4. PICK front, back, rest :
        /\ front = SubSeq(list, 1, at - 1) /\ back = SubSeq(list, at + 1, Len(list)) /\ rest = front \o back
  OBVIOUS
<1>5. rest = Unlink(list, e)
  BY <1>2, <1>4 DEF Unlink, RemoveAt
<1>6. /\ front \in Seq(EntryIds) /\ Len(front) = at - 1
      /\ \A i \in 1 .. at - 1 : front[i] = list[i]
  <2>1. \A i \in 1 .. at - 1 : list[i] \in EntryIds
    BY <1>1, <1>3
  <2>2. 1 \in Int /\ at - 1 \in Int /\ at - 1 >= 0
    BY <1>1, <1>3
  <2>3. /\ SubSeq(list, 1, at - 1) \in Seq(EntryIds)
        /\ Len(SubSeq(list, 1, at - 1)) = IF 1 <= at - 1 THEN at - 1 - 1 + 1 ELSE 0
        /\ \A i \in 1 .. at - 1 - 1 + 1 : SubSeq(list, 1, at - 1)[i] = list[1 + i - 1]
    BY <2>1, <2>2, SubSeqProperties
  <2>. QED
    BY <1>4, <2>2, <2>3
<1>7. /\ back \in Seq(EntryIds) /\ Len(back) = Len(list) - at
      /\ \A i \in 1 .. Len(list) - at : back[i] = list[at + i]
  <2>1. \A i \in at + 1 .. Len(list) : list[i] \in EntryIds
    BY <1>1, <1>3
  <2>2. at + 1 \in Int /\ Len(list) \in Int /\ at <= Len(list)
    BY <1>1, <1>3
  <2>3. /\ SubSeq(list, at + 1, Len(list)) \in Seq(EntryIds)
        /\ Len(SubSeq(list, at + 1, Len(list))) = IF at + 1 <= Len(list) THEN Len(list) - (at + 1) + 1 ELSE 0
        /\ \A i \in 1 .. Len(list) - (at + 1) + 1 : SubSeq(list, at + 1, Len(list))[i] = list[at + 1 + i - 1]
    BY <2>1, <2>2, SubSeqProperties
  <2>4. back \in Seq(EntryIds) /\ Len(back) = IF at + 1 <= Len(list) THEN Len(list) - (at + 1) + 1 ELSE 0
    BY <1>4, <2>3, Zenon
  <2>5. ASSUME NEW i \in 1 .. Len(list) - at PROVE back[i] = list[at + i]
    <3>1. i \in 1 .. Len(list) - (at + 1) + 1 /\ at + 1 + i - 1 = at + i
      BY <1>1, <1>3
    <3>. QED
      BY <1>4, <2>3, <3>1
  <2>6. Len(back) = Len(list) - at
    <3>1. PICK n : n = Len(list)
      OBVIOUS
    <3>2. n \in Nat /\ at \in 1 .. n /\ Len(back) = IF at + 1 <= n THEN n - (at + 1) + 1 ELSE 0
      BY <1>1, <1>3, <2>4, <3>1
    <3>3. Len(back) = n - at
      BY <3>2
    <3>. QED
      BY <3>1, <3>3
  <2>. QED
    BY <2>4, <2>5, <2>6
<1>8. /\ rest \in Seq(EntryIds) /\ Len(rest) = Len(list) - 1 /\ DOMAIN rest = 1 .. Len(list) - 1
      /\ \A i \in 1 .. Len(list) - 1 : rest[i] = IF i < at THEN list[i] ELSE list[i + 1]
  <2>1. /\ front \o back \in Seq(EntryIds) /\ Len(front \o back) = Len(front) + Len(back)
        /\ \A i \in 1 .. Len(front) + Len(back) :
             (front \o back)[i] = IF i <= Len(front) THEN front[i] ELSE back[i - Len(front)]
    BY <1>6, <1>7, ConcatProperties
  <2>9. at \in Nat /\ at >= 1 /\ at <= Len(list) /\ Len(front) + Len(back) = Len(list) - 1 /\ Len(front) = at - 1
    BY <1>1, <1>3, <1>6, <1>7
  <2>2. rest \in Seq(EntryIds) /\ Len(rest) = Len(list) - 1
    BY <1>4, <2>9, <2>1
  <2>3. DOMAIN rest = 1 .. Len(rest)
    BY <2>2, LenProperties
  <2>4. ASSUME NEW i \in 1 .. Len(list) - 1 PROVE rest[i] = IF i < at THEN list[i] ELSE list[i + 1]
    <3>1. rest[i] = IF i <= at - 1 THEN front[i] ELSE back[i - (at - 1)]
      BY <1>4, <2>9, <2>1
    <3>2. CASE i < at
      BY <1>1, <1>3, <1>6, <3>1, <3>2
    <3>3. CASE i >= at
      BY <1>1, <1>3, <1>7, <3>1, <3>3
    <3>. QED
      BY <1>1, <1>3, <3>2, <3>3
  <2>. QED
    BY <2>2, <2>3, <2>4
<1>9. IsInjective(rest)
  BY <1>1, <1>3, <1>8 DEF IsInjective
<1>10. ToSet(rest) = ToSet(list) \ {e}
  <2>1. ToSet(rest) = {rest[i] : i \in 1 .. Len(list) - 1}
    BY <1>8, Zenon DEF ToSet
  <2>2. ASSUME NEW i \in 1 .. Len(list) - 1 PROVE rest[i] \in ToSet(list) \ {e}
    BY <1>1, <1>3, <1>8
  <2>3. ASSUME NEW j \in 1 .. Len(list), j # at PROVE list[j] \in ToSet(rest)
    <3>1. CASE j < at
      <4>1. j \in 1 .. Len(list) - 1 /\ rest[j] = list[j]
        BY <1>1, <1>3, <1>8, <3>1
      <4>. QED
        BY <2>1, <4>1
    <3>2. CASE j > at
      <4>1. j - 1 \in 1 .. Len(list) - 1 /\ rest[j - 1] = list[j]
        BY <1>1, <1>3, <1>8, <3>2
      <4>. QED
        BY <2>1, <4>1
    <3>. QED
      BY <1>1, <1>3, <2>3, <3>1, <3>2
  <2>4. ToSet(rest) \subseteq ToSet(list) \ {e}
    BY <2>1, <2>2
  <2>5. ToSet(list) \ {e} \subseteq ToSet(rest)
    BY <1>1, <1>3, <2>3
  <2>. QED
    BY <2>4, <2>5
<1>. QED
  BY <1>5, <1>8, <1>9, <1>10 DEF Lists

\* Pushing an entry that is not in the list.
LEMMA PushOne ==
  ASSUME NEW list \in Lists, NEW e \in EntryIds, e \notin ToSet(list)
  PROVE  /\ Append(list, e) \in Lists /\ Len(Append(list, e)) = Len(list) + 1
         /\ ToSet(Append(list, e)) = ToSet(list) \cup {e}
<1>1. /\ list \in Seq(EntryIds) /\ Len(list) \in Nat
      /\ \A i, j \in 1 .. Len(list) : list[i] = list[j] => i = j
      /\ ToSet(list) = {list[i] : i \in 1 .. Len(list)}
  BY ListFacts, Zenon
<1>2. PICK pushed : pushed = Append(list, e)
  OBVIOUS
<1>3. /\ pushed \in Seq(EntryIds) /\ Len(pushed) = Len(list) + 1
      /\ \A i \in 1 .. Len(list) : pushed[i] = list[i]
      /\ pushed[Len(list) + 1] = e
  BY <1>1, <1>2, AppendProperties
<1>4. DOMAIN pushed = 1 .. Len(list) + 1
  BY <1>3, LenProperties
<1>5. IsInjective(pushed)
  BY <1>1, <1>3, <1>4 DEF IsInjective
<1>6. ToSet(pushed) = ToSet(list) \cup {e}
  <2>1. ToSet(pushed) = {pushed[i] : i \in 1 .. Len(list) + 1}
    BY <1>4, Zenon DEF ToSet
  <2>. QED
    BY <1>1, <1>3, <2>1
<1>. QED
  BY <1>2, <1>3, <1>5, <1>6 DEF Lists

LEMMA MovedToBack ==
  ASSUME NEW list \in Lists, NEW e \in ToSet(list)
  PROVE  /\ MoveToBack(list, e) \in Lists /\ Len(MoveToBack(list, e)) = Len(list)
         /\ ToSet(MoveToBack(list, e)) = ToSet(list)
<1>1. e \in EntryIds /\ Len(list) \in Nat
  BY ListFacts
<1>2. PICK rest : rest = Unlink(list, e)
  OBVIOUS
<1>3. rest \in Lists /\ Len(rest) = Len(list) - 1 /\ ToSet(rest) = ToSet(list) \ {e}
  BY <1>2, UnlinkOne
<1>4. Append(rest, e) \in Lists /\ Len(Append(rest, e)) = Len(rest) + 1 /\ ToSet(Append(rest, e)) = ToSet(rest) \cup {e}
  BY <1>1, <1>3, PushOne
<1>. QED
  BY <1>1, <1>2, <1>3, <1>4 DEF MoveToBack

\* The front of a list goes.
LEMMA FrontGone ==
  ASSUME NEW list \in Lists, list # << >>
  PROVE  Part(Tail(list), list) /\ Len(Tail(list)) = Len(list) - 1
<1>1. list \in Seq(EntryIds)
  BY ListFacts
<1>2. PICK n : n = Len(list)
  OBVIOUS
<1>3. n \in Nat \ {0}
  BY <1>1, <1>2, EmptySeq
<1>4. Tail(list) = SubSeq(list, 2, n) /\ Len(Tail(list)) = n - 1
  BY <1>1, <1>2, TailIsSubSeq, HeadTailProperties, Zenon
<1>5. CASE n = 1
  <2>1. Tail(list) = << >>
    BY <1>4, <1>5, SubSeqEmpty
  <2>. QED
    BY <1>2, <1>4, <2>1, EmptyList
<1>6. CASE n > 1
  <2>1. 2 \in 1 .. n
    BY <1>3, <1>6
  <2>. QED
    BY <1>2, <1>4, <2>1, EndOfList
<1>7. n = 1 \/ n > 1
  BY <1>3
<1>. QED
  BY <1>5, <1>6, <1>7, Zenon

\* A list has no more entries than elements.
LEMMA EntriesOfList ==
  ASSUME NEW list \in Lists
  PROVE  IsFiniteSet(ToSet(list)) /\ Cardinality(ToSet(list)) <= Len(list)
<1>1. /\ list \in Seq(EntryIds) /\ Len(list) \in Nat
      /\ ToSet(list) = {list[i] : i \in 1 .. Len(list)}
  BY ListFacts, Zenon
<1>2. IsFiniteSet(1 .. Len(list)) /\ Cardinality(1 .. Len(list)) = Len(list)
  <2>1. PICK n : n = Len(list)
    OBVIOUS
  <2>2. n \in Nat /\ 1 \in Int /\ n \in Int
    BY <1>1, <2>1
  <2>3. IsFiniteSet(1 .. n) /\ Cardinality(1 .. n) = IF 1 > n THEN 0 ELSE n - 1 + 1
    BY <2>2, FS_Interval
  <2>4. Cardinality(1 .. n) = n
    BY <2>2, <2>3
  <2>. QED
    BY <2>1, <2>3, <2>4
<1>3. PICK at : at = [i \in 1 .. Len(list) |-> list[i]]
  OBVIOUS
<1>4. at \in Surjection(1 .. Len(list), ToSet(list))
  BY <1>1, <1>3, Zenon DEF Surjection
<1>. QED
  BY <1>2, <1>4, FS_Surjection

\* Entries suffice: the list and the readers never hold all of them.
LEMMA FreeEntryIsFree ==
  ASSUME lruList \in Lists, Len(lruList) <= LruMaxSize
  PROVE  FreeEntry \in EntryIds /\ FreeEntry \notin ToSet(lruList)
<1>. DEFINE held == {lruReader[p].entry : p \in LruReaders}
<1>1. IsFiniteSet(ToSet(lruList)) /\ Cardinality(ToSet(lruList)) <= Len(lruList)
  BY EntriesOfList
<1>2. IsFiniteSet(held) /\ Cardinality(held) <= Cardinality(LruReaders)
  <2>1. PICK of : of = [p \in LruReaders |-> lruReader[p].entry]
    OBVIOUS
  <2>2. of \in Surjection(LruReaders, held)
    BY <2>1, Zenon DEF Surjection
  <2>. QED
    BY <2>2, LruAssumption, FS_Surjection
<1>. HIDE DEF held
<1>3. PICK used : used = ToSet(lruList) \cup held
  OBVIOUS
<1>4. /\ IsFiniteSet(used)
      /\ Cardinality(used) = Cardinality(ToSet(lruList)) + Cardinality(held) - Cardinality(ToSet(lruList) \cap held)
  BY <1>1, <1>2, <1>3, FS_Union
<1>5. /\ Cardinality(ToSet(lruList)) \in Nat /\ Cardinality(held) \in Nat /\ Cardinality(LruReaders) \in Nat
      /\ Cardinality(used) \in Nat /\ Cardinality(ToSet(lruList) \cap held) \in Nat /\ Len(lruList) \in Nat
  <2>1. IsFiniteSet(ToSet(lruList) \cap held)
    BY <1>1, FS_Subset
  <2>. QED
    BY <1>1, <1>2, <1>4, <2>1, LruAssumption, FS_CardinalityType, ListFacts
<1>6. IsFiniteSet(EntryIds) /\ Cardinality(EntryIds) = LruMaxSize + Cardinality(LruReaders) + 1
  <2>1. PICK n : n = LruMaxSize + Cardinality(LruReaders) + 1
    OBVIOUS
  <2>2. n \in Nat /\ 1 \in Int /\ n \in Int
    BY <1>5, <2>1, LruAssumption
  <2>3. IsFiniteSet(1 .. n) /\ Cardinality(1 .. n) = IF 1 > n THEN 0 ELSE n - 1 + 1
    BY <2>2, FS_Interval
  <2>4. Cardinality(1 .. n) = n
    BY <2>2, <2>3
  <2>. QED
    BY <2>1, <2>3, <2>4 DEF EntryIds
<1>7. Cardinality(used) < Cardinality(EntryIds)
  <2>1. ASSUME NEW a \in Nat, NEW b \in Nat, NEW c \in Nat, NEW len \in Nat, NEW size \in Nat, NEW readers \in Nat,
              a <= len, len <= size, b <= readers
       PROVE  a + b - c < size + readers + 1
    BY <2>1
  <2>. QED
    BY <1>1, <1>2, <1>4, <1>5, <1>6, <2>1, LruAssumption
<1>8. \E e \in EntryIds : e \notin used
  <2>1. SUFFICES ASSUME EntryIds \subseteq used PROVE FALSE
    OBVIOUS
  <2>2. Cardinality(EntryIds) <= Cardinality(used)
    BY <1>4, <2>1, FS_Subset
  <2>. QED
    BY <1>5, <1>6, <1>7, <2>2, LruAssumption
<1>9. \E e \in EntryIds : e \notin ToSet(lruList) /\ \A p \in LruReaders : lruReader[p].entry # e
  BY <1>3, <1>8 DEF held
<1>. QED
  BY <1>9, Zenon DEF FreeEntry

-----------------------------------------------------------------------------
\* Keep deletes from the index exactly what leaves the list.
LEMMA KeepsTogether ==
  ASSUME NEW index \in [LruKeys -> EntryIds \cup {NoEntry}], NEW list \in Lists, NEW heap \in Heaps, NEW kept,
         ToSet(list) = {index[k] : k \in LruKeys} \ {NoEntry},
         \A k \in LruKeys : index[k] # NoEntry => heap[index[k]].key = k,
         Part(kept, list), Len(kept) <= LruMaxSize,
         Keep(index, list, kept, heap)
  PROVE  /\ lruIndex' \in [LruKeys -> EntryIds \cup {NoEntry}] /\ lruList' \in Lists /\ lruHeap' \in Heaps
         /\ LruSafe'
<1>1. /\ lruList' = kept /\ kept \in Lists /\ ToSet(kept) \subseteq ToSet(list)
      /\ lruIndex' = [k \in LruKeys |-> IF index[k] \in ToSet(list) \ ToSet(kept) THEN NoEntry ELSE index[k]]
  BY Zenon DEF Keep, Part
<1>2. lruIndex' \in [LruKeys -> EntryIds \cup {NoEntry}]
  BY <1>1
<1>3. /\ lruHeap' \in Heaps
      /\ \A e \in EntryIds : e \in ToSet(kept) => lruHeap'[e] = heap[e]
  <2>1. PICK still : still = [e \in EntryIds |-> e \in ToSet(kept) \/ \E p \in LruReaders : lruReader'[p].entry = e]
    OBVIOUS
  <2>2. lruHeap' = [e \in EntryIds |-> IF still[e] THEN heap[e] ELSE DeadEntry]
    BY <2>1, Zenon DEF Keep
  <2>3. DeadEntry \in [key : LruKeys, value : Nat, expires : Nat]
    BY LruAssumption DEF DeadEntry
  <2>4. \A e \in EntryIds : e \in ToSet(kept) => still[e]
    BY <2>1, Zenon
  <2>. QED
    BY <2>2, <2>3, <2>4 DEF Heaps
<1>4. ToSet(kept) \subseteq EntryIds
  BY <1>1, ListFacts
<1>5. NoEntry \notin EntryIds
  BY DEF NoEntry, EntryIds
<1>6. ToSet(kept) = {lruIndex'[k] : k \in LruKeys} \ {NoEntry}
  <2>1. ASSUME NEW k \in LruKeys, lruIndex'[k] # NoEntry PROVE lruIndex'[k] \in ToSet(kept) /\ lruIndex'[k] = index[k]
    BY <1>1, <2>1
  <2>2. ASSUME NEW e \in ToSet(kept) PROVE e # NoEntry /\ \E k \in LruKeys : lruIndex'[k] = e
    <3>1. PICK k \in LruKeys : index[k] = e
      BY <1>1
    <3>2. lruIndex'[k] = e
      BY <1>1, <3>1
    <3>. QED
      BY <1>4, <1>5, <3>2
  <2>. QED
    BY <2>1, <2>2
<1>7. ASSUME NEW k \in LruKeys, lruIndex'[k] # NoEntry PROVE lruHeap'[lruIndex'[k]].key = k
  <2>1. lruIndex'[k] = index[k] /\ index[k] # NoEntry
    BY <1>1, <1>7
  <2>2. index[k] \in ToSet(kept)
    BY <1>6, <1>7, <2>1
  <2>. QED
    BY <1>3, <1>4, <2>1, <2>2
<1>8. LruSafe'
  BY <1>1, <1>6, <1>7, Zenon DEF LruSafe, Lists
<1>. QED
  BY <1>1, <1>2, <1>3, <1>8

\* What the invariant says of the cache, as the steps use it.
LEMMA CacheFacts ==
  ASSUME LruInv
  PROVE  /\ lruIndex \in [LruKeys -> EntryIds \cup {NoEntry}] /\ lruList \in Lists /\ lruHeap \in Heaps
         /\ ToSet(lruList) = {lruIndex[k] : k \in LruKeys} \ {NoEntry}
         /\ \A k \in LruKeys : lruIndex[k] # NoEntry => lruHeap[lruIndex[k]].key = k
         /\ \A k \in LruKeys : lruIndex[k] # NoEntry => lruIndex[k] \in ToSet(lruList)
         /\ Len(lruList) <= LruMaxSize /\ Len(lruList) \in Nat
         /\ ToSet(lruList) \subseteq EntryIds /\ NoEntry \notin EntryIds
<1>1. /\ lruIndex \in [LruKeys -> EntryIds \cup {NoEntry}] /\ lruList \in Lists /\ lruHeap \in Heaps
      /\ ToSet(lruList) = {lruIndex[k] : k \in LruKeys} \ {NoEntry}
      /\ \A k \in LruKeys : lruIndex[k] # NoEntry => lruHeap[lruIndex[k]].key = k
      /\ Len(lruList) <= LruMaxSize
  BY Zenon DEF LruInv, LruTypeOK, LruSafe, Lists, Heaps
<1>2. Len(lruList) \in Nat /\ ToSet(lruList) \subseteq EntryIds
  BY <1>1, ListFacts
<1>3. NoEntry \notin EntryIds
  BY DEF NoEntry, EntryIds
<1>. QED
  BY <1>1, <1>2, <1>3

\* A step that keeps the clock, the options and what the readers hold well typed.
LEMMA Restored ==
  ASSUME LruInv, lruMade' \in BOOLEAN, lruOptions' \in LruOptions, lruNow' \in Nat,
         lruReader' \in [LruReaders -> ReaderType], ReadersHold',
         lruIndex' \in [LruKeys -> EntryIds \cup {NoEntry}], lruList' \in Lists, lruHeap' \in Heaps,
         LruSafe'
  PROVE  LruInv'
<1>1. LruTypeOK'
  BY Zenon DEF LruTypeOK, Lists, Heaps
<1>. QED
  BY <1>1, Zenon DEF LruInv

LEMMA LruInitInd == LruInit => LruInv
<1>. SUFFICES ASSUME LruInit PROVE LruInv
  OBVIOUS
<1>. USE DEF LruInit
<1>1. << >> \in Seq(EntryIds) /\ Len(<< >>) = 0 /\ DOMAIN << >> = {}
  BY EmptySeq
<1>2. IsInjective(lruList) /\ ToSet(lruList) = {} /\ Len(lruList) <= LruMaxSize
  BY <1>1, LruAssumption DEF IsInjective, ToSet
<1>3. LruSafe
  BY <1>2 DEF LruSafe
<1>4. DeadEntry \in [key : LruKeys, value : Nat, expires : Nat]
  BY LruAssumption DEF DeadEntry
<1>5. ReaderIdle \in ReaderType
  BY DEF ReaderIdle, ReaderType
<1>6. LruTypeOK
  <2>1. lruMade \in BOOLEAN /\ lruOptions \in LruOptions
    BY Zenon DEF LruOptions
  <2>2. lruNow \in Nat /\ lruIndex \in [LruKeys -> EntryIds \cup {NoEntry}] /\ lruList \in Seq(EntryIds)
    BY <1>1
  <2>. QED
    BY <1>4, <1>5, <2>1, <2>2, Zenon DEF LruTypeOK
<1>7. ReadersHold
  BY DEF ReadersHold, ReaderIdle
<1>. QED
  BY <1>3, <1>6, <1>7 DEF LruInv

\* SetWithExpire: the entry of the key, or a new one, is at the back, and the
\* list fits before the sweep.
LEMMA SetStep ==
  ASSUME LruInv, NEW k \in LruKeys, NEW x \in Nat, SetWithExpire(k, x)
  PROVE  LruInv'
<1>1. UNCHANGED <<lruMade, lruOptions, lruNow, lruReader>>
  BY DEF SetWithExpire
<1>2. PICK old, e, heap, pushed, fitting, index :
        /\ old = lruIndex[k]
        /\ e = (IF old # NoEntry THEN old ELSE FreeEntry)
        /\ heap = [lruHeap EXCEPT ![e] = [key |-> k, value |-> x, expires |-> x]]
        /\ pushed = (IF old # NoEntry THEN MoveToBack(lruList, e) ELSE Append(lruList, e))
        /\ fitting = (IF old = NoEntry /\ Len(pushed) > LruMaxSize THEN Tail(pushed) ELSE pushed)
        /\ index = [lruIndex EXCEPT ![k] = e]
  OBVIOUS
<1>3. Keep(index, pushed, Swept(fitting, heap), heap)
  BY <1>2, Zenon DEF SetWithExpire
<1>4. /\ e \in EntryIds /\ e # NoEntry
      /\ \A j \in LruKeys : j # k => lruIndex[j] # e
  <2>1. CASE old = NoEntry
    <3>1. e = FreeEntry
      BY <1>2, <2>1
    <3>2. e \in EntryIds /\ e \notin ToSet(lruList)
      BY <3>1, CacheFacts, FreeEntryIsFree
    <3>. QED
      BY <3>2, CacheFacts
  <2>2. CASE old # NoEntry
    BY <1>2, <2>2, CacheFacts
  <2>. QED
    BY <2>1, <2>2
<1>5. heap \in Heaps /\ index \in [LruKeys -> EntryIds \cup {NoEntry}]
  BY <1>2, <1>4, CacheFacts DEF Heaps
<1>6. \A j \in LruKeys : index[j] # NoEntry => heap[index[j]].key = j
  <2>1. ASSUME NEW j \in LruKeys, index[j] # NoEntry PROVE heap[index[j]].key = j
    <3>1. CASE j = k
      BY <1>2, <1>4, <3>1, CacheFacts DEF Heaps
    <3>2. CASE j # k
      BY <1>2, <1>4, <2>1, <3>2, CacheFacts DEF Heaps
    <3>. QED
      BY <3>1, <3>2
  <2>. QED
    BY <2>1
<1>7. /\ pushed \in Lists /\ ToSet(pushed) = ToSet(lruList) \cup {e}
      /\ Len(pushed) = IF old = NoEntry THEN Len(lruList) + 1 ELSE Len(lruList)
  <2>1. CASE old = NoEntry
    <3>1. e = FreeEntry /\ pushed = Append(lruList, e)
      BY <1>2, <2>1
    <3>2. e \notin ToSet(lruList)
      BY <3>1, CacheFacts, FreeEntryIsFree
    <3>. QED
      BY <1>4, <2>1, <3>1, <3>2, CacheFacts, PushOne
  <2>2. CASE old # NoEntry
    <3>1. e \in ToSet(lruList) /\ pushed = MoveToBack(lruList, e)
      BY <1>2, <2>2, CacheFacts
    <3>. QED
      BY <2>2, <3>1, CacheFacts, MovedToBack
  <2>. QED
    BY <2>1, <2>2
<1>8. ToSet(pushed) = {index[j] : j \in LruKeys} \ {NoEntry}
  BY <1>2, <1>4, <1>7, CacheFacts
<1>9. Part(fitting, pushed) /\ Len(fitting) <= LruMaxSize
  <2>1. Len(pushed) \in Nat /\ Len(lruList) \in Nat /\ LruMaxSize \in Nat /\ Len(lruList) <= LruMaxSize
    BY <1>7, CacheFacts, ListFacts, LruAssumption
  <2>2. CASE old = NoEntry /\ Len(pushed) > LruMaxSize
    <3>1. fitting = Tail(pushed)
      BY <1>2, <2>2
    <3>2. pushed # << >>
      BY <1>7, ListFacts DEF ToSet
    <3>3. Part(Tail(pushed), pushed) /\ Len(Tail(pushed)) = Len(pushed) - 1
      BY <1>7, <3>2, FrontGone
    <3>. QED
      BY <1>7, <2>1, <2>2, <3>1, <3>3
  <2>3. CASE ~(old = NoEntry /\ Len(pushed) > LruMaxSize)
    <3>1. fitting = pushed
      BY <1>2, <2>3
    <3>. QED
      BY <1>7, <2>1, <2>3, <3>1 DEF Part
  <2>. QED
    BY <2>2, <2>3
<1>10. PICK kept : kept = Swept(fitting, heap)
  OBVIOUS
<1>11. fitting \in Lists /\ Part(kept, fitting)
  BY <1>9, <1>10, SweptIsPart DEF Part
<1>12. Part(kept, pushed) /\ Len(kept) <= LruMaxSize
  <2>1. Len(kept) \in Nat /\ Len(fitting) \in Nat /\ LruMaxSize \in Nat /\ Len(kept) <= Len(fitting)
    BY <1>11, ListFacts, LruAssumption DEF Part
  <2>. QED
    BY <1>7, <1>9, <1>11, <2>1, PartOfPart
<1>13. /\ lruIndex' \in [LruKeys -> EntryIds \cup {NoEntry}] /\ lruList' \in Lists /\ lruHeap' \in Heaps
       /\ LruSafe'
  BY <1>3, <1>5, <1>6, <1>7, <1>8, <1>10, <1>12, KeepsTogether
<1>14. /\ lruMade' \in BOOLEAN /\ lruOptions' \in LruOptions /\ lruNow' \in Nat
       /\ lruReader' \in [LruReaders -> ReaderType] /\ ReadersHold'
  BY <1>1, Zenon DEF LruInv, LruTypeOK, ReadersHold
<1>. QED
  BY <1>13, <1>14, Restored

\* A step that takes a part of the list away, or puts an entry to its back.
LEMMA KeepStep ==
  ASSUME LruInv, NEW list \in Lists, ToSet(list) = ToSet(lruList), NEW heap \in Heaps, NEW kept,
         \A e \in EntryIds : heap[e].key = lruHeap[e].key,
         Part(kept, list), Len(kept) <= Len(lruList),
         Keep(lruIndex, list, kept, heap),
         UNCHANGED <<lruMade, lruOptions, lruNow>>,
         lruReader' \in [LruReaders -> ReaderType], ReadersHold'
  PROVE  LruInv'
<1>1. \A k \in LruKeys : lruIndex[k] # NoEntry => heap[lruIndex[k]].key = k
  BY CacheFacts
<1>2. Len(kept) <= LruMaxSize
  <2>1. Len(kept) \in Nat /\ LruMaxSize \in Nat
    BY ListFacts, LruAssumption DEF Part
  <2>. QED
    BY <2>1, CacheFacts
<1>3. /\ lruIndex' \in [LruKeys -> EntryIds \cup {NoEntry}] /\ lruList' \in Lists /\ lruHeap' \in Heaps
      /\ LruSafe'
  BY <1>1, <1>2, CacheFacts, KeepsTogether
<1>4. lruMade' \in BOOLEAN /\ lruOptions' \in LruOptions /\ lruNow' \in Nat
  BY Zenon DEF LruInv, LruTypeOK
<1>. QED
  BY <1>3, <1>4, Restored

LEMMA GetStep ==
  ASSUME LruInv, NEW p \in LruReaders, NEW k \in LruKeys, LruGet(p, k)
  PROVE  LruInv'
<1>1. lruIndex[k] # NoEntry /\ UNCHANGED <<lruMade, lruOptions, lruNow>>
  BY DEF LruGet
<1>2. PICK e : e = lruIndex[k]
  OBVIOUS
<1>3. /\ e \in EntryIds /\ e \in ToSet(lruList) /\ lruList \in Lists /\ lruHeap \in Heaps
      /\ Len(lruList) \in Nat
  BY <1>1, <1>2, CacheFacts
<1>4. lruReader \in [LruReaders -> ReaderType] /\ ReadersHold
  BY Zenon DEF LruInv, LruTypeOK
<1>5. CASE /\ UNCHANGED lruReader
           /\ Keep(lruIndex, lruList, Swept(Unlink(lruList, e), lruHeap), lruHeap)
  <2>1. PICK rest, kept : rest = Unlink(lruList, e) /\ kept = Swept(rest, lruHeap)
    OBVIOUS
  <2>2. rest \in Lists /\ Len(rest) = Len(lruList) - 1 /\ ToSet(rest) = ToSet(lruList) \ {e}
    BY <1>3, <2>1, UnlinkOne
  <2>3. Part(rest, lruList)
    BY <1>3, <2>2 DEF Part
  <2>4. Part(kept, rest)
    BY <2>1, <2>2, SweptIsPart
  <2>5. Part(kept, lruList)
    BY <1>3, <2>3, <2>4, PartOfPart
  <2>6. Keep(lruIndex, lruList, kept, lruHeap)
    BY <1>5, <2>1
  <2>7. lruReader' \in [LruReaders -> ReaderType] /\ ReadersHold' /\ Len(kept) <= Len(lruList)
    BY <1>4, <1>5, <2>5, Zenon DEF ReadersHold, Part
  <2>. QED
    BY <1>1, <1>3, <2>5, <2>6, <2>7, KeepStep
<1>6. CASE /\ lruReader' = [lruReader EXCEPT ![p] = [ReaderIdle EXCEPT !.pc = "got", !.entry = e]]
           /\ Keep(lruIndex, lruList, MoveToBack(lruList, e),
                   IF lruOptions.maxAge > 0 /\ lruOptions.update
                   THEN [lruHeap EXCEPT ![e].expires = lruNow + lruOptions.maxAge] ELSE lruHeap)
  <2>1. PICK kept, heap :
          /\ kept = MoveToBack(lruList, e)
          /\ heap = IF lruOptions.maxAge > 0 /\ lruOptions.update
                    THEN [lruHeap EXCEPT ![e].expires = lruNow + lruOptions.maxAge] ELSE lruHeap
    OBVIOUS
  <2>2. Keep(lruIndex, lruList, kept, heap)
    BY <1>6, <2>1, Zenon
  <2>3. kept \in Lists /\ Len(kept) = Len(lruList) /\ ToSet(kept) = ToSet(lruList)
    BY <1>3, <2>1, MovedToBack
  <2>4. Part(kept, lruList)
    BY <1>3, <2>3 DEF Part
  <2>5. heap \in Heaps /\ \A d \in EntryIds : heap[d].key = lruHeap[d].key
    <3>1. lruNow + lruOptions.maxAge \in Nat
      <4>1. lruNow \in Nat /\ lruOptions \in LruOptions
        BY Zenon DEF LruInv, LruTypeOK
      <4>2. lruOptions.maxAge = 0 \/ lruOptions.maxAge = 1
        <5>1. \/ lruOptions \in {[maxAge |-> 0, stale |-> TRUE, update |-> FALSE],
                                 [maxAge |-> 1, stale |-> TRUE, update |-> FALSE]}
              \/ \E u \in BOOLEAN : lruOptions = [maxAge |-> 1, stale |-> FALSE, update |-> u]
          BY <4>1, Zenon DEF LruOptions
        <5>2. \A s, u : /\ [maxAge |-> 0, stale |-> s, update |-> u].maxAge = 0
                        /\ [maxAge |-> 1, stale |-> s, update |-> u].maxAge = 1
          OBVIOUS
        <5>. QED
          BY <5>1, <5>2, Zenon
      <4>. QED
        BY <4>1, <4>2
    <3>. QED
      BY <1>3, <2>1, <3>1 DEF Heaps
  <2>6. lruReader' \in [LruReaders -> ReaderType] /\ ReadersHold'
    <3>1. PICK got : got = [ReaderIdle EXCEPT !.pc = "got", !.entry = e]
      OBVIOUS
    <3>2. got \in ReaderType /\ got.entry # NoEntry
      BY <1>1, <1>2, <1>3, <3>1 DEF ReaderIdle, ReaderType
    <3>3. lruReader' = [lruReader EXCEPT ![p] = got]
      BY <1>6, <3>1, Zenon
    <3>. QED
      BY <1>4, <3>2, <3>3 DEF ReadersHold
  <2>. QED
    BY <1>1, <1>3, <2>2, <2>3, <2>4, <2>5, <2>6, KeepStep
<1>. QED
  BY <1>2, <1>5, <1>6, Zenon DEF LruGet

\* The readers' own steps, and Delete.
LEMMA ReadStep ==
  ASSUME LruInv, NEW p \in LruReaders, LruReadValue(p) \/ LruReadExpires(p)
  PROVE  LruInv'
<1>1. UNCHANGED <<lruMade, lruOptions, lruNow, lruIndex, lruList, lruHeap>>
  BY DEF LruReadValue, LruReadExpires
<1>2. /\ lruReader \in [LruReaders -> ReaderType] /\ lruReader[p].entry \in EntryIds
      /\ lruHeap \in Heaps
  <2>1. lruReader \in [LruReaders -> ReaderType] /\ ReadersHold
    BY Zenon DEF LruInv, LruTypeOK
  <2>2. lruReader[p].pc # "idle"
    BY DEF LruReadValue, LruReadExpires
  <2>. QED
    BY <2>1, <2>2, CacheFacts DEF ReadersHold, ReaderType
<1>3. \E new \in ReaderType : new.entry # NoEntry /\ lruReader' = [lruReader EXCEPT ![p] = new]
  <2>1. PICK held : held = lruHeap[lruReader[p].entry]
    OBVIOUS
  <2>2. held.value \in Nat /\ held.expires \in Nat
    BY <1>2, <2>1 DEF Heaps
  <2>3. CASE LruReadValue(p)
    <3>1. PICK new : new = [lruReader[p] EXCEPT !.pc = "value", !.value = held.value]
      OBVIOUS
    <3>2. lruReader' = [lruReader EXCEPT ![p] = new]
      BY <1>2, <2>1, <2>3, <3>1 DEF LruReadValue, ReaderType
    <3>3. new \in ReaderType /\ new.entry = lruReader[p].entry
      BY <1>2, <2>2, <3>1 DEF ReaderType
    <3>4. new.entry # NoEntry
      BY <1>2, <3>3, CacheFacts
    <3>. QED
      BY <3>2, <3>3, <3>4, Zenon
  <2>4. CASE LruReadExpires(p)
    <3>1. PICK new : new = [lruReader[p] EXCEPT !.pc = "read", !.expires = held.expires]
      OBVIOUS
    <3>2. lruReader' = [lruReader EXCEPT ![p] = new]
      BY <1>2, <2>1, <2>4, <3>1 DEF LruReadExpires, ReaderType
    <3>3. new \in ReaderType /\ new.entry = lruReader[p].entry
      BY <1>2, <2>2, <3>1 DEF ReaderType
    <3>4. new.entry # NoEntry
      BY <1>2, <3>3, CacheFacts
    <3>. QED
      BY <3>2, <3>3, <3>4, Zenon
  <2>. QED
    BY <2>3, <2>4
<1>4. lruReader' \in [LruReaders -> ReaderType] /\ ReadersHold'
  BY <1>2, <1>3 DEF ReadersHold, LruInv
<1>5. LruSafe'
  BY <1>1, Zenon DEF LruInv, LruSafe
<1>6. LruTypeOK'
  BY <1>1, <1>4, Zenon DEF LruInv, LruTypeOK
<1>. QED
  BY <1>4, <1>5, <1>6, Zenon DEF LruInv

LEMMA ReturnStep ==
  ASSUME LruInv, NEW p \in LruReaders, LruReturn(p)
  PROVE  LruInv'
<1>1. /\ UNCHANGED <<lruMade, lruOptions, lruNow>> /\ Keep(lruIndex, lruList, lruList, lruHeap)
      /\ lruReader' = [lruReader EXCEPT ![p] = ReaderIdle]
  BY DEF LruReturn
<1>2. lruReader' \in [LruReaders -> ReaderType] /\ ReadersHold'
  <2>1. ReaderIdle \in ReaderType /\ ReaderIdle.pc = "idle"
    BY DEF ReaderIdle, ReaderType
  <2>2. lruReader \in [LruReaders -> ReaderType] /\ ReadersHold
    BY Zenon DEF LruInv, LruTypeOK
  <2>. QED
    BY <1>1, <2>1, <2>2 DEF ReadersHold
<1>3. Part(lruList, lruList) /\ lruList \in Lists /\ lruHeap \in Heaps /\ Len(lruList) \in Nat
  BY CacheFacts DEF Part
<1>. QED
  BY <1>1, <1>2, <1>3, KeepStep

LEMMA DeleteStep ==
  ASSUME LruInv, NEW k \in LruKeys, LruDelete(k)
  PROVE  LruInv'
<1>1. PICK e : e = lruIndex[k]
  OBVIOUS
<1>2. /\ UNCHANGED <<lruMade, lruOptions, lruNow, lruReader>> /\ e # NoEntry
      /\ Keep(lruIndex, lruList, Unlink(lruList, e), lruHeap)
  BY <1>1 DEF LruDelete
<1>3. lruReader' \in [LruReaders -> ReaderType] /\ ReadersHold'
  BY <1>2, Zenon DEF LruInv, LruTypeOK, ReadersHold
<1>4. e \in ToSet(lruList) /\ lruList \in Lists /\ lruHeap \in Heaps /\ Len(lruList) \in Nat
  BY <1>1, <1>2, CacheFacts
<1>5. PICK rest : rest = Unlink(lruList, e)
  OBVIOUS
<1>6. Part(rest, lruList) /\ Len(rest) <= Len(lruList)
  BY <1>4, <1>5, UnlinkOne DEF Part
<1>. QED
  BY <1>2, <1>3, <1>4, <1>5, <1>6, KeepStep

-----------------------------------------------------------------------------
\* The cache's index and list hold the same entries, each under its own key, and
\* never more than the size: through evictions, sweeps, deletions, clock ticks
\* and readers that hold an entry which has left, for every number of them.
THEOREM CacheIsSafe == LruSpec => []LruSafe
<1>1. LruInit => LruInv
  BY LruInitInd
<1>2. LruInv /\ [LruNext]_lruVars => LruInv'
  <2>1. SUFFICES ASSUME LruInv, [LruNext]_lruVars PROVE LruInv'
    OBVIOUS
  <2>2. CASE UNCHANGED lruVars
    <3>1. UNCHANGED <<lruMade, lruOptions, lruNow, lruIndex, lruList, lruHeap, lruReader>>
      BY <2>2 DEF lruVars
    <3>. QED
      BY <2>1, <3>1, Zenon DEF LruInv, LruTypeOK, ReadersHold, LruSafe
  <2>3. ASSUME NEW options \in LruOptions, NewLRUCache(options) PROVE LruInv'
    <3>1. lruMade' = TRUE /\ lruOptions' = options /\ UNCHANGED <<lruNow, lruIndex, lruList, lruHeap, lruReader>>
      BY <2>3 DEF NewLRUCache
    <3>. QED
      BY <2>1, <3>1, Zenon DEF LruInv, LruTypeOK, ReadersHold, LruSafe
  <2>4. CASE LruTick
    <3>1. lruNow' = lruNow + 1 /\ UNCHANGED <<lruMade, lruOptions, lruIndex, lruList, lruHeap, lruReader>>
      BY <2>4 DEF LruTick
    <3>2. lruNow' \in Nat
      <4>1. lruNow \in Nat
        BY <2>1, Zenon DEF LruInv, LruTypeOK
      <4>. QED
        BY <3>1, <4>1
    <3>. QED
      BY <2>1, <3>1, <3>2, Zenon DEF LruInv, LruTypeOK, ReadersHold, LruSafe
  <2>5. ASSUME NEW k \in LruKeys, NEW x \in {lruNow, lruNow + 1}, SetWithExpire(k, x) PROVE LruInv'
    <3>1. x \in Nat
      <4>1. lruNow \in Nat
        BY <2>1, Zenon DEF LruInv, LruTypeOK
      <4>. QED
        BY <4>1
    <3>. QED
      BY <2>1, <2>5, <3>1, SetStep
  <2>6. ASSUME NEW k \in LruKeys, NEW p \in LruReaders, LruGet(p, k) PROVE LruInv'
    BY <2>1, <2>6, GetStep
  <2>7. ASSUME NEW k \in LruKeys, LruDelete(k) PROVE LruInv'
    BY <2>1, <2>7, DeleteStep
  <2>8. ASSUME NEW p \in LruReaders, LruReadValue(p) \/ LruReadExpires(p) \/ LruReturn(p) PROVE LruInv'
    BY <2>1, <2>8, ReadStep, ReturnStep
  <2>. QED
    BY <2>1, <2>2, <2>3, <2>4, <2>5, <2>6, <2>7, <2>8, Zenon DEF LruNext
<1>3. LruInv => LruSafe
  BY DEF LruInv
<1>. QED
  BY <1>1, <1>2, <1>3, PTL DEF LruSpec

-----------------------------------------------------------------------------
\* What is sent of a node.

AnyMessage ==
  [info : {"gotping", "gotspeed", "endone"}, id : Nat, value : Nat \cup {"N/A", "number", ""}]

LEMMA NoneLeft ==
  ASSUME NEW M, NEW r \in Seq(M)
  PROVE  r = << >> <=> Len(r) = 0
OBVIOUS

LEMMA OneMore ==
  ASSUME NEW M, NEW q \in Seq(M), NEW e \in M
  PROVE  /\ q \o <<e>> \in Seq(M) /\ Len(q \o <<e>>) = Len(q) + 1
         /\ \A i \in 1 .. Len(q) + 1 : (q \o <<e>>)[i] = IF i <= Len(q) THEN q[i] ELSE e
<1>1. <<e>> \in Seq(M) /\ Len(<<e>>) = 1 /\ <<e>>[1] = e
  OBVIOUS
<1>2. /\ q \o <<e>> \in Seq(M) /\ Len(q \o <<e>>) = Len(q) + 1
      /\ \A i \in 1 .. Len(q) + 1 : (q \o <<e>>)[i] = IF i <= Len(q) THEN q[i] ELSE <<e>>[i - Len(q)]
  BY <1>1, ConcatProperties
<1>3. Len(q) \in Nat
  BY LenProperties
<1>4. \A i \in 1 .. Len(q) + 1 : i <= Len(q) \/ i - Len(q) = 1
  BY <1>3
<1>. QED
  BY <1>1, <1>2, <1>4

LEMMA SequenceOfMessages ==
  ASSUME NEW M, NEW r \in Seq(M)
  PROVE  Sequence(r)
<1>1. Len(r) \in Nat /\ r \in [1 .. Len(r) -> M]
  BY LenProperties
<1>. QED
  BY <1>1 DEF Sequence

LEMMA SequenceFacts ==
  ASSUME NEW r, Sequence(r)
  PROVE  \E M : r \in Seq(M) /\ M = {r[i] : i \in 1 .. Len(r)}
<1>. DEFINE M == {r[i] : i \in 1 .. Len(r)}
<1>1. Len(r) \in Nat /\ r = [i \in 1 .. Len(r) |-> r[i]]
  BY DEF Sequence
<1>2. [i \in 1 .. Len(r) |-> r[i]] \in [1 .. Len(r) -> M]
  OBVIOUS
<1>3. r \in [1 .. Len(r) -> M]
  BY <1>1, <1>2, Zenon
<1>4. r \in Seq(M)
  BY <1>1, <1>3
<1>. QED
  BY <1>4

\* The rest of a sequence of messages that is not empty.
LEMMA RestOf ==
  ASSUME NEW r, Sequence(r), r # << >>
  PROVE  /\ Len(r) \in Nat \ {0} /\ DOMAIN r = 1 .. Len(r) /\ Head(r) = r[1]
         /\ Sequence(Tail(r)) /\ Len(Tail(r)) = Len(r) - 1 /\ DOMAIN Tail(r) = 1 .. Len(r) - 1
         /\ \A i \in 1 .. Len(r) - 1 : Tail(r)[i] = r[i + 1]
         /\ Tail(r) = << >> <=> Len(r) = 1
<1>1. PICK M : r \in Seq(M)
  BY SequenceFacts
<1>2. Len(r) \in Nat \ {0} /\ DOMAIN r = 1 .. Len(r) /\ Head(r) = r[1]
  BY <1>1, LenProperties, EmptySeq
<1>3. /\ Tail(r) \in Seq(M) /\ Len(Tail(r)) = Len(r) - 1
      /\ \A i \in 1 .. Len(Tail(r)) : Tail(r)[i] = r[i + 1]
  BY <1>1, HeadTailProperties
<1>4. DOMAIN Tail(r) = 1 .. Len(r) - 1 /\ Sequence(Tail(r))
  BY <1>3, LenProperties, SequenceOfMessages
<1>5. Tail(r) = << >> <=> Len(r) = 1
  BY <1>2, <1>3, NoneLeft
<1>. QED
  BY <1>2, <1>3, <1>4, <1>5

\* The ping, if any, the speeds, and endone.
Frame(r, first, speeds, last) ==
  /\ first \in Seq(AnyMessage) /\ speeds \in Seq(AnyMessage) /\ last \in AnyMessage
  /\ Len(first) = 0 \/ (Len(first) = 1 /\ first[1].info = "gotping")
  /\ \A i \in 1 .. Len(speeds) : speeds[i].info = "gotspeed" /\ speeds[i].value \in {"N/A", "number"}
  /\ last.info = "endone" /\ r = first \o speeds \o <<last>>

LEMMA Framed ==
  ASSUME NEW r, NEW first, NEW speeds, NEW last, Frame(r, first, speeds, last)
  PROVE  /\ Sequence(r) /\ r # << >> /\ InOrder(r)
         /\ Len(first) = 1 => r[1] = first[1]
         /\ Len(first) = 0 => r[1].info # "gotping"
         /\ Len(speeds) > 0 => Len(r) > 1 /\ r[Len(r) - 1] = speeds[Len(speeds)]
         /\ Len(speeds) = 0 => Len(r) = 1 \/ r[Len(r) - 1].info = "gotping"
<1>0. /\ first \in Seq(AnyMessage) /\ speeds \in Seq(AnyMessage) /\ last \in AnyMessage
      /\ Len(first) = 0 \/ (Len(first) = 1 /\ first[1].info = "gotping")
      /\ \A i \in 1 .. Len(speeds) : speeds[i].info = "gotspeed" /\ speeds[i].value \in {"N/A", "number"}
      /\ last.info = "endone" /\ r = first \o speeds \o <<last>>
  BY Zenon DEF Frame
<1>. DEFINE front == first \o speeds
<1>1. /\ front \in Seq(AnyMessage) /\ Len(front) = Len(first) + Len(speeds)
      /\ \A i \in 1 .. Len(first) + Len(speeds) :
           front[i] = IF i <= Len(first) THEN first[i] ELSE speeds[i - Len(first)]
  BY <1>0, ConcatProperties
<1>2. Len(first) \in {0, 1} /\ Len(speeds) \in Nat
  BY <1>0, LenProperties
<1>3. r = front \o <<last>>
  BY <1>0
<1>. HIDE DEF front
<1>4. /\ r \in Seq(AnyMessage) /\ Len(r) = Len(front) + 1
      /\ \A i \in 1 .. Len(front) + 1 : r[i] = IF i <= Len(front) THEN front[i] ELSE last
  <2>1. front \in Seq(AnyMessage) /\ last \in AnyMessage
    BY <1>0, <1>1, Zenon
  <2>. QED
    BY <2>1, <1>3, OneMore, Zenon
<1>5. DOMAIN r = 1 .. Len(first) + Len(speeds) + 1 /\ Len(r) = Len(first) + Len(speeds) + 1
  BY <1>1, <1>4, LenProperties
<1>6. \A i \in 1 .. Len(first) + Len(speeds) + 1 :
        r[i] = IF i <= Len(first) THEN first[1]
               ELSE IF i <= Len(first) + Len(speeds) THEN speeds[i - Len(first)] ELSE last
  BY <1>1, <1>2, <1>3, <1>4
<1>7. Sequence(r) /\ r # << >>
  <2>1. Len(r) # 0
    BY <1>2, <1>5
  <2>. QED
    BY <1>4, <2>1, SequenceOfMessages, NoneLeft, Zenon
<1>8. ASSUME NEW i \in 1 .. Len(first) + Len(speeds) + 1
      PROVE  /\ i = 1 /\ Len(first) = 1 => r[i] = first[1]
             /\ i = Len(first) + Len(speeds) + 1 => r[i] = last
             /\ i # Len(first) + Len(speeds) + 1 /\ ~(i = 1 /\ Len(first) = 1) =>
                  \E k \in 1 .. Len(speeds) : r[i] = speeds[k]
  <2>1. CASE i <= Len(first)
    <3>0. i \in Nat /\ i >= 1
      BY <1>2
    <3>1. i = 1 /\ Len(first) = 1 /\ i # Len(first) + Len(speeds) + 1
      <4>1. CASE Len(first) = 0
        BY <2>1, <3>0, <4>1
      <4>2. CASE Len(first) = 1
        BY <1>2, <2>1, <3>0, <4>2
      <4>. QED
        BY <1>2, <4>1, <4>2
    <3>2. r[i] = first[1]
      BY <1>6, <2>1
    <3>. QED
      BY <3>1, <3>2
  <2>2. CASE i > Len(first) /\ i <= Len(first) + Len(speeds)
    <3>1. r[i] = speeds[i - Len(first)] /\ i - Len(first) \in 1 .. Len(speeds)
      BY <1>2, <1>6, <2>2
    <3>2. i # Len(first) + Len(speeds) + 1 /\ ~(i = 1 /\ Len(first) = 1)
      BY <1>2, <2>2
    <3>. QED
      BY <3>1, <3>2
  <2>3. CASE i = Len(first) + Len(speeds) + 1
    BY <1>2, <1>6, <2>3
  <2>4. i <= Len(first) \/ (i > Len(first) /\ i <= Len(first) + Len(speeds)) \/ i = Len(first) + Len(speeds) + 1
    BY <1>2
  <2>. QED
    BY <2>1, <2>2, <2>3, <2>4
<1>9. InOrder(r)
  <2>1. ASSUME NEW i \in 1 .. Len(first) + Len(speeds) + 1
        PROVE  /\ r[i].info \in {"gotping", "gotspeed", "endone"}
               /\ r[i].info = "gotping" => i = 1
               /\ r[i].info = "gotspeed" => r[i].value \in {"N/A", "number"}
               /\ r[i].info = "endone" <=> i = Len(first) + Len(speeds) + 1
    <3>1. CASE i = Len(first) + Len(speeds) + 1
      <4>1. r[i].info = "endone"
        BY <1>0, <1>8, <3>1
      <4>. QED
        BY <3>1, <4>1
    <3>2. CASE i # Len(first) + Len(speeds) + 1 /\ i = 1 /\ Len(first) = 1
      <4>1. r[i] = first[1]
        BY <1>8, <3>2
      <4>2. first[1].info = "gotping"
        BY <1>0, <3>2
      <4>. QED
        BY <3>2, <4>1, <4>2
    <3>3. CASE i # Len(first) + Len(speeds) + 1 /\ ~(i = 1 /\ Len(first) = 1)
      <4>1. r[i].info = "gotspeed" /\ r[i].value \in {"N/A", "number"}
        BY <1>0, <1>8, <3>3
      <4>. QED
        BY <3>3, <4>1
    <3>. QED
      BY <3>1, <3>2, <3>3
  <2>. QED
    BY <1>5, <2>1 DEF InOrder
<1>10. /\ Len(first) = 1 => r[1] = first[1]
       /\ Len(first) = 0 => r[1].info # "gotping"
  <2>1. 1 \in DOMAIN r
    BY <1>2, <1>5
  <2>2. Len(first) = 1 => r[1] = first[1]
    BY <1>0, <1>2, <1>5, <1>8, <2>1
  <2>3. Len(first) = 0 => r[1].info # "gotping"
    BY <1>0, <1>2, <1>5, <1>8, <2>1
  <2>. QED
    BY <2>2, <2>3
<1>11. /\ Len(speeds) > 0 => Len(r) > 1 /\ r[Len(r) - 1] = speeds[Len(speeds)]
       /\ Len(speeds) = 0 => Len(r) = 1 \/ r[Len(r) - 1].info = "gotping"
  <2>1. CASE Len(speeds) > 0
    <3>1. Len(r) > 1 /\ Len(r) - 1 = Len(first) + Len(speeds)
      BY <1>2, <1>5, <2>1
    <3>2. /\ Len(first) + Len(speeds) \in 1 .. Len(first) + Len(speeds) + 1
          /\ ~(Len(first) + Len(speeds) <= Len(first))
          /\ Len(first) + Len(speeds) - Len(first) = Len(speeds)
      BY <1>2, <2>1
    <3>3. r[Len(first) + Len(speeds)] = speeds[Len(speeds)]
      BY <1>6, <3>2
    <3>. QED
      BY <2>1, <3>1, <3>3
  <2>2. CASE Len(speeds) = 0 /\ Len(first) = 1
    <3>1. Len(r) - 1 = 1
      BY <1>5, <2>2
    <3>. QED
      BY <1>0, <1>10, <2>2, <3>1
  <2>3. CASE Len(speeds) = 0 /\ Len(first) = 0
    BY <1>5, <2>3
  <2>. QED
    BY <1>2, <2>1, <2>2, <2>3
<1>. QED
  BY <1>7, <1>9, <1>10, <1>11

\* Speeds in a row, and whether the last of them is a number.
SpeedRow(s) ==
  s \in Seq(AnyMessage) /\ \A i \in 1 .. Len(s) : s[i].info = "gotspeed" /\ s[i].value \in {"N/A", "number"}
EndsFast(s) == Len(s) > 0 /\ s[Len(s)].value = "number"

LEMMA SpeedsJoin ==
  ASSUME NEW a, NEW b, SpeedRow(a), SpeedRow(b)
  PROVE  SpeedRow(a \o b) /\ (EndsFast(a \o b) <=> IF Len(b) > 0 THEN EndsFast(b) ELSE EndsFast(a))
<1>0. /\ a \in Seq(AnyMessage) /\ b \in Seq(AnyMessage)
      /\ \A i \in 1 .. Len(a) : a[i].info = "gotspeed" /\ a[i].value \in {"N/A", "number"}
      /\ \A i \in 1 .. Len(b) : b[i].info = "gotspeed" /\ b[i].value \in {"N/A", "number"}
  BY Zenon DEF SpeedRow
<1>1. /\ a \o b \in Seq(AnyMessage) /\ Len(a \o b) = Len(a) + Len(b)
      /\ \A i \in 1 .. Len(a) + Len(b) : (a \o b)[i] = IF i <= Len(a) THEN a[i] ELSE b[i - Len(a)]
  BY <1>0, ConcatProperties
<1>2. PICK c : c = a \o b
  OBVIOUS
<1>3. /\ c \in Seq(AnyMessage) /\ Len(c) = Len(a) + Len(b) /\ Len(a) \in Nat /\ Len(b) \in Nat
      /\ \A i \in 1 .. Len(a) + Len(b) : c[i] = IF i <= Len(a) THEN a[i] ELSE b[i - Len(a)]
  BY <1>0, <1>1, <1>2, LenProperties
<1>4. SpeedRow(c)
  <2>1. ASSUME NEW i \in 1 .. Len(c) PROVE c[i].info = "gotspeed" /\ c[i].value \in {"N/A", "number"}
    <3>1. CASE i <= Len(a)
      BY <1>0, <1>3, <2>1, <3>1
    <3>2. CASE i > Len(a)
      <4>1. i - Len(a) \in 1 .. Len(b) /\ c[i] = b[i - Len(a)]
        BY <1>3, <2>1, <3>2
      <4>. QED
        BY <1>0, <4>1
    <3>. QED
      BY <1>3, <2>1, <3>1, <3>2
  <2>. QED
    BY <1>3, <2>1 DEF SpeedRow
<1>5. EndsFast(c) <=> IF Len(b) > 0 THEN EndsFast(b) ELSE EndsFast(a)
  <2>1. CASE Len(b) > 0
    <3>1. Len(c) > 0 /\ c[Len(c)] = b[Len(b)]
      BY <1>3, <2>1
    <3>. QED
      BY <2>1, <3>1 DEF EndsFast
  <2>2. CASE Len(b) = 0
    <3>1. Len(c) = Len(a) /\ (Len(a) > 0 => c[Len(a)] = a[Len(a)])
      BY <1>3, <2>2
    <3>. QED
      BY <2>2, <3>1 DEF EndsFast
  <2>. QED
    BY <1>3, <2>1, <2>2
<1>. QED
  BY <1>2, <1>4, <1>5

LEMMA AverageFacts ==
  ASSUME NEW sample \in [sum : Nat, ms : Nat]
  PROVE  Average(sample) \in Nat /\ (sample.sum = 0 => Average(sample) = 0)
<1>1. PICK s, e : s = sample.sum * 1000 /\ e = IF sample.ms < 1 THEN 1 ELSE sample.ms
  OBVIOUS
<1>2. s \in Nat /\ e \in Nat \ {0} /\ (sample.sum = 0 => s = 0)
  BY <1>1
<1>3. s \div e \in Nat /\ (s = 0 => s \div e = 0)
  BY <1>2
<1>. QED
  BY <1>1, <1>2, <1>3 DEF Average

\* The last of the speeds sent of a node is a number exactly when it is
\* reported with an average.
SomeSample == [sum : Nat, ms : Nat]
OutcomeType == [direct : BOOLEAN, ping : Nat, error : BOOLEAN, samples : Seq(SomeSample), silent : BOOLEAN]
Silence(o) == o.silent => \A i \in DOMAIN o.samples : o.samples[i].sum = 0

LEMMA SpeedsAgree ==
  ASSUME NEW id \in Nat, NEW mode \in {"all", "pingonly", "speedonly"}, NEW o \in OutcomeType, Silence(o)
  PROVE  /\ SpeedRow(SpeedsSent(id, mode, o))
         /\ Result(mode, o) \in [ping : Nat, avg : Nat, sum : Nat]
         /\ Result(mode, o).ping = (IF mode = "speedonly" THEN 0 ELSE o.ping)
         /\ Result(mode, o).avg > 0 <=> EndsFast(SpeedsSent(id, mode, o))
<1>. DEFINE shown == [i \in DOMAIN o.samples |-> Message("gotspeed", id, Shown(Average(o.samples[i])))]
            given == IF GivesUp(mode, o) THEN <<NoSpeed(id)>> ELSE << >>
            told == IF Tested(mode, o) THEN shown ELSE << >>
            none == IF Tested(mode, o) /\ o.silent THEN <<NoSpeed(id)>> ELSE << >>
            end == IF Tested(mode, o) /\ o.samples # << >> THEN o.samples[Len(o.samples)] ELSE [sum |-> 0, ms |-> 0]
<1>1. /\ o.samples \in Seq(SomeSample) /\ o.ping \in Nat /\ o.silent \in BOOLEAN
      /\ Len(o.samples) \in Nat /\ DOMAIN o.samples = 1 .. Len(o.samples)
      /\ \A i \in 1 .. Len(o.samples) : o.samples[i] \in SomeSample
      /\ o.samples = << >> <=> Len(o.samples) = 0
  <2>1. o.samples \in Seq(SomeSample) /\ o.ping \in Nat /\ o.silent \in BOOLEAN
    BY DEF OutcomeType
  <2>. QED
    BY <2>1, LenProperties, ElementOfSeq, NoneLeft
<1>2. NoSpeed(id) \in AnyMessage /\ NoSpeed(id).info = "gotspeed" /\ NoSpeed(id).value = "N/A"
  BY DEF NoSpeed, Message, AnyMessage
<1>3. SpeedRow(<< >>) /\ ~EndsFast(<< >>) /\ Len(<< >>) = 0
  BY DEF SpeedRow, EndsFast
<1>4. SpeedRow(<<NoSpeed(id)>>) /\ ~EndsFast(<<NoSpeed(id)>>) /\ Len(<<NoSpeed(id)>>) = 1
  <2>1. PICK m \in AnyMessage : m = NoSpeed(id) /\ m.info = "gotspeed" /\ m.value = "N/A"
    BY <1>2
  <2>2. <<m>> \in Seq(AnyMessage) /\ Len(<<m>>) = 1 /\ <<m>>[1] = m
    OBVIOUS
  <2>3. SpeedRow(<<m>>) /\ ~EndsFast(<<m>>)
    BY <2>1, <2>2 DEF SpeedRow, EndsFast
  <2>. QED
    BY <2>1, <2>2, <2>3
<1>5. \A i \in 1 .. Len(o.samples) : Average(o.samples[i]) \in Nat
  BY <1>1, AverageFacts DEF SomeSample
<1>6. /\ SpeedRow(shown) /\ Len(shown) = Len(o.samples)
      /\ \A i \in 1 .. Len(o.samples) : shown[i].value = "number" <=> Average(o.samples[i]) > 0
  <2>1. \A i \in 1 .. Len(o.samples) : Message("gotspeed", id, Shown(Average(o.samples[i]))) \in AnyMessage
    BY DEF Message, AnyMessage, Shown
  <2>2. shown \in [1 .. Len(o.samples) -> AnyMessage]
    BY <1>1, <2>1
  <2>3. shown \in Seq(AnyMessage) /\ Len(shown) = Len(o.samples)
    BY <1>1, <2>2
  <2>4. ASSUME NEW i \in 1 .. Len(o.samples)
        PROVE  /\ shown[i].info = "gotspeed" /\ shown[i].value \in {"N/A", "number"}
               /\ shown[i].value = "number" <=> Average(o.samples[i]) > 0
    <3>1. shown[i] = Message("gotspeed", id, Shown(Average(o.samples[i])))
      BY <1>1, <2>4
    <3>2. PICK a \in Nat : a = Average(o.samples[i])
      BY <1>5, <2>4
    <3>3. shown[i].info = "gotspeed" /\ shown[i].value = Shown(a)
      BY <3>1, <3>2 DEF Message
    <3>. QED
      BY <3>2, <3>3 DEF Shown
  <2>. QED
    BY <2>3, <2>4 DEF SpeedRow
<1>7. SpeedsSent(id, mode, o) = (given \o told) \o none
  BY DEF SpeedsSent
<1>8. Result(mode, o) = [ping |-> IF mode = "speedonly" THEN 0 ELSE o.ping, avg |-> Average(end), sum |-> end.sum]
  BY DEF Result
<1>9. end \in SomeSample
  BY <1>1 DEF SomeSample
<1>10. Average(end) \in Nat /\ (end.sum = 0 => Average(end) = 0)
  BY <1>9, AverageFacts DEF SomeSample
<1>11. SpeedRow(given) /\ ~EndsFast(given) /\ Len(given) \in Nat
  BY <1>3, <1>4
<1>12. /\ SpeedRow(told) /\ Len(told) \in Nat
       /\ Len(told) > 0 => (EndsFast(told) <=> Average(end) > 0)
       /\ Len(told) = 0 => Average(end) = 0
  <2>1. CASE Tested(mode, o) /\ Len(o.samples) > 0
    <3>1. told = shown /\ end = o.samples[Len(o.samples)]
      BY <1>1, <2>1
    <3>. HIDE DEF shown, told, end
    <3>2. shown[Len(o.samples)].value = "number" <=> Average(o.samples[Len(o.samples)]) > 0
      BY <1>1, <1>6, <2>1
    <3>3. EndsFast(shown) <=> Average(o.samples[Len(o.samples)]) > 0
      BY <1>6, <2>1, <3>2 DEF EndsFast
    <3>. QED
      BY <1>1, <1>6, <2>1, <3>1, <3>3
  <2>2. CASE ~Tested(mode, o) \/ Len(o.samples) = 0
    <3>1. end = [sum |-> 0, ms |-> 0] /\ Average(end) = 0
      BY <1>1, <1>10, <2>2
    <3>2. told = << >> \/ (told = shown /\ Len(shown) = 0)
      BY <1>6, <2>2
    <3>. HIDE DEF shown, told, end
    <3>. QED
      BY <1>3, <1>6, <3>1, <3>2
  <2>. QED
    BY <1>1, <2>1, <2>2
<1>13. /\ SpeedRow(none) /\ ~EndsFast(none) /\ Len(none) \in Nat
       /\ Len(none) > 0 => Average(end) = 0
  <2>1. CASE Tested(mode, o) /\ o.silent
    <3>1. end.sum = 0
      BY <1>1, <2>1 DEF Silence
    <3>. QED
      BY <1>4, <1>10, <2>1, <3>1
  <2>2. CASE ~(Tested(mode, o) /\ o.silent)
    BY <1>3, <2>2
  <2>. QED
    BY <2>1, <2>2
<1>. HIDE DEF given, told, none, end, shown
<1>14. /\ SpeedRow(given \o told)
       /\ EndsFast(given \o told) <=> IF Len(told) > 0 THEN EndsFast(told) ELSE EndsFast(given)
  BY <1>11, <1>12, SpeedsJoin
<1>15. /\ SpeedRow((given \o told) \o none)
       /\ EndsFast((given \o told) \o none) <=> IF Len(none) > 0 THEN EndsFast(none) ELSE EndsFast(given \o told)
  BY <1>13, <1>14, SpeedsJoin
<1>16. EndsFast((given \o told) \o none) <=> Average(end) > 0
  BY <1>10, <1>11, <1>12, <1>13, <1>14, <1>15
<1>17. /\ Result(mode, o) \in [ping : Nat, avg : Nat, sum : Nat] /\ Result(mode, o).avg = Average(end)
       /\ Result(mode, o).ping = (IF mode = "speedonly" THEN 0 ELSE o.ping)
  BY <1>1, <1>8, <1>9, <1>10 DEF SomeSample
<1>. QED
  BY <1>7, <1>15, <1>16, <1>17

\* testOne's messages of a node agree with its result, before any is sent.
Agrees(r, node) ==
  /\ Sequence(r) /\ r # << >> /\ InOrder(r) /\ node \in [ping : Nat, avg : Nat, sum : Nat]
  /\ IF r[1].info = "gotping" THEN r[1].value = node.ping ELSE node.ping = 0
  /\ node.avg > 0 <=> Len(r) > 1 /\ r[Len(r) - 1].info = "gotspeed" /\ r[Len(r) - 1].value = "number"

LEMMA SentAgrees ==
  ASSUME NEW id \in Nat, NEW mode \in {"all", "pingonly", "speedonly"}, NEW o \in OutcomeType, Silence(o)
  PROVE  Agrees(Sent(id, mode, o), Result(mode, o))
<1>. DEFINE first == IF mode = "speedonly" THEN << >> ELSE <<Message("gotping", id, o.ping)>>
<1>0. Sent(id, mode, o) = first \o SpeedsSent(id, mode, o) \o <<Message("endone", id, "")>>
  BY DEF Sent
<1>a. /\ mode = "speedonly" => first = << >>
      /\ mode # "speedonly" => first = <<Message("gotping", id, o.ping)>>
  OBVIOUS
<1>b. Message("endone", id, "") \in AnyMessage /\ Message("endone", id, "").info = "endone"
  BY DEF Message, AnyMessage
<1>. HIDE DEF first
<1>c. PICK f, s, l : f = first /\ s = SpeedsSent(id, mode, o) /\ l = Message("endone", id, "")
  OBVIOUS
<1>1. PICK r, node : r = Sent(id, mode, o) /\ node = Result(mode, o)
  OBVIOUS
<1>2. r = f \o s \o <<l>>
  BY <1>0, <1>1, <1>c, Zenon
<1>3. l \in AnyMessage /\ l.info = "endone"
  BY <1>b, <1>c, Zenon
<1>4. /\ f \in Seq(AnyMessage)
      /\ mode = "speedonly" => Len(f) = 0
      /\ mode # "speedonly" => Len(f) = 1 /\ f[1].info = "gotping" /\ f[1].value = o.ping
  <2>1. CASE mode = "speedonly"
    <3>1. f = << >>
      BY <1>a, <1>c, <2>1
    <3>. QED
      BY <2>1, <3>1
  <2>2. CASE mode # "speedonly"
    <3>0. o.ping \in Nat
      BY DEF OutcomeType
    <3>1. PICK m : m = Message("gotping", id, o.ping)
      OBVIOUS
    <3>2. m \in AnyMessage /\ m.info = "gotping" /\ m.value = o.ping
      BY <3>0, <3>1 DEF Message, AnyMessage
    <3>3. f = <<m>>
      BY <1>a, <1>c, <2>2, <3>1, Zenon
    <3>. QED
      BY <2>2, <3>2, <3>3
  <2>. QED
    BY <2>1, <2>2
<1>5. /\ SpeedRow(s) /\ node \in [ping : Nat, avg : Nat, sum : Nat]
      /\ node.ping = (IF mode = "speedonly" THEN 0 ELSE o.ping)
      /\ node.avg > 0 <=> EndsFast(s)
  BY <1>1, <1>c, SpeedsAgree
<1>6. s \in Seq(AnyMessage) /\ Len(s) \in Nat
      /\ \A i \in 1 .. Len(s) : s[i].info = "gotspeed" /\ s[i].value \in {"N/A", "number"}
  BY <1>5, LenProperties DEF SpeedRow
<1>7. Frame(r, f, s, l)
  <2>1. Len(f) = 0 \/ (Len(f) = 1 /\ f[1].info = "gotping")
    BY <1>4, Zenon
  <2>. QED
    BY <1>2, <1>3, <1>4, <1>6, <2>1, Zenon DEF Frame
<1>8. /\ Sequence(r) /\ r # << >> /\ InOrder(r)
      /\ Len(f) = 1 => r[1] = f[1]
      /\ Len(f) = 0 => r[1].info # "gotping"
      /\ Len(s) > 0 => Len(r) > 1 /\ r[Len(r) - 1] = s[Len(s)]
      /\ Len(s) = 0 => Len(r) = 1 \/ r[Len(r) - 1].info = "gotping"
  BY <1>7, Framed
<1>9. IF r[1].info = "gotping" THEN r[1].value = node.ping ELSE node.ping = 0
  BY <1>4, <1>5, <1>8
<1>10. node.avg > 0 <=> Len(r) > 1 /\ r[Len(r) - 1].info = "gotspeed" /\ r[Len(r) - 1].value = "number"
  <2>1. CASE Len(s) > 0
    <3>1. r[Len(r) - 1] = s[Len(s)] /\ s[Len(s)].info = "gotspeed" /\ Len(r) > 1
      BY <1>6, <1>8, <2>1
    <3>. QED
      BY <1>5, <2>1, <3>1 DEF EndsFast
  <2>2. CASE Len(s) = 0
    <3>0. Len(r) = 1 \/ r[Len(r) - 1].info = "gotping"
      BY <1>8, <2>2, Zenon
    <3>1. ~(Len(r) > 1 /\ r[Len(r) - 1].info = "gotspeed")
      BY <3>0
    <3>2. ~EndsFast(s)
      BY <2>2 DEF EndsFast
    <3>. QED
      BY <1>5, <3>1, <3>2
  <2>. QED
    BY <1>6, <2>1, <2>2
<1>. QED
  BY <1>1, <1>5, <1>8, <1>9, <1>10, Zenon DEF Agrees

-----------------------------------------------------------------------------
\* The inductive invariant.

LEMMA InitInv == MsgInit => MsgInv
<1>. SUFFICES ASSUME MsgInit PROVE MsgInv
  OBVIOUS
<1>1. /\ msgCount = 0 /\ msgNext = 0 /\ msgToSend = << >> /\ msgNode = << >> /\ progress = << >>
      /\ total = 0 /\ done = 0 /\ msgLines = << >> /\ pageOpen = TRUE /\ pageRows = << >> /\ Reporters = {}
  BY DEF MsgInit, Reporters
<1>2. MsgTypeOK
  BY <1>1 DEF MsgTypeOK
<1>3. ChunksCover
  BY <1>1 DEF ChunksCover
<1>4. CounterSound
  <2>1. {id \in DOMAIN msgToSend : msgToSend[id] = << >>} = {}
    BY <1>1
  <2>. QED
    BY <1>1, <2>1, FS_EmptySet DEF CounterSound
<1>5. LineTellsResult
  BY <1>1 DEF LineTellsResult
<1>. QED
  BY <1>1, <1>2, <1>3, <1>4, <1>5 DEF MsgInv, MessageSafe

\* A chunk has at least one node and ends with the list.
LEMMA ChunkFacts ==
  ASSUME MsgTypeOK, msgNext < msgCount
  PROVE  ChunkEnd \in msgNext + 1 .. msgCount
<1>1. msgCount \in Nat /\ msgNext \in Nat
  BY DEF MsgTypeOK
<1>2. Step(msgCount) \in Nat \ {0}
  BY <1>1 DEF Step
<1>. QED
  BY <1>1, <1>2 DEF ChunkEnd

\* The nodes that report are of the list.
LEMMA ReportersListed ==
  ASSUME msgCount \in Nat, NEW id \in Reporters
  PROVE  id \in 0 .. msgCount - 1 /\ msgCount > 0
BY DEF Reporters, Reporting

LEMMA StartInv ==
  ASSUME MsgInv, NEW n \in LinkCounts, NEW mode \in {"all", "pingonly", "speedonly"}, StartRun(n, mode)
  PROVE  MsgInv'
<1>1. PICK outcome \in [Reporting(n) -> Outcomes] :
        /\ msgToSend' = [id \in Reporting(n) |-> Sent(id, mode, outcome[id])]
        /\ msgNode' = [id \in Reporting(n) |-> Result(mode, outcome[id])]
  BY DEF StartRun
<1>2. n \in Nat \ {0} /\ Reporting(n) \subseteq 0 .. n - 1
  BY MsgAssumption DEF Reporting
<1>3. /\ msgCount = 0 /\ msgCount' = n
      /\ UNCHANGED <<msgNext, progress, total, done, msgLines, pageOpen, pageRows>>
  BY DEF StartRun
<1>4. MsgTypeOK /\ ChunksCover /\ CounterSound /\ LineTellsResult
  BY DEF MsgInv, MessageSafe
<1>5. Reporters = {} /\ msgNext = 0 /\ Reporters' = Reporting(n)
  BY <1>2, <1>3, <1>4 DEF Reporters, MsgTypeOK
<1>6. ASSUME NEW id \in Reporting(n)
      PROVE  Agrees(msgToSend'[id], msgNode'[id])
  <2>1. PICK o \in Outcomes : o = outcome[id]
    BY <1>6
  <2>2. o \in OutcomeType /\ Silence(o)
    <3>1. /\ o \in [direct : BOOLEAN, ping : Pings, error : BOOLEAN, samples : Samples, silent : BOOLEAN]
          /\ o.silent => \A i \in DOMAIN o.samples : o.samples[i].sum = 0
      BY <2>1 DEF Outcomes
    <3>2. o.samples \in SeqOf([sum : Sums, ms : Times], 2)
      BY <3>1 DEF Samples
    <3>3. PICK m \in 0 .. 2 : o.samples \in [1 .. m -> [sum : Sums, ms : Times]]
      BY <3>2 DEF SeqOf
    <3>4. o.samples \in [1 .. m -> SomeSample]
      BY <3>3, MsgAssumption DEF SomeSample
    <3>5. m \in Nat /\ \A q \in [1 .. m -> SomeSample] : q \in Seq(SomeSample)
      OBVIOUS
    <3>6. o.samples \in Seq(SomeSample)
      BY <3>4, <3>5
    <3>7. o \in OutcomeType
      BY <3>1, <3>6, MsgAssumption DEF OutcomeType
    <3>. QED
      BY <3>1, <3>7 DEF Silence
  <2>3. id \in Nat
    BY <1>2, <1>6
  <2>4. msgToSend'[id] = Sent(id, mode, o) /\ msgNode'[id] = Result(mode, o)
    BY <1>1, <1>6, <2>1
  <2>5. Agrees(Sent(id, mode, o), Result(mode, o))
    BY <2>2, <2>3, SentAgrees
  <2>. QED
    BY <2>4, <2>5, Zenon
<1>7. DOMAIN msgToSend' = Reporting(n) /\ DOMAIN msgNode' = Reporting(n)
  BY <1>1
<1>8. MsgTypeOK'
  BY <1>2, <1>3, <1>4, <1>5, <1>6, <1>7 DEF MsgTypeOK, Agrees
<1>9. ChunksCover'
  BY <1>3, <1>4 DEF ChunksCover
<1>10. CounterSound'
  <2>1. {id \in DOMAIN msgToSend' : msgToSend'[id] = << >>} = {} /\ {id \in DOMAIN msgToSend : msgToSend[id] = << >>} = {}
    BY <1>4, <1>5, <1>6, <1>7 DEF MsgTypeOK, Agrees
  <2>. QED
    BY <1>3, <1>4, <2>1 DEF CounterSound
<1>11. LineTellsResult'
  BY <1>3, <1>4, <1>5 DEF LineTellsResult, MsgTypeOK
<1>12. ASSUME NEW id \in Reporting(n)
       PROVE  InOrder(msgToSend[id])' /\ Pinged(id)' /\ Fast(id)' /\ msgToSend'[id] # << >>
  <2>1. ~(id < msgNext')
    BY <1>2, <1>3, <1>5, <1>12
  <2>2. Pinged(id)'
    BY <1>6, <1>12, <2>1 DEF Pinged, Agrees
  <2>3. Fast(id)'
    BY <1>6, <1>12, <2>1 DEF Fast, LastSpeed, Agrees
  <2>4. InOrder(msgToSend[id])'
    BY <1>6, <1>12 DEF InOrder, Agrees
  <2>. QED
    BY <1>6, <1>12, <2>2, <2>3, <2>4 DEF Agrees
<1>. QED
  BY <1>5, <1>8, <1>9, <1>10, <1>11, <1>12 DEF MsgInv, MessageSafe

LEMMA AnnounceInv == ASSUME MsgInv, Announce PROVE MsgInv'
<1>1. MsgTypeOK /\ ChunksCover /\ CounterSound /\ LineTellsResult
  BY DEF MsgInv, MessageSafe
<1>2. /\ msgNext < msgCount /\ msgNext' = ChunkEnd
      /\ UNCHANGED <<msgCount, msgMode, msgToSend, msgNode, done, msgLines, pageOpen>>
      /\ pageRows' = IF pageOpen THEN pageRows \o [i \in 1 .. ChunkEnd - msgNext |-> msgNext + i - 1] ELSE pageRows
      /\ total' = total + Cardinality((msgNext .. ChunkEnd - 1) \ DOMAIN progress)
      /\ progress' = [id \in DOMAIN progress \cup (msgNext .. ChunkEnd - 1) |->
           IF id \in msgNext .. ChunkEnd - 1 THEN [ping |-> 0, down |-> "none"] ELSE progress[id]]
  BY DEF Announce, ToPage
<1>3. PICK end \in msgNext + 1 .. msgCount : end = ChunkEnd
  BY <1>1, <1>2, ChunkFacts
<1>4. /\ msgCount \in Nat /\ msgNext \in Nat /\ end \in Nat /\ end > msgNext /\ end <= msgCount
      /\ DOMAIN progress = 0 .. msgNext - 1
  BY <1>1 DEF MsgTypeOK
<1>5. /\ (msgNext .. end - 1) \ DOMAIN progress = msgNext .. end - 1
      /\ DOMAIN progress \cup (msgNext .. end - 1) = 0 .. end - 1
  BY <1>4
<1>6. total' = end
  <2>1. Cardinality(msgNext .. end - 1) = end - msgNext
    BY <1>4, FS_Interval
  <2>2. total' = total + Cardinality(msgNext .. end - 1)
    BY <1>2, <1>3, <1>5, Zenon
  <2>3. total = msgNext
    BY <1>1 DEF CounterSound
  <2>. QED
    BY <1>4, <2>1, <2>2, <2>3
<1>7. \A id \in 0 .. end - 1 :
        progress'[id] = IF id < msgNext THEN progress[id] ELSE [ping |-> 0, down |-> "none"]
  BY <1>2, <1>3, <1>4, <1>5
<1>8. progress' \in [0 .. end - 1 -> [ping : Nat, down : {"none", "N/A", "number"}]]
  <2>1. progress' = [id \in 0 .. end - 1 |-> progress'[id]]
    BY <1>2, <1>3, <1>5
  <2>2. ASSUME NEW id \in 0 .. end - 1 PROVE progress'[id] \in [ping : Nat, down : {"none", "N/A", "number"}]
    BY <1>1, <1>4, <1>7 DEF MsgTypeOK
  <2>. QED
    BY <2>1, <2>2
<1>9. PICK chunk \in Seq(Nat) : /\ chunk = [i \in 1 .. end - msgNext |-> msgNext + i - 1]
                              /\ Len(chunk) = end - msgNext
  <2>1. PICK chunk : chunk = [i \in 1 .. end - msgNext |-> msgNext + i - 1]
    OBVIOUS
  <2>2. chunk \in [1 .. end - msgNext -> Nat]
    BY <1>4, <2>1
  <2>3. end - msgNext \in Nat
    BY <1>4
  <2>4. chunk \in Seq(Nat) /\ Len(chunk) = end - msgNext
    BY <2>2, <2>3
  <2>. QED
    BY <2>1, <2>4
<1>10. pageRows' \in Seq(Nat) /\ ChunksCover'
  <2>1. pageRows \in Seq(Nat) /\ Len(pageRows) \in Nat /\ DOMAIN pageRows = 1 .. Len(pageRows)
        /\ \A i \in 1 .. Len(pageRows) : pageRows[i] = i - 1
    BY <1>1, LenProperties DEF MsgTypeOK, ChunksCover
  <2>2. CASE pageOpen
    <3>1. /\ pageRows' = pageRows \o chunk /\ pageRows \o chunk \in Seq(Nat)
          /\ Len(pageRows \o chunk) = Len(pageRows) + Len(chunk)
          /\ \A i \in 1 .. Len(pageRows) + Len(chunk) :
               (pageRows \o chunk)[i] = IF i <= Len(pageRows) THEN pageRows[i] ELSE chunk[i - Len(pageRows)]
      BY <1>2, <1>3, <1>9, <2>1, <2>2, ConcatProperties
    <3>2. Len(pageRows) = msgNext
      BY <1>1, <2>2 DEF ChunksCover
    <3>3. Len(pageRows') = end /\ DOMAIN pageRows' = 1 .. end
      <4>0. Len(pageRows') = Len(pageRows) + Len(chunk)
        BY <3>1, Zenon
      <4>1. Len(pageRows') = end
        BY <1>4, <1>9, <3>2, <4>0
      <4>2. pageRows' \in Seq(Nat)
        BY <3>1, Zenon
      <4>. QED
        BY <4>1, <4>2, LenProperties
    <3>4. \A i \in 1 .. end : pageRows'[i] = i - 1
      BY <1>4, <1>9, <2>1, <3>1, <3>2
    <3>. QED
      BY <1>2, <1>3, <1>8, <3>1, <3>3, <3>4 DEF ChunksCover
  <2>3. CASE ~pageOpen
    BY <1>2, <1>3, <1>8, <2>1, <2>3 DEF ChunksCover
  <2>. QED
    BY <1>1, <2>2, <2>3 DEF MsgTypeOK
<1>11. Reporters' = Reporters
  BY <1>2 DEF Reporters
<1>12. MsgTypeOK'
  BY <1>1, <1>2, <1>3, <1>4, <1>6, <1>8, <1>10, <1>11 DEF MsgTypeOK
<1>13. CounterSound'
  <2>1. done <= end
    BY <1>1, <1>4 DEF CounterSound, MsgTypeOK
  <2>. QED
    BY <1>1, <1>2, <1>3, <1>6, <2>1 DEF CounterSound
<1>14. LineTellsResult'
  BY <1>1, <1>2 DEF LineTellsResult
<1>15. ASSUME NEW id \in Reporters
       PROVE  InOrder(msgToSend[id])' /\ Pinged(id)' /\ Fast(id)' /\ (msgNext' < msgCount' => msgToSend'[id] # << >>)
  <2>1. InOrder(msgToSend[id]) /\ Pinged(id) /\ Fast(id) /\ msgToSend[id] # << >>
    BY <1>2, <1>15 DEF MsgInv
  <2>2. InOrder(msgToSend[id])'
    BY <1>2, <2>1 DEF InOrder
  <2>3. id \in Nat
    BY <1>4, ReportersListed
  <2>4. id < end => progress'[id] = IF id < msgNext THEN progress[id] ELSE [ping |-> 0, down |-> "none"]
    BY <1>4, <1>7, <2>3
  <2>5. Pinged(id)'
    BY <1>2, <1>3, <1>4, <2>1, <2>3, <2>4 DEF Pinged
  <2>6. Fast(id)'
    BY <1>2, <1>3, <1>4, <2>1, <2>3, <2>4 DEF Fast, LastSpeed
  <2>. QED
    BY <1>2, <2>1, <2>2, <2>5, <2>6
<1>. QED
  BY <1>10, <1>11, <1>12, <1>13, <1>14, <1>15 DEF MsgInv, MessageSafe

LEMMA SendInv == ASSUME MsgInv, NEW id \in DOMAIN msgToSend, Send(id) PROVE MsgInv'
<1>1. MsgTypeOK /\ ChunksCover /\ CounterSound /\ LineTellsResult
  BY DEF MsgInv, MessageSafe
<1>2. PICK r, m : r = msgToSend[id] /\ m = Head(r)
  OBVIOUS
<1>3. /\ msgCount > 0 /\ msgNext = msgCount /\ r # << >>
      /\ progress' = CASE m.info = "gotping" -> [progress EXCEPT ![id].ping = m.value]
                       [] m.info = "gotspeed" -> [progress EXCEPT ![id].down = m.value]
                       [] m.info = "endone" -> progress
      /\ done' = IF m.info = "endone" THEN done + 1 ELSE done
      /\ msgLines' = [i \in DOMAIN msgLines \cup (IF m.info = "endone" THEN {id} ELSE {}) |->
           IF i = id /\ m.info = "endone" THEN Ok(progress[id]) ELSE msgLines[i]]
      /\ msgToSend' = [msgToSend EXCEPT ![id] = Tail(r)]
      /\ UNCHANGED <<msgCount, msgMode, msgNext, msgNode, total, pageOpen, pageRows>>
  BY <1>2 DEF Send
<1>4. /\ id \in Reporters /\ Sequence(r) /\ InOrder(r) /\ Pinged(id) /\ Fast(id)
      /\ DOMAIN msgToSend = Reporters /\ DOMAIN msgNode = Reporters /\ Reporters' = Reporters
  BY <1>1, <1>2, <1>3 DEF MsgTypeOK, MsgInv, Reporters
<1>5. /\ msgCount \in Nat /\ msgNext \in Nat /\ id \in 0 .. msgNext - 1 /\ id < msgNext /\ id \in Nat
      /\ Reporters \subseteq 0 .. msgNext - 1
  BY <1>1, <1>3, <1>4, ReportersListed DEF MsgTypeOK
<1>6. /\ Len(r) \in Nat \ {0} /\ DOMAIN r = 1 .. Len(r) /\ m = r[1] /\ Sequence(Tail(r))
      /\ Len(Tail(r)) = Len(r) - 1 /\ DOMAIN Tail(r) = 1 .. Len(r) - 1
      /\ \A i \in 1 .. Len(r) - 1 : Tail(r)[i] = r[i + 1]
      /\ Tail(r) = << >> <=> Len(r) = 1
  BY <1>2, <1>3, <1>4, RestOf
<1>7. /\ m.info \in {"gotping", "gotspeed", "endone"}
      /\ m.info = "gotping" => m.value = msgNode[id].ping
      /\ m.info # "gotping" => msgNode[id].ping = progress[id].ping
      /\ m.info = "gotspeed" => m.value \in {"N/A", "number"}
      /\ m.info = "endone" <=> Tail(r) = << >>
  <2>1. 1 \in DOMAIN r
    BY <1>6
  <2>2. /\ m.info \in {"gotping", "gotspeed", "endone"}
        /\ m.info = "gotspeed" => m.value \in {"N/A", "number"}
        /\ m.info = "endone" <=> 1 = Len(r)
    BY <1>4, <1>6, <2>1 DEF InOrder
  <2>3. IF m.info = "gotping" THEN m.value = msgNode[id].ping ELSE msgNode[id].ping = progress[id].ping
    BY <1>2, <1>3, <1>4, <1>5, <1>6 DEF Pinged
  <2>. QED
    BY <1>6, <2>2, <2>3
<1>8. msgNode[id] \in [ping : Nat, avg : Nat, sum : Nat] /\ progress \in [0 .. msgNext - 1 -> [ping : Nat, down : {"none", "N/A", "number"}]]
  BY <1>1, <1>4 DEF MsgTypeOK
<1>9. /\ msgToSend'[id] = Tail(r) /\ DOMAIN msgToSend' = Reporters
      /\ \A j \in Reporters \ {id} : msgToSend'[j] = msgToSend[j]
  BY <1>3, <1>4
\* What the writer knows after the message.
<1>10. /\ progress' \in [0 .. msgNext - 1 -> [ping : Nat, down : {"none", "N/A", "number"}]]
       /\ \A j \in 0 .. msgNext - 1 : j # id => progress'[j] = progress[j]
       /\ progress'[id].ping = (IF m.info = "gotping" THEN m.value ELSE progress[id].ping)
       /\ progress'[id].down = (IF m.info = "gotspeed" THEN m.value ELSE progress[id].down)
  <2>1. CASE m.info = "gotping"
    <3>1. progress' = [progress EXCEPT ![id].ping = m.value]
      BY <1>3, <2>1
    <3>2. m.value \in Nat
      BY <1>7, <1>8, <2>1
    <3>. QED
      BY <1>5, <1>8, <2>1, <3>1, <3>2
  <2>2. CASE m.info = "gotspeed"
    <3>1. progress' = [progress EXCEPT ![id].down = m.value]
      BY <1>3, <2>2
    <3>2. m.value \in {"none", "N/A", "number"}
      BY <1>7, <2>2
    <3>. QED
      BY <1>5, <1>8, <2>2, <3>1, <3>2
  <2>3. CASE m.info = "endone"
    <3>1. progress' = progress
      BY <1>3, <2>3
    <3>. QED
      BY <1>5, <1>8, <2>3, <3>1
  <2>. QED
    BY <1>7, <2>1, <2>2, <2>3
<1>11. MsgTypeOK'
  <2>1. done' \in Nat /\ DOMAIN msgLines' \subseteq Reporters
    BY <1>1, <1>3, <1>4 DEF MsgTypeOK
  <2>2. \A j \in Reporters : Sequence(msgToSend'[j])
    BY <1>1, <1>6, <1>9 DEF MsgTypeOK
  <2>3. \A j \in Reporters : msgNode'[j] \in [ping : Nat, avg : Nat, sum : Nat]
    BY <1>1, <1>3 DEF MsgTypeOK
  <2>. QED
    BY <1>1, <1>3, <1>4, <1>9, <1>10, <2>1, <2>2, <2>3 DEF MsgTypeOK
<1>12. ChunksCover'
  BY <1>1, <1>3, <1>10 DEF ChunksCover
<1>13. CounterSound'
  <2>. DEFINE ended == {j \in Reporters : msgToSend[j] = << >>}
              endedNow == {j \in Reporters : msgToSend'[j] = << >>}
  <2>0. /\ total = msgNext /\ done = Cardinality(ended) /\ total' = total /\ msgNext' = msgNext
    BY <1>1, <1>3, <1>4 DEF CounterSound
  <2>1. IsFiniteSet(0 .. msgNext - 1) /\ Cardinality(0 .. msgNext - 1) = msgNext
    <3>1. 0 \in Int /\ msgNext - 1 \in Int
      BY <1>5
    <3>2. /\ IsFiniteSet(0 .. msgNext - 1)
          /\ Cardinality(0 .. msgNext - 1) = IF 0 > msgNext - 1 THEN 0 ELSE msgNext - 1 - 0 + 1
      BY <3>1, FS_Interval
    <3>. QED
      BY <1>5, <3>2
  <2>2. ended \subseteq 0 .. msgNext - 1 /\ endedNow \subseteq 0 .. msgNext - 1 /\ id \notin ended
    BY <1>2, <1>3, <1>5
  <2>3. IsFiniteSet(ended)
    BY <2>1, <2>2, FS_Subset
  <2>4. endedNow = IF m.info = "endone" THEN ended \cup {id} ELSE ended
    BY <1>4, <1>7, <1>9, <2>2
  <2>5. Cardinality(endedNow) = done'
    <3>1. Cardinality(ended \cup {id}) = Cardinality(ended) + 1
      BY <2>2, <2>3, FS_AddElement
    <3>2. done' = IF m.info = "endone" THEN done + 1 ELSE done
      BY <1>3, Zenon
    <3>. HIDE DEF ended, endedNow
    <3>. QED
      BY <2>0, <2>4, <3>1, <3>2
  <2>6. Cardinality(endedNow) \in Nat /\ Cardinality(endedNow) <= msgNext
    <3>1. IsFiniteSet(endedNow) /\ Cardinality(endedNow) <= Cardinality(0 .. msgNext - 1)
      BY <2>1, <2>2, FS_Subset
    <3>. HIDE DEF endedNow
    <3>. QED
      BY <2>1, <3>1, FS_CardinalityType
  <2>7. endedNow = {j \in DOMAIN msgToSend' : msgToSend'[j] = << >>}
    BY <1>9
  <2>. HIDE DEF ended, endedNow
  <2>. QED
    BY <2>0, <2>5, <2>6, <2>7 DEF CounterSound
\* Its last message finds all there is to know of the node.
<1>14. LineTellsResult'
  <2>1. CASE m.info = "endone"
    <3>1. msgNode[id].ping = progress[id].ping
      BY <1>7, <2>1
    <3>2. progress[id].down \in {"none", "N/A", "number"} /\ progress[id].ping \in Nat
      BY <1>5, <1>8
    <3>3. msgNode[id].avg > 0 <=> progress[id].down = "number"
      <4>1. Len(r) = 1
        BY <1>6, <1>7, <2>1
      <4>2. LastSpeed(id) = progress[id].down
        BY <1>2, <1>5, <4>1 DEF LastSpeed
      <4>. QED
        BY <1>4, <4>2 DEF Fast
    <3>4. msgLines'[id] = Ok(progress[id])
      BY <1>3, <2>1
    <3>5. Ok(progress[id]) <=> progress[id].ping > 0 \/ progress[id].down \notin {"none", "N/A"}
      BY Zenon DEF Ok
    <3>6. msgLines'[id] <=> Working(msgNode[id]) /\ ~Trickles(msgNode[id])
      <4>1. Working(msgNode[id]) /\ ~Trickles(msgNode[id]) <=> msgNode[id].ping > 0 \/ msgNode[id].avg > 0
        <5>1. PICK node \in [ping : Nat, avg : Nat, sum : Nat] : node = msgNode[id]
          BY <1>8
        <5>2. Working(node) /\ ~Trickles(node) <=> node.ping > 0 \/ node.avg > 0
          BY DEF Working, Trickles
        <5>. QED
          BY <5>1, <5>2
      <4>2. Ok(progress[id]) <=> msgNode[id].ping > 0 \/ msgNode[id].avg > 0
        BY <3>1, <3>2, <3>3, <3>5
      <4>. QED
        BY <3>4, <4>1, <4>2, Zenon
    <3>7. DOMAIN msgLines' = DOMAIN msgLines \cup {id} /\ \A i \in DOMAIN msgLines : i # id => msgLines'[i] = msgLines[i]
      BY <1>3, <2>1
    <3>8. ASSUME NEW i \in DOMAIN msgLines'
          PROVE  msgLines'[i] <=> Working(msgNode[i]) /\ ~Trickles(msgNode[i])
      <4>1. CASE i = id
        BY <3>6, <4>1, Zenon
      <4>2. CASE i # id
        <5>1. i \in DOMAIN msgLines /\ msgLines'[i] = msgLines[i]
          BY <3>7, <3>8, <4>2, Zenon
        <5>. QED
          BY <1>1, <5>1, Zenon DEF LineTellsResult
      <4>. QED
        BY <4>1, <4>2
    <3>9. msgNode' = msgNode
      BY <1>3
    <3>. QED
      BY <3>8, <3>9, Zenon DEF LineTellsResult, Working, Trickles
  <2>2. CASE m.info # "endone"
    <3>1. DOMAIN msgLines' = DOMAIN msgLines /\ \A i \in DOMAIN msgLines : msgLines'[i] = msgLines[i]
      BY <1>3, <2>2
    <3>. QED
      BY <1>1, <1>3, <3>1 DEF LineTellsResult
  <2>. QED
    BY <2>1, <2>2
<1>15. InOrder(Tail(r))
  <2>1. ASSUME NEW i \in 1 .. Len(r) - 1
        PROVE  /\ i + 1 \in DOMAIN r /\ Tail(r)[i] = r[i + 1] /\ i + 1 # 1
               /\ i + 1 = Len(r) <=> i = Len(r) - 1
    BY <1>6
  <2>2. ASSUME NEW i \in DOMAIN Tail(r)
        PROVE  /\ Tail(r)[i].info \in {"gotping", "gotspeed", "endone"}
               /\ Tail(r)[i].info = "gotping" => i = 1
               /\ Tail(r)[i].info = "gotspeed" => Tail(r)[i].value \in {"N/A", "number"}
               /\ Tail(r)[i].info = "endone" <=> i = Len(Tail(r))
    BY <1>4, <1>6, <2>1 DEF InOrder
  <2>. QED
    BY <2>2 DEF InOrder
<1>16. Pinged(id)'
  <2>1. Tail(r) # << >> => Tail(r)[1].info # "gotping"
    <3>1. SUFFICES ASSUME Tail(r) # << >> PROVE Tail(r)[1].info # "gotping"
      OBVIOUS
    <3>2. Tail(r)[1] = r[2] /\ 2 \in DOMAIN r
      BY <1>6, <3>1
    <3>3. r[2].info # "gotping"
      BY <1>4, <3>2 DEF InOrder
    <3>. QED
      BY <3>2, <3>3
  <2>2. msgNode[id].ping = progress'[id].ping
    BY <1>7, <1>10
  <2>. QED
    BY <1>3, <1>5, <1>9, <2>1, <2>2 DEF Pinged
<1>17. Fast(id)'
  <2>1. LastSpeed(id)' = LastSpeed(id)
    <3>0. id < msgNext'
      BY <1>3, <1>5
    <3>a. LastSpeed(id) = IF Len(r) > 1 /\ r[Len(r) - 1].info = "gotspeed" THEN r[Len(r) - 1].value
                          ELSE progress[id].down
      BY <1>2, <1>5, Zenon DEF LastSpeed
    <3>b. LastSpeed(id)' = IF Len(Tail(r)) > 1 /\ Tail(r)[Len(Tail(r)) - 1].info = "gotspeed"
                           THEN Tail(r)[Len(Tail(r)) - 1].value ELSE progress'[id].down
      BY <1>9, <3>0, Zenon DEF LastSpeed
    <3>1. PICK t : t = Tail(r)
      OBVIOUS
    <3>c. LastSpeed(id)' = IF Len(t) > 1 /\ t[Len(t) - 1].info = "gotspeed" THEN t[Len(t) - 1].value
                           ELSE progress'[id].down
      BY <3>1, <3>b, Zenon
    <3>d. /\ Len(r) \in Nat \ {0} /\ DOMAIN r = 1 .. Len(r) /\ m = r[1]
          /\ Len(t) = Len(r) - 1 /\ \A i \in 1 .. Len(r) - 1 : t[i] = r[i + 1]
      BY <1>6, <3>1, Zenon
    <3>2. CASE Len(r) = 1
      <4>1. ~(Len(t) > 1) /\ ~(Len(r) > 1) /\ m.info = "endone"
        BY <1>6, <1>7, <3>d, <3>2
      <4>. QED
        BY <1>10, <3>a, <3>c, <4>1
    <3>3. CASE Len(r) = 2
      <4>1. ~(Len(t) > 1) /\ Len(r) > 1 /\ r[Len(r) - 1] = m
        BY <3>d, <3>3
      <4>. QED
        BY <1>10, <3>a, <3>c, <4>1
    <3>4. CASE Len(r) > 2
      <4>0. ASSUME NEW n \in Nat, n > 2
            PROVE  /\ n - 1 > 1 /\ n > 1 /\ n - 1 - 1 \in 1 .. n - 1 /\ n - 1 - 1 + 1 = n - 1
                   /\ n - 1 \in 1 .. n /\ n - 1 # 1 /\ n - 1 # n
        BY <4>0
      <4>1. /\ Len(t) > 1 /\ Len(r) > 1 /\ Len(t) - 1 \in 1 .. Len(r) - 1 /\ Len(t) - 1 + 1 = Len(r) - 1
            /\ Len(r) - 1 \in DOMAIN r /\ Len(r) - 1 # 1 /\ Len(r) - 1 # Len(r)
        <5>1. Len(r) \in Nat /\ Len(t) = Len(r) - 1 /\ DOMAIN r = 1 .. Len(r)
          BY <3>d
        <5>. QED
          BY <3>4, <4>0, <5>1
      <4>2. t[Len(t) - 1] = r[Len(r) - 1]
        BY <3>d, <4>1
      <4>3. r[Len(r) - 1].info = "gotspeed"
        BY <1>4, <4>1 DEF InOrder
      <4>. QED
        BY <3>a, <3>c, <4>1, <4>2, <4>3
    <3>. QED
      BY <3>d, <3>2, <3>3, <3>4
  <2>. QED
    BY <1>3, <1>4, <2>1 DEF Fast
<1>18. ASSUME NEW j \in Reporters
       PROVE  InOrder(msgToSend[j])' /\ Pinged(j)' /\ Fast(j)' /\ (msgNext' < msgCount' => msgToSend'[j] # << >>)
  <2>0. ~(msgNext' < msgCount')
    BY <1>3, <1>5
  <2>1. CASE j = id
    <3>1. InOrder(msgToSend[id])'
      BY <1>9, <1>15 DEF InOrder
    <3>. QED
      BY <1>16, <1>17, <2>0, <2>1, <3>1, Zenon
  <2>2. CASE j # id
    <3>1. msgToSend'[j] = msgToSend[j] /\ InOrder(msgToSend[j]) /\ Pinged(j) /\ Fast(j)
      BY <1>9, <1>18, <2>2 DEF MsgInv
    <3>2. progress'[j] = progress[j]
      BY <1>5, <1>10, <2>2
    <3>3. InOrder(msgToSend[j])'
      BY <3>1 DEF InOrder
    <3>4. Pinged(j)'
      BY <1>3, <3>1, <3>2 DEF Pinged
    <3>5. Fast(j)'
      BY <1>3, <3>1, <3>2 DEF Fast, LastSpeed
    <3>. QED
      BY <2>0, <3>3, <3>4, <3>5
  <2>. QED
    BY <2>1, <2>2
<1>. QED
  BY <1>4, <1>11, <1>12, <1>13, <1>14, <1>18 DEF MsgInv, MessageSafe

LEMMA BreakInv == ASSUME MsgInv, PageBreaks PROVE MsgInv'
<1>1. /\ pageOpen' = FALSE
      /\ UNCHANGED <<msgCount, msgMode, msgNext, msgToSend, msgNode, progress, total, done, msgLines, pageRows>>
  BY DEF PageBreaks
<1>2. MsgTypeOK /\ ChunksCover /\ CounterSound /\ LineTellsResult
  BY DEF MsgInv, MessageSafe
<1>3. Reporters' = Reporters
  BY <1>1 DEF Reporters
<1>4. MsgTypeOK'
  BY <1>1, <1>2, <1>3 DEF MsgTypeOK
<1>5. ChunksCover' /\ CounterSound' /\ LineTellsResult'
  BY <1>1, <1>2 DEF ChunksCover, CounterSound, LineTellsResult, Working, Trickles
<1>6. ASSUME NEW j \in Reporters
      PROVE  InOrder(msgToSend[j])' /\ Pinged(j)' /\ Fast(j)' /\ (msgNext' < msgCount' => msgToSend'[j] # << >>)
  BY <1>1, <1>6 DEF MsgInv, InOrder, Pinged, Fast, LastSpeed
<1>. QED
  BY <1>3, <1>4, <1>5, <1>6 DEF MsgInv, MessageSafe

LEMMA MsgStutter == ASSUME MsgInv, UNCHANGED msgVars PROVE MsgInv'
BY DEF MsgInv, MessageSafe, MsgTypeOK, ChunksCover, CounterSound, LineTellsResult, Reporters, InOrder,
       Pinged, Fast, LastSpeed, Working, Trickles, msgVars

\* Whatever the length of the list, the mode, the outcomes of the tests, the
\* order in which the workers get the lock and the moment the page leaves, the
\* page is told of the links 0, 1, 2 ..., "done of total" counts the nodes that
\* have ended, and the line of a node agrees with its result.
THEOREM MessagesAreSafe == MsgSpec => []MessageSafe
<1>1. MsgInit => MsgInv
  BY InitInv
<1>2. MsgInv /\ [MsgNext]_msgVars => MsgInv'
  <2>. SUFFICES ASSUME MsgInv, [MsgNext]_msgVars PROVE MsgInv'
    OBVIOUS
  <2>1. ASSUME NEW n \in LinkCounts, NEW mode \in {"all", "pingonly", "speedonly"}, StartRun(n, mode) PROVE MsgInv'
    BY <2>1, StartInv
  <2>2. CASE Announce
    BY <2>2, AnnounceInv
  <2>3. ASSUME NEW id \in DOMAIN msgToSend, Send(id) PROVE MsgInv'
    BY <2>3, SendInv
  <2>4. CASE PageBreaks
    BY <2>4, BreakInv
  <2>5. CASE UNCHANGED msgVars
    BY <2>5, MsgStutter
  <2>. QED
    BY <2>1, <2>2, <2>3, <2>4, <2>5 DEF MsgNext
<1>3. MsgInv => MessageSafe
  BY DEF MsgInv
<1>. QED
  BY <1>1, <1>2, <1>3, PTL DEF MsgSpec

-----------------------------------------------------------------------------
\* Selections of a sequence.

LEMMA RankFacts ==
  ASSUME NEW n \in Nat, NEW I \in SUBSET (1 .. n)
  PROVE  /\ IsFiniteSet(I) /\ Cardinality(I) \in Nat
         /\ \A i \in I : Rank(I, i) \in 1 .. Cardinality(I)
         /\ \A i, j \in I : i < j => Rank(I, i) < Rank(I, j)
<1>1. IsFiniteSet(I) /\ Cardinality(I) \in Nat
  BY FS_Interval, FS_Subset, FS_CardinalityType, 1 \in Int, n \in Int
<1>0. \A i \in I : i \in Nat
  OBVIOUS
<1>2. ASSUME NEW i \in I
      PROVE  /\ IsFiniteSet({j \in I : j <= i}) /\ Rank(I, i) \in 1 .. Cardinality(I)
  <2>1. IsFiniteSet({j \in I : j <= i}) /\ Cardinality({j \in I : j <= i}) <= Cardinality(I)
    <3>1. {j \in I : j <= i} \in SUBSET I
      OBVIOUS
    <3>. QED
      BY <1>1, <3>1, FS_Subset
  <2>2. {i} \in SUBSET {j \in I : j <= i}
    BY <1>0
  <2>3. 1 <= Cardinality({j \in I : j <= i})
    <3>1. Cardinality({i}) = 1
      BY FS_Singleton
    <3>2. Cardinality({i}) <= Cardinality({j \in I : j <= i})
      BY <2>1, <2>2, FS_Subset
    <3>. QED
      BY <3>1, <3>2
  <2>. QED
    BY <1>1, <2>1, <2>3, FS_CardinalityType DEF Rank
<1>4. \A i \in I : Rank(I, i) \in 1 .. Cardinality(I)
  BY <1>2
<1>3. ASSUME NEW i \in I, NEW j \in I, i < j
      PROVE  Rank(I, i) < Rank(I, j)
  <2>1. {l \in I : l <= i} \in SUBSET {l \in I : l <= j} /\ j \notin {l \in I : l <= i} /\ j \in {l \in I : l <= j}
    <3>1. \A l \in I : l <= i => l <= j
      BY <1>0, <1>3
    <3>2. ~(j <= i) /\ j <= j
      BY <1>0, <1>3
    <3>. QED
      BY <3>1, <3>2, Zenon
  <2>2. Rank(I, i) <= Rank(I, j) /\ Rank(I, i) # Rank(I, j)
    <3>1. IsFiniteSet({l \in I : l <= j})
      BY <1>2
    <3>. QED
      BY <2>1, <3>1, FS_Subset DEF Rank
  <2>3. Rank(I, i) \in Int /\ Rank(I, j) \in Int
    BY <1>1, <1>4
  <2>. QED
    BY <2>2, <2>3
<1>. QED
  BY <1>1, <1>3, <1>4

\* At goes through the indices in their order and leaves none out.
InPlace(s, I, place) ==
  /\ \A k \in 1 .. Cardinality(I) : At(s, I)[k] = s[place[k]]
  /\ \A i \in I : \E k \in 1 .. Cardinality(I) : place[k] = i
  /\ \A k, l \in 1 .. Cardinality(I) : k < l => place[k] < place[l]

LEMMA AtPlaces ==
  ASSUME NEW n \in Nat, NEW I \in SUBSET (1 .. n), NEW s
  PROVE  /\ DOMAIN At(s, I) = 1 .. Cardinality(I) /\ Cardinality(I) \in Nat
         /\ \E place \in [1 .. Cardinality(I) -> I] : InPlace(s, I, place)
<1>1. Cardinality(I) \in Nat /\ IsFiniteSet(I)
  BY RankFacts
<1>2. PICK rank \in [I -> 1 .. Cardinality(I)] : \A i \in I : rank[i] = Rank(I, i)
  <2>1. [i \in I |-> Rank(I, i)] \in [I -> 1 .. Cardinality(I)]
    BY RankFacts
  <2>. QED
    BY <2>1
<1>0. \A i \in I : i \in Nat
  OBVIOUS
<1>3. \A i, j \in I : rank[i] = rank[j] => i = j
  <2>. SUFFICES ASSUME NEW i \in I, NEW j \in I, i # j PROVE rank[i] # rank[j]
    OBVIOUS
  <2>1. Rank(I, i) \in 1 .. Cardinality(I) /\ Rank(I, j) \in 1 .. Cardinality(I)
        /\ (i < j => Rank(I, i) < Rank(I, j)) /\ (j < i => Rank(I, j) < Rank(I, i))
    BY RankFacts
  <2>2. i < j \/ j < i
    BY <1>0
  <2>. QED
    BY <1>1, <1>2, <2>1, <2>2
<1>4. rank \in Injection(I, 1 .. Cardinality(I))
  BY <1>3 DEF Injection, IsInjective
<1>5. rank \in Surjection(I, 1 .. Cardinality(I))
  <2>1. IsFiniteSet(1 .. Cardinality(I)) /\ Cardinality(1 .. Cardinality(I)) = Cardinality(I)
    BY <1>1, FS_Interval
  <2>. QED
    BY <1>4, <2>1, FS_Injection
<1>6. \A k \in 1 .. Cardinality(I) : \E i \in I : Rank(I, i) = k
  BY <1>2, <1>5 DEF Surjection
<1>7. PICK place : place = [k \in 1 .. Cardinality(I) |-> CHOOSE i \in I : Rank(I, i) = k]
  OBVIOUS
<1>8. \A k \in 1 .. Cardinality(I) : place[k] \in I /\ Rank(I, place[k]) = k
  BY <1>6, <1>7
<1>9. place \in [1 .. Cardinality(I) -> I]
  BY <1>7, <1>8
<1>10. \A k \in 1 .. Cardinality(I) : At(s, I)[k] = s[place[k]]
  BY <1>7 DEF At
<1>11. \A i \in I : \E k \in 1 .. Cardinality(I) : place[k] = i
  <2>. SUFFICES ASSUME NEW i \in I PROVE place[Rank(I, i)] = i /\ Rank(I, i) \in 1 .. Cardinality(I)
    OBVIOUS
  <2>1. Rank(I, i) \in 1 .. Cardinality(I)
    BY RankFacts
  <2>2. place[Rank(I, i)] \in I /\ Rank(I, place[Rank(I, i)]) = Rank(I, i)
    BY <1>8, <2>1
  <2>. QED
    BY <1>2, <1>3, <2>1, <2>2
<1>12. ASSUME NEW k \in 1 .. Cardinality(I), NEW l \in 1 .. Cardinality(I), k < l
       PROVE  place[k] < place[l]
  <2>1. place[k] \in 1 .. n /\ place[l] \in 1 .. n /\ place[k] \in I /\ place[l] \in I
    BY <1>8
  <2>2. ~(place[l] < place[k]) /\ place[l] # place[k]
    <3>1. place[l] < place[k] => Rank(I, place[l]) < Rank(I, place[k])
      BY <2>1, RankFacts
    <3>. QED
      BY <1>1, <1>8, <1>12, <3>1
  <2>. QED
    BY <2>1, <2>2
<1>13. DOMAIN At(s, I) = 1 .. Cardinality(I)
  BY DEF At
<1>. QED
  BY <1>1, <1>9, <1>10, <1>11, <1>12, <1>13 DEF InPlace

LEMMA AtElements ==
  ASSUME NEW n \in Nat, NEW I \in SUBSET (1 .. n), NEW S, NEW s, \A i \in I : s[i] \in S
  PROVE  At(s, I) \in Seq(S) /\ Len(At(s, I)) = Cardinality(I) /\ ToSet(At(s, I)) = {s[i] : i \in I}
<1>1. PICK place \in [1 .. Cardinality(I) -> I] : InPlace(s, I, place)
  BY AtPlaces
<1>2. DOMAIN At(s, I) = 1 .. Cardinality(I) /\ Cardinality(I) \in Nat
  BY AtPlaces
<1>3. PICK m \in Nat : m = Cardinality(I)
  BY <1>2
<1>4. PICK some : some = At(s, I)
  OBVIOUS
<1>5. some \in [1 .. m -> S] /\ \A k \in 1 .. m : some[k] = s[place[k]] /\ place[k] \in I
  <2>1. \A k \in 1 .. m : some[k] = s[place[k]] /\ place[k] \in I
    BY <1>1, <1>3, <1>4 DEF InPlace
  <2>2. some = [k \in 1 .. m |-> s[CHOOSE i \in I : Rank(I, i) = k]]
    BY <1>3, <1>4, Zenon DEF At
  <2>. QED
    BY <2>1, <2>2
<1>6. some \in Seq(S) /\ Len(some) = m /\ DOMAIN some = 1 .. m
  BY <1>5
<1>7. ToSet(some) = {s[i] : i \in I}
  <2>1. ToSet(some) = {some[k] : k \in 1 .. m}
    BY <1>6, Zenon DEF ToSet
  <2>2. \A i \in I : \E k \in 1 .. m : some[k] = s[i]
    BY <1>1, <1>3, <1>5 DEF InPlace
  <2>3. \A k \in 1 .. m : \E i \in I : some[k] = s[i]
    BY <1>5
  <2>. QED
    <3>1. \A x \in ToSet(some) : x \in {s[i] : i \in I}
      BY <2>1, <2>3
    <3>2. \A x \in {s[i] : i \in I} : x \in ToSet(some)
      BY <2>1, <2>2
    <3>. QED
      BY <3>1, <3>2
<1>. QED
  BY <1>3, <1>4, <1>6, <1>7

Places(I) == \E n \in Nat : I \in SUBSET (1 .. n)

\* There is one way to go through a set of indices in their order.
Enumerates(I, m, p) ==
  /\ p \in [1 .. m -> I]
  /\ \A i \in I : \E k \in 1 .. m : p[k] = i
  /\ \A k, l \in 1 .. m : k < l => p[k] < p[l]

LEMMA PlacesInOrder ==
  ASSUME NEW I, Places(I)
  PROVE  \E m \in Nat : \E p : Enumerates(I, m, p)
<1>1. PICK n \in Nat : I \in SUBSET (1 .. n)
  BY DEF Places
<1>2. PICK m \in Nat : m = Cardinality(I)
  BY <1>1, RankFacts
<1>3. PICK s : s = << >>
  OBVIOUS
<1>4. PICK p \in [1 .. m -> I] : InPlace(s, I, p)
  BY <1>1, <1>2, AtPlaces
<1>5. Enumerates(I, m, p)
  BY <1>2, <1>4 DEF InPlace, Enumerates
<1>. QED
  BY <1>5

LEMMA AtUnique ==
  ASSUME NEW s, NEW I, Places(I), NEW m \in Nat, NEW p, Enumerates(I, m, p)
  PROVE  At(s, I) = [k \in 1 .. m |-> s[p[k]]]
<1>. p \in [1 .. m -> I] /\ (\A i \in I : \E k \in 1 .. m : p[k] = i) /\ (\A k, l \in 1 .. m : k < l => p[k] < p[l])
  BY DEF Enumerates
<1>1. PICK n \in Nat : I \in SUBSET (1 .. n)
  BY DEF Places
<1>2. \A i \in I : i \in Nat
  BY <1>1
<1>3. \A k, l \in 1 .. m : p[l] <= p[k] <=> l <= k
  <2>. SUFFICES ASSUME NEW k \in 1 .. m, NEW l \in 1 .. m PROVE p[l] <= p[k] <=> l <= k
    OBVIOUS
  <2>1. p[k] \in Nat /\ p[l] \in Nat
    BY <1>2
  <2>2. CASE l = k
    BY <2>1, <2>2
  <2>3. CASE l < k
    BY <2>1, <2>3
  <2>4. CASE k < l
    BY <2>1, <2>4
  <2>. QED
    BY <2>2, <2>3, <2>4
<1>4. ASSUME NEW k \in 0 .. m, NEW S \in SUBSET I, \A i \in I : i \in S <=> \E l \in 1 .. k : p[l] = i
      PROVE  Cardinality(S) = k
  <2>1. PICK g : g = [l \in 1 .. k |-> p[l]]
    OBVIOUS
  <2>2. \A l \in 1 .. k : l \in 1 .. m /\ g[l] = p[l] /\ g[l] \in S
    BY <1>4, <2>1
  <2>3. g \in [1 .. k -> S]
    BY <2>1, <2>2
  <2>4. \A l, j \in 1 .. k : g[l] = g[j] => l = j
    <3>. SUFFICES ASSUME NEW l \in 1 .. k, NEW j \in 1 .. k, g[l] = g[j] PROVE l = j
      OBVIOUS
    <3>1. p[l] = p[j] /\ p[l] \in Nat
      BY <1>2, <2>2
    <3>2. l <= j /\ j <= l
      BY <1>3, <2>2, <3>1
    <3>. QED
      BY <3>2
  <2>5. \A i \in S : \E l \in 1 .. k : g[l] = i
    BY <1>4, <2>2
  <2>6. g \in Bijection(1 .. k, S)
    BY <2>3, <2>4, <2>5 DEF Bijection, Injection, Surjection, IsInjective
  <2>7. IsFiniteSet(1 .. k) /\ Cardinality(1 .. k) = k
    BY FS_Interval
  <2>8. ExistsBijection(1 .. k, S)
    BY <2>6 DEF ExistsBijection
  <2>. QED
    BY <2>7, <2>8, FS_Bijection
<1>5. Cardinality(I) = m
  BY <1>4
<1>6. \A k \in 1 .. m : Rank(I, p[k]) = k
  <2>. SUFFICES ASSUME NEW k \in 1 .. m PROVE Rank(I, p[k]) = k
    OBVIOUS
  <2>1. PICK S : S = {j \in I : j <= p[k]}
    OBVIOUS
  <2>2. ASSUME NEW i \in I PROVE i \in S <=> \E l \in 1 .. k : p[l] = i
    <3>1. PICK j \in 1 .. m : p[j] = i
      OBVIOUS
    <3>2. i \in S <=> j <= k
      BY <1>3, <2>1, <3>1
    <3>3. ASSUME NEW l \in 1 .. k, p[l] = i PROVE i \in S
      BY <1>3, <2>1, <3>3
    <3>. QED
      BY <3>1, <3>2, <3>3
  <2>3. k \in 0 .. m /\ S \in SUBSET I
    BY <2>1
  <2>4. Cardinality(S) = k
    BY <1>4, <2>2, <2>3
  <2>. QED
    BY <2>1, <2>4, Zenon DEF Rank
<1>7. ASSUME NEW k \in 1 .. m PROVE (CHOOSE i \in I : Rank(I, i) = k) = p[k]
  <2>1. p[k] \in I /\ Rank(I, p[k]) = k
    BY <1>6
  <2>2. ASSUME NEW i \in I, Rank(I, i) = k PROVE i = p[k]
    <3>1. PICK j \in 1 .. m : p[j] = i
      OBVIOUS
    <3>. QED
      BY <1>6, <2>2, <3>1
  <2>. QED
    BY <2>1, <2>2
<1>8. PICK some : some = At(s, I)
  OBVIOUS
<1>9. some = [k \in 1 .. m |-> s[CHOOSE i \in I : Rank(I, i) = k]]
  BY <1>5, <1>8, Zenon DEF At
<1>10. \A k \in 1 .. m : some[k] = s[p[k]]
  BY <1>7, <1>9
<1>11. some = [k \in 1 .. m |-> s[p[k]]]
  BY <1>9, <1>10
<1>. QED
  BY <1>8, <1>11

LEMMA AtEmpty == ASSUME NEW s PROVE At(s, {}) = << >>
<1>1. Cardinality({}) = 0
  BY FS_EmptySet
<1>. QED
  BY <1>1 DEF At

\* Only the elements selected matter.
LEMMA AtSame ==
  ASSUME NEW s, NEW u, NEW I, Places(I), \A i \in I : s[i] = u[i]
  PROVE  At(s, I) = At(u, I)
<1>1. PICK m, p : m \in Nat /\ Enumerates(I, m, p)
  BY PlacesInOrder
<1>2. At(s, I) = [k \in 1 .. m |-> s[p[k]]] /\ At(u, I) = [k \in 1 .. m |-> u[p[k]]]
  <2>1. At(s, I) = [k \in 1 .. m |-> s[p[k]]]
    BY <1>1, AtUnique
  <2>2. At(u, I) = [k \in 1 .. m |-> u[p[k]]]
    BY <1>1, AtUnique
  <2>. QED
    BY <2>1, <2>2
<1>3. p \in [1 .. m -> I]
  BY <1>1 DEF Enumerates
<1>. QED
  BY <1>2, <1>3

\* A selection of a selection is a selection.
Those(s, I, S) == {i \in I : s[i] \in S}

LEMMA AtTwice ==
  ASSUME NEW s, NEW I, Places(I), NEW t, t = At(s, I), NEW S
  PROVE  At(t, Those(t, DOMAIN t, S)) = At(s, Those(s, I, S))
<1>1. PICK n \in Nat : I \in SUBSET (1 .. n)
  BY DEF Places
<1>2. PICK m, p : m \in Nat /\ Enumerates(I, m, p)
  BY PlacesInOrder
<1>3. /\ p \in [1 .. m -> I]
      /\ \A i \in I : \E k \in 1 .. m : p[k] = i
      /\ \A k, l \in 1 .. m : k < l => p[k] < p[l]
  BY <1>2 DEF Enumerates
<1>4. DOMAIN t = 1 .. m /\ \A k \in 1 .. m : t[k] = s[p[k]]
  BY <1>2, AtUnique
<1>5. PICK J, K : J = {k \in 1 .. m : t[k] \in S} /\ K = {i \in I : s[i] \in S}
  OBVIOUS
<1>6. Places(J) /\ Places(K) /\ J \in SUBSET (1 .. m)
  BY <1>1, <1>2, <1>5 DEF Places
<1>7. PICK r, q : r \in Nat /\ Enumerates(J, r, q)
  BY <1>6, PlacesInOrder
<1>8. /\ q \in [1 .. r -> J]
      /\ \A j \in J : \E k \in 1 .. r : q[k] = j
      /\ \A k, l \in 1 .. r : k < l => q[k] < q[l]
  BY <1>7 DEF Enumerates
<1>9. At(t, J) = [k \in 1 .. r |-> t[q[k]]]
  BY <1>6, <1>7, AtUnique
<1>10. PICK g : g = [k \in 1 .. r |-> p[q[k]]]
  OBVIOUS
<1>11. \A k \in 1 .. r : q[k] \in 1 .. m /\ q[k] \in J /\ g[k] = p[q[k]] /\ g[k] \in K /\ t[q[k]] = s[g[k]]
  BY <1>3, <1>4, <1>5, <1>6, <1>8, <1>10
<1>12. g \in [1 .. r -> K]
  BY <1>10, <1>11
<1>13. \A i \in K : \E k \in 1 .. r : g[k] = i
  <2>. SUFFICES ASSUME NEW i \in K PROVE \E k \in 1 .. r : g[k] = i
    OBVIOUS
  <2>1. PICK j \in 1 .. m : p[j] = i
    BY <1>3, <1>5
  <2>2. j \in J
    BY <1>4, <1>5, <2>1
  <2>3. PICK k \in 1 .. r : q[k] = j
    BY <1>8, <2>2
  <2>. QED
    BY <1>11, <2>1, <2>3
<1>14. \A k, l \in 1 .. r : k < l => g[k] < g[l]
  BY <1>3, <1>8, <1>11
<1>15. At(s, K) = [k \in 1 .. r |-> s[g[k]]]
  <2>1. Enumerates(K, r, g)
    BY <1>12, <1>13, <1>14 DEF Enumerates
  <2>. QED
    BY <1>6, <1>7, <2>1, AtUnique
<1>16. At(t, J) = At(s, K)
  BY <1>9, <1>11, <1>15
<1>. QED
  BY <1>4, <1>5, <1>16, Zenon DEF Those

LEMMA AtMembers ==
  ASSUME NEW I, NEW s, Places(I)
  PROVE  \A x : x \in ToSet(At(s, I)) <=> \E i \in I : x = s[i]
<1>1. PICK m, p : m \in Nat /\ Enumerates(I, m, p)
  BY PlacesInOrder
<1>2. At(s, I) = [k \in 1 .. m |-> s[p[k]]]
  BY <1>1, AtUnique
<1>3. p \in [1 .. m -> I] /\ \A i \in I : \E k \in 1 .. m : p[k] = i
  BY <1>1 DEF Enumerates
<1>. QED
  BY <1>2, <1>3 DEF ToSet

LEMMA AtWhole == ASSUME NEW S, NEW s \in Seq(S) PROVE At(s, DOMAIN s) = s
<1>1. PICK n \in Nat : DOMAIN s = 1 .. n
  OBVIOUS
<1>2. PICK p : p = [k \in 1 .. n |-> k]
  OBVIOUS
<1>3. Enumerates(1 .. n, n, p)
  BY <1>2 DEF Enumerates
<1>4. Places(1 .. n)
  BY DEF Places
<1>5. At(s, 1 .. n) = [k \in 1 .. n |-> s[p[k]]]
  BY <1>3, <1>4, AtUnique
<1>6. [k \in 1 .. n |-> s[p[k]]] = [k \in 1 .. n |-> s[k]]
  BY <1>2
<1>7. s = [k \in 1 .. n |-> s[k]]
  BY <1>1
<1>. QED
  BY <1>1, <1>5, <1>6, <1>7

-----------------------------------------------------------------------------
\* OutputPlan: the plan of a command.

LEMMA FirstAsked ==
  ASSUME NEW spec \in Seq(STRING), NEW i \in DOMAIN spec, spec[i] # "none"
  PROVE  \E j \in Asked(spec) : j <= i /\ spec[j] = spec[i]
<1>1. DOMAIN spec = 1 .. Len(spec) /\ Len(spec) \in Nat
  OBVIOUS
<1>2. PICK S : S = {j \in DOMAIN spec : spec[j] = spec[i]}
  OBVIOUS
<1>3. S \in SUBSET Nat /\ S # {}
  BY <1>1, <1>2
<1>4. PICK j \in S : \A l \in S : j <= l
  BY <1>3, LeastIndex
<1>5. \A l \in 1 .. j - 1 : spec[l] # spec[j]
  BY <1>1, <1>2, <1>4
<1>. QED
  BY <1>2, <1>4, <1>5 DEF Asked

\* What Wanted keeps of a spec: each format once, in order, and so the first of the
\* data formats.
Keeps(spec, formats) ==
  /\ formats \in Seq(STRING \cup {"json"})
  /\ spec = << >> => formats = <<"json">>
  /\ \A k \in DOMAIN formats : formats[k] # "none"
  /\ \A k \in DOMAIN formats : spec # << >> => \E i \in DOMAIN spec : formats[k] = spec[i]
  /\ \A i \in DOMAIN spec : spec[i] # "none" => \E k \in DOMAIN formats : formats[k] = spec[i]
  /\ \A k, l \in DOMAIN formats : formats[k] = formats[l] => k = l
  /\ \A k \in DOMAIN formats : FirstData(formats, k) /\ spec # << >> =>
       \E i \in DOMAIN spec : FirstData(spec, i) /\ formats[k] = spec[i]

LEMMA WantedKeeps == ASSUME NEW spec \in Seq(STRING) PROVE Keeps(spec, Wanted(spec))
<1>1. CASE spec = << >>
  <2>1. PICK formats : formats = <<"json">>
    OBVIOUS
  <2>2. formats \in Seq(STRING \cup {"json"}) /\ DOMAIN formats = {1} /\ formats[1] = "json"
    <3>1. DOMAIN formats = 1 .. 1 /\ formats[1] = "json"
      BY <2>1
    <3>2. formats \in Seq(STRING \cup {"json"})
      BY <2>1
    <3>. QED
      BY <3>1, <3>2
  <2>3. DOMAIN spec = {}
    BY <1>1
  <2>4. Keeps(spec, formats)
    BY <1>1, <2>1, <2>2, <2>3 DEF Keeps
  <2>. QED
    BY <1>1, <2>1, <2>4 DEF Wanted
<1>2. CASE spec # << >>
  <2>1. DOMAIN spec = 1 .. Len(spec) /\ Len(spec) \in Nat /\ Asked(spec) \in SUBSET (1 .. Len(spec))
    BY DEF Asked
  <2>2. PICK formats : formats = At(spec, Asked(spec))
    OBVIOUS
  <2>3. PICK m \in Nat : m = Cardinality(Asked(spec))
    BY <2>1, AtPlaces
  <2>4. PICK place \in [1 .. m -> Asked(spec)] : InPlace(spec, Asked(spec), place)
    BY <2>1, <2>3, AtPlaces
  <2>5. formats \in Seq(STRING \cup {"json"}) /\ DOMAIN formats = 1 .. m
    <3>1. \A i \in Asked(spec) : spec[i] \in STRING \cup {"json"}
      BY <2>1
    <3>2. formats \in Seq(STRING \cup {"json"}) /\ Len(formats) = m
      BY <2>1, <2>2, <2>3, <3>1, AtElements
    <3>. QED
      BY <3>2
  <2>6. \A k \in 1 .. m : formats[k] = spec[place[k]] /\ place[k] \in Asked(spec)
    BY <2>2, <2>3, <2>4 DEF InPlace
  <2>7. \A i \in Asked(spec) : \E k \in 1 .. m : place[k] = i
    BY <2>3, <2>4 DEF InPlace
  <2>8. \A k, l \in 1 .. m : k < l => place[k] < place[l]
    BY <2>3, <2>4 DEF InPlace
  <2>9. \A i \in Asked(spec) : i \in DOMAIN spec /\ spec[i] # "none" /\ \A j \in 1 .. i - 1 : spec[j] # spec[i]
    BY DEF Asked
  <2>10. \A k, l \in 1 .. m : formats[k] = formats[l] => k = l
    <3>. SUFFICES ASSUME NEW k \in 1 .. m, NEW l \in 1 .. m, k < l PROVE formats[k] # formats[l]
      OBVIOUS
    <3>1. place[k] < place[l] /\ place[k] \in 1 .. Len(spec) /\ place[l] \in 1 .. Len(spec)
      BY <2>1, <2>6, <2>8
    <3>2. place[k] \in 1 .. place[l] - 1
      BY <3>1
    <3>. QED
      BY <2>6, <2>9, <3>2
  <2>11. \A i \in DOMAIN spec : spec[i] # "none" => \E k \in 1 .. m : formats[k] = spec[i] /\ place[k] <= i
    <3>. SUFFICES ASSUME NEW i \in DOMAIN spec, spec[i] # "none"
                  PROVE  \E k \in 1 .. m : formats[k] = spec[i] /\ place[k] <= i
      OBVIOUS
    <3>1. PICK j \in Asked(spec) : j <= i /\ spec[j] = spec[i]
      BY FirstAsked
    <3>. QED
      BY <2>6, <2>7, <3>1
  <2>12. ASSUME NEW k \in 1 .. m, FirstData(formats, k)
         PROVE  FirstData(spec, place[k])
    <3>1. place[k] \in 1 .. Len(spec) /\ formats[k] = spec[place[k]]
      BY <2>1, <2>6
    <3>2. ASSUME NEW j \in 1 .. place[k] - 1, IsData(spec[j])
          PROVE  FALSE
      <4>1. j \in DOMAIN spec /\ spec[j] # "none"
        BY <2>1, <3>1, <3>2 DEF IsData
      <4>2. PICK l \in 1 .. m : formats[l] = spec[j] /\ place[l] <= j
        BY <2>11, <4>1
      <4>3. place[l] \in 1 .. Len(spec) /\ place[l] < place[k]
        BY <2>1, <2>6, <3>1, <4>2
      <4>4. l < k
        BY <2>8, <3>1, <4>3
      <4>5. l \in 1 .. k - 1
        BY <4>4
      <4>. QED
        BY <2>12, <3>2, <4>2, <4>5 DEF FirstData
    <3>. QED
      BY <2>12, <3>1, <3>2 DEF FirstData
  <2>13. Keeps(spec, formats)
    <3>1. \A k \in DOMAIN formats : formats[k] # "none" /\ \E i \in DOMAIN spec : formats[k] = spec[i]
      BY <2>5, <2>6, <2>9
    <3>2. \A k \in DOMAIN formats : FirstData(formats, k) =>
            \E i \in DOMAIN spec : FirstData(spec, i) /\ formats[k] = spec[i]
      BY <2>5, <2>6, <2>9, <2>12
    <3>. QED
      BY <1>2, <2>5, <2>10, <2>11, <3>1, <3>2 DEF Keeps
  <2>. QED
    BY <1>2, <2>2, <2>13 DEF Wanted
<1>. QED
  BY <1>1, <1>2

LEMMA DataPaths ==
  ASSUME NEW formats, NEW m \in Nat, DOMAIN formats = 1 .. m,
         \A k, l \in DOMAIN formats : formats[k] = formats[l] => k = l,
         \A k \in DOMAIN formats : formats[k] \in Formats,
         NEW file, file \notin TimedNames,
         NEW k \in 1 .. m, NEW l \in 1 .. m, k # l, IsData(formats[k]), IsData(formats[l]),
         DataPath(formats, file, k) = DataPath(formats, file, l)
  PROVE  {formats[k], formats[l]} = {"text", "table"}
<1>1. extFor(formats[k]) \in TimedNames /\ extFor(formats[l]) \in TimedNames /\ "" \notin TimedNames
  BY DEF extFor, TimedNames
<1>2. ~(FirstData(formats, k) /\ FirstData(formats, l))
  BY DEF FirstData
<1>3. ~OnlyData(formats, k) /\ ~OnlyData(formats, l)
  BY DEF OnlyData
<1>4. extFor(formats[k]) = extFor(formats[l])
  <2>1. CASE file = ""
    BY <1>3, <2>1 DEF DataPath
  <2>2. CASE file # "" /\ FirstData(formats, k)
    BY <1>1, <1>2, <2>2 DEF DataPath
  <2>3. CASE file # "" /\ FirstData(formats, l)
    BY <1>1, <1>2, <2>3 DEF DataPath
  <2>4. CASE file # "" /\ ~FirstData(formats, k) /\ ~FirstData(formats, l)
    BY <2>4 DEF DataPath
  <2>. QED
    BY <2>1, <2>2, <2>3, <2>4
<1>5. formats[k] # formats[l] /\ formats[k] \in Formats /\ formats[l] \in Formats
  OBVIOUS
<1>. QED
  BY <1>4, <1>5 DEF extFor, Formats, IsData

LEMMA UpTo == ASSUME NEW m \in Nat, NEW targets, DOMAIN targets = 1 .. m PROVE Gapless(targets)
<1>1. \A k \in 1 .. m : k \in Nat \ {0} /\ 1 .. k \subseteq 1 .. m
  OBVIOUS
<1>. QED
  BY <1>1, Zenon DEF Gapless

LEMMA PlanIsSound ==
  ASSUME NEW spec \in Seq(STRING), ToSet(spec) \subseteq Formats,
         NEW file, NEW pic, file \notin TimedNames, pic \notin TimedNames
  PROVE  /\ Gapless(ParseOutputPlan(spec, file, pic)) /\ OneStdout(ParseOutputPlan(spec, file, pic))
         /\ SoundPlan(spec, file, pic, ParseOutputPlan(spec, file, pic))
<1>1. PICK formats : formats = Wanted(spec)
  OBVIOUS
<1>2. Keeps(spec, formats)
  BY <1>1, WantedKeeps
<1>3. PICK m \in Nat : DOMAIN formats = 1 .. m /\ m = Len(formats)
  BY <1>2 DEF Keeps
<1>4. \A k \in 1 .. m : formats[k] \in Formats
  <2>1. \A i \in DOMAIN spec : spec[i] \in Formats
    BY DEF ToSet
  <2>. QED
    BY <1>2, <1>3, <2>1 DEF Keeps, Formats
<1>5. PICK targets : targets = ParseOutputPlan(spec, file, pic)
  OBVIOUS
<1>6. DOMAIN targets = 1 .. m
      /\ \A k \in 1 .. m :
           /\ targets[k].format = formats[k]
           /\ targets[k].path = IF formats[k] = "pic" THEN PicPath(formats, file, pic)
                                ELSE DataPath(formats, file, k)
  <2>1. targets = [i \in 1 .. m |->
          Target(formats[i], IF formats[i] = "pic" THEN PicPath(formats, file, pic) ELSE DataPath(formats, file, i))]
    BY <1>1, <1>3, <1>5, Zenon DEF ParseOutputPlan
  <2>. QED
    BY <2>1 DEF Target
<1>7. \A k \in 1 .. m : IsData(formats[k]) <=> formats[k] # "pic"
  BY <1>2, <1>3 DEF Keeps, IsData
<1>8. /\ "" \notin TimedNames /\ \A f : extFor(f) \in TimedNames
      /\ PicPath(formats, file, pic) # ""
  BY DEF extFor, TimedNames, PicPath
<1>9. \A k \in 1 .. m : DataPath(formats, file, k) = "" => file = "" /\ OnlyData(formats, k)
  BY <1>8 DEF DataPath
<1>10. \A k, l \in 1 .. m :
         targets[k].path = "" => IsData(formats[k]) /\ (targets[l].path = "" => l = k)
  BY <1>3, <1>6, <1>7, <1>8, <1>9 DEF OnlyData
<1>11. ASSUME NEW k \in 1 .. m, targets[k].path = file, file # "", file # pic
       PROVE  \/ \E i \in DOMAIN spec : FirstData(spec, i) /\ formats[k] = spec[i]
              \/ /\ \A i \in DOMAIN spec : ~IsData(spec[i])
                 /\ formats[k] = IF spec = << >> THEN "json" ELSE "pic"
  <2>1. CASE formats[k] = "pic"
    <3>1. \A i \in 1 .. m : ~IsData(formats[i])
      BY <1>3, <1>6, <1>8, <1>11, <2>1 DEF PicPath
    <3>2. spec # << >>
      <4>. SUFFICES ASSUME spec = << >> PROVE FALSE
        OBVIOUS
      <4>1. formats = <<"json">>
        BY <1>2 DEF Keeps
      <4>2. formats[k] = "json"
        BY <1>3, <4>1
      <4>. QED
        BY <2>1, <4>2
    <3>3. ASSUME NEW i \in DOMAIN spec PROVE ~IsData(spec[i])
      <4>1. spec[i] # "none" => \E l \in 1 .. m : formats[l] = spec[i]
        BY <1>2, <1>3 DEF Keeps
      <4>. QED
        BY <3>1, <4>1 DEF IsData
    <3>. QED
      BY <2>1, <3>2, <3>3
  <2>2. CASE formats[k] # "pic"
    <3>1. FirstData(formats, k)
      BY <1>6, <1>8, <1>11, <2>2 DEF DataPath
    <3>2. CASE spec # << >>
      BY <1>2, <1>3, <3>1, <3>2 DEF Keeps
    <3>3. CASE spec = << >>
      <4>1. formats = <<"json">>
        BY <1>2, <3>3 DEF Keeps
      <4>2. formats[k] = "json"
        BY <1>3, <4>1
      <4>3. DOMAIN spec = {}
        BY <3>3
      <4>. QED
        BY <3>3, <4>2, <4>3
    <3>. QED
      BY <3>2, <3>3
  <2>. QED
    BY <2>1, <2>2
<1>12. \A k, l \in 1 .. m :
         k # l /\ IsData(formats[k]) /\ IsData(formats[l]) /\ targets[k].path = targets[l].path =>
           {formats[k], formats[l]} = {"text", "table"}
  <2>. SUFFICES ASSUME NEW k \in 1 .. m, NEW l \in 1 .. m, k # l, IsData(formats[k]), IsData(formats[l]),
                       targets[k].path = targets[l].path
                PROVE  {formats[k], formats[l]} = {"text", "table"}
    OBVIOUS
  <2>1. DataPath(formats, file, k) = DataPath(formats, file, l)
    BY <1>6, <1>7
  <2>2. \A i, j \in DOMAIN formats : formats[i] = formats[j] => i = j
    BY <1>2 DEF Keeps
  <2>. QED
    BY <1>3, <1>4, <2>1, <2>2, DataPaths
<1>13. \A i \in DOMAIN spec : spec[i] # "none" => \E k \in 1 .. m : targets[k].format = spec[i]
  BY <1>2, <1>3, <1>6 DEF Keeps
<1>14. Gapless(targets) /\ OneStdout(targets)
  <2>2. Gapless(targets)
    BY <1>6, UpTo
  <2>3. \A k, l \in DOMAIN targets :
          targets[k].path = "" => IsData(targets[k].format) /\ (targets[l].path = "" => l = k)
    BY <1>6, <1>10, Zenon
  <2>. QED
    BY <2>2, <2>3, Zenon DEF OneStdout, Stdout
<1>15. SoundPlan(spec, file, pic, targets)
  <2>1. \A i \in DOMAIN spec : spec[i] # "none" => \E k \in DOMAIN targets : targets[k].format = spec[i]
    BY <1>6, <1>13
  <2>2. \A k \in DOMAIN targets : targets[k].path = file /\ file # "" /\ file # pic =>
          \/ \E i \in DOMAIN spec : FirstData(spec, i) /\ targets[k].format = spec[i]
          \/ /\ \A i \in DOMAIN spec : ~IsData(spec[i])
             /\ targets[k].format = IF spec = << >> THEN "json" ELSE "pic"
    BY <1>6, <1>11
  <2>3. \A k, l \in DOMAIN targets :
          k # l /\ IsData(targets[k].format) /\ IsData(targets[l].format) /\ targets[k].path = targets[l].path =>
            {targets[k].format, targets[l].format} = {"text", "table"}
    <3>. SUFFICES ASSUME NEW k \in 1 .. m, NEW l \in 1 .. m, k # l,
                         IsData(targets[k].format), IsData(targets[l].format), targets[k].path = targets[l].path
                  PROVE  {targets[k].format, targets[l].format} = {"text", "table"}
      BY <1>6, Zenon
    <3>1. targets[k].format = formats[k] /\ targets[l].format = formats[l]
      BY <1>6
    <3>2. IsData(formats[k]) /\ IsData(formats[l])
      BY <3>1, Zenon
    <3>3. {formats[k], formats[l]} = {"text", "table"}
      BY <1>12, <3>2
    <3>. QED
      BY <3>1, <3>3, Zenon
  <2>4. \A k \in DOMAIN targets : targets[k].format # "none"
    BY <1>2, <1>3, <1>6 DEF Keeps
  <2>. QED
    BY <2>1, <2>2, <2>3, <2>4, Zenon DEF SoundPlan
<1>. QED
  BY <1>5, <1>14, <1>15

-----------------------------------------------------------------------------
\* The steps.

LEMMA OutTyping == OutInit => OutInv
<1>. SUFFICES ASSUME OutInit PROVE OutInv
  OBVIOUS
<1>. USE DEF OutInit
<1>1. DOMAIN outTargets = {} /\ DOMAIN outNodes = {} /\ DOMAIN outFiles = {} /\ DOMAIN outPlan = {}
  OBVIOUS
<1>2. StageInv
  BY DEF StageInv
<1>3. TargetsInv
  BY <1>1 DEF TargetsInv, Gapless, OneStdout, FromCommandLine
<1>4. NodesInv
  BY <1>1 DEF NodesInv
<1>5. WrittenInv
  BY <1>1 DEF WrittenInv
<1>6. EmittedInv
  BY <1>1 DEF EmittedInv
<1>7. NodesKept
  BY DEF NodesKept
<1>. QED
  BY <1>2, <1>3, <1>4, <1>5, <1>6, <1>7 DEF OutInv

\* Sorting moves nodes about.
LEMMA SortedKeeps ==
  ASSUME NEW nodes \in Results, NEW method, NEW sorted \in Sorted(nodes, method)
  PROVE  /\ sorted \in Seq(NodeRecords) /\ ToSet(sorted) = ToSet(nodes) /\ Len(sorted) = Len(nodes)
         /\ \A i \in DOMAIN sorted : Works(sorted[i]) => sorted[i].success
<1>1. nodes \in Seq(NodeRecords)
      /\ \A i \in DOMAIN nodes : Works(nodes[i]) => nodes[i].success
  BY ResultsAssumption DEF Works
<1>2. PICK n \in Nat : DOMAIN nodes = 1 .. n /\ Len(nodes) = n
  BY <1>1
<1>3. PICK place \in Bijection(DOMAIN nodes, DOMAIN nodes) : sorted = [i \in DOMAIN nodes |-> nodes[place[i]]]
  BY DEF Sorted, Orders
<1>4. /\ place \in [1 .. n -> 1 .. n]
      /\ \A i \in 1 .. n : \E k \in 1 .. n : place[k] = i
  BY <1>2, <1>3 DEF Bijection, Surjection, Injection
<1>5. DOMAIN sorted = 1 .. n /\ \A k \in 1 .. n : sorted[k] = nodes[place[k]] /\ place[k] \in 1 .. n
  BY <1>2, <1>3, <1>4
<1>6. sorted \in Seq(NodeRecords) /\ Len(sorted) = n
  <2>1. sorted \in [1 .. n -> NodeRecords]
    BY <1>1, <1>2, <1>3, <1>4
  <2>. QED
    BY <2>1
<1>7. ToSet(sorted) = ToSet(nodes)
  <2>1. ToSet(sorted) = {sorted[k] : k \in 1 .. n} /\ ToSet(nodes) = {nodes[k] : k \in 1 .. n}
    BY <1>2, <1>5, Zenon DEF ToSet
  <2>2. \A x \in ToSet(sorted) : x \in ToSet(nodes)
    BY <1>5, <2>1
  <2>3. \A x \in ToSet(nodes) : x \in ToSet(sorted)
    BY <1>4, <1>5, <2>1
  <2>. QED
    BY <2>2, <2>3
<1>. QED
  BY <1>1, <1>2, <1>5, <1>6, <1>7

LEMMA Joined ==
  ASSUME NEW S, NEW first \in Seq(S), NEW besides \in Seq(S)
  PROVE  \E m \in Nat : DOMAIN (first \o besides) = 1 .. m /\ \A k \in 1 .. m : (first \o besides)[k] \in S
OBVIOUS

LEMMA NamedPaths ==
  ASSUME NEW Named, \A target \in Named : target.path # "", NEW first \in Seq(Named), NEW besides \in Seq(Named)
  PROVE  Gapless(first \o besides) /\ OneStdout(first \o besides)
<1>1. PICK m, targets : /\ m \in Nat /\ targets = first \o besides
                        /\ DOMAIN targets = 1 .. m /\ \A k \in 1 .. m : targets[k] \in Named
  BY Joined, Zenon
<1>2. Gapless(targets)
  BY <1>1, UpTo, Zenon
<1>3. OneStdout(targets)
  BY <1>1, Zenon DEF OneStdout, Stdout
<1>. QED
  BY <1>1, <1>2, <1>3, Zenon

LEMMA ShortSequences ==
  ASSUME NEW S
  PROVE  << >> \in Seq(S) /\ \A x \in S : <<x>> \in Seq(S)
OBVIOUS

LEMMA TargetPath == ASSUME NEW format, NEW path PROVE Target(format, path).path = path
BY DEF Target

LEMMA ModeTargetsSound ==
  ASSUME NEW plan \in Plans, "mode" \in DOMAIN plan
  PROVE  LET targets == ModeTargets(plan)
                   \o IF plan.pic # "" /\ plan.mode \in {"json", "text"} THEN <<Target("pic", plan.pic)>> ELSE << >>
         IN  Gapless(targets) /\ OneStdout(targets)
<1>1. plan.mode \in {"none", "json", "text", "base64", "path"}
  BY PlansAssumption
<1>2. PICK pic, mode : pic = plan.pic /\ mode = plan.mode
  OBVIOUS
<1>3. PICK Named : /\ \A target \in Named : target.path # ""
                   /\ Target("json", "output.json") \in Named /\ Target("text", "output.txt") \in Named
                   /\ Target("pic", "page") \in Named /\ Target("pic", "out.png") \in Named
                   /\ pic # "" => Target("pic", pic) \in Named
  <2>1. PICK Named : Named = {target \in {Target("json", "output.json"), Target("text", "output.txt"), Target("pic", "page"),
                                          Target("pic", "out.png"), Target("pic", pic)} : target.path # ""}
    OBVIOUS
  <2>2. Target("json", "output.json").path # "" /\ Target("text", "output.txt").path # ""
        /\ Target("pic", "page").path # "" /\ Target("pic", "out.png").path # "" /\ Target("pic", pic).path = pic
    <3>1. "output.json" # "" /\ "output.txt" # "" /\ "page" # "" /\ "out.png" # ""
      OBVIOUS
    <3>. QED
      BY <3>1, TargetPath, Zenon
  <2>3. \A target \in Named : target.path # ""
    BY <2>1, Zenon
  <2>4. Target("json", "output.json") \in Named /\ Target("text", "output.txt") \in Named
    BY <2>1, <2>2, Zenon
  <2>5. Target("pic", "page") \in Named /\ Target("pic", "out.png") \in Named
    BY <2>1, <2>2, Zenon
  <2>6. pic # "" => Target("pic", pic) \in Named
    BY <2>1, <2>2, Zenon
  <2>. QED
    BY <2>3, <2>4, <2>5, <2>6, Zenon
<1>4. ModeTargets(plan) \in Seq(Named)
  <2>1. CASE plan.mode = "none"
    BY <1>3, <2>1, ShortSequences DEF ModeTargets
  <2>2. CASE plan.mode = "json"
    BY <1>3, <2>2, ShortSequences DEF ModeTargets
  <2>3. CASE plan.mode = "text"
    BY <1>3, <2>3, ShortSequences DEF ModeTargets
  <2>4. CASE plan.mode = "base64"
    BY <1>3, <2>4, ShortSequences DEF ModeTargets
  <2>5. CASE plan.mode = "path"
    BY <1>3, <2>5, ShortSequences DEF ModeTargets
  <2>. QED
    BY <1>1, <2>1, <2>2, <2>3, <2>4, <2>5
<1>5. PICK besides : besides = IF plan.pic # "" /\ plan.mode \in {"json", "text"} THEN <<Target("pic", plan.pic)>> ELSE << >>
  OBVIOUS
<1>6. besides \in Seq(Named)
  BY <1>2, <1>3, <1>5, ShortSequences
<1>7. Gapless(ModeTargets(plan) \o besides) /\ OneStdout(ModeTargets(plan) \o besides)
  BY <1>3, <1>4, <1>6, NamedPaths
<1>. QED
  BY <1>5, <1>7, Zenon

\* A plan begins with nothing taken and nothing written.
LEMMA BeginStep ==
  ASSUME OutInv, outStage = "idle", NEW plan \in Plans, NEW targets, Begin(plan, targets),
         Gapless(targets), OneStdout(targets),
         "spec" \in DOMAIN plan => "mode" \notin DOMAIN plan /\ SoundPlan(plan.spec, plan.file, plan.pic, targets)
  PROVE  OutInv'
<1>1. outNext = 1 /\ DOMAIN outFiles = {} /\ outStdout = << >>
  BY DEF OutInv, StageInv
<1>2. outTargets' = targets /\ outPlan' = plan /\ outStage' = "emitting" /\ outNext' = 1
      /\ outFiles' = outFiles /\ outStdout' = << >>
  BY <1>1 DEF Begin
<1>3. PICK nodes \in Results : outNodes' \in Sorted(nodes, plan.sort)
  BY DEF Begin
<1>4. StageInv'
  BY <1>2 DEF StageInv
<1>5. TargetsInv'
  BY <1>2 DEF TargetsInv, FromCommandLine, Mode
<1>6. NodesInv'
  BY <1>3, SortedKeeps DEF NodesInv
<1>7. WrittenInv'
  BY <1>1, <1>2 DEF WrittenInv
<1>8. EmittedInv'
  <2>1. \A k \in DOMAIN targets : ~(k < 1)
    BY DEF Gapless
  <2>. QED
    BY <1>2, <2>1 DEF EmittedInv
<1>9. NodesKept'
  BY <1>3, SortedKeeps DEF NodesKept
<1>. QED
  BY <1>4, <1>5, <1>6, <1>7, <1>8, <1>9 DEF OutInv

LEMMA PlanSteps ==
  ASSUME OutInv, outStage = "idle", NEW plan \in Plans
  PROVE  /\ "spec" \in DOMAIN plan /\ (PlanCommand(plan) \/ RefuseSpec(plan)) => OutInv'
         /\ "mode" \in DOMAIN plan /\ PlanRequest(plan) => OutInv'
<1>1. ASSUME "spec" \in DOMAIN plan, PlanCommand(plan) PROVE OutInv'
  <2>1. PICK targets : targets = ParseOutputPlan(plan.spec, plan.file, plan.pic)
    OBVIOUS
  <2>2. plan.spec \in Seq(STRING) /\ plan.file \notin TimedNames /\ plan.pic \notin TimedNames
        /\ "mode" \notin DOMAIN plan
    BY <1>1, PlansAssumption
  <2>3. ToSet(plan.spec) \subseteq Formats /\ Begin(plan, targets)
    BY <1>1, <2>1 DEF PlanCommand
  <2>4. Gapless(targets) /\ OneStdout(targets) /\ SoundPlan(plan.spec, plan.file, plan.pic, targets)
    BY <2>1, <2>2, <2>3, PlanIsSound
  <2>. QED
    BY <2>2, <2>3, <2>4, BeginStep
<1>2. ASSUME "spec" \in DOMAIN plan, RefuseSpec(plan) PROVE OutInv'
  <2>1. outNext = 1 /\ outNodes = << >> /\ outTargets = << >> /\ DOMAIN outFiles = {} /\ outStdout = << >>
    BY DEF OutInv, StageInv
  <2>2. outTargets' = << >> /\ outNodes' = << >> /\ DOMAIN outFiles' = {} /\ outStdout' = << >> /\ outNext' = 1
        /\ outStage' = "failed" /\ outPlan' = plan
    BY <1>2, <2>1 DEF RefuseSpec
  <2>3. DOMAIN outTargets' = {} /\ DOMAIN outNodes' = {} /\ outNodes' \in Seq(NodeRecords)
    BY <2>2
  <2>4. "mode" \notin DOMAIN plan
    BY <1>1, <1>2, PlansAssumption
  <2>5. StageInv'
    BY <2>2 DEF StageInv
  <2>6. TargetsInv'
    BY <2>2, <2>3, <2>4 DEF TargetsInv, Gapless, OneStdout, FromCommandLine, Mode
  <2>7. NodesInv' /\ WrittenInv' /\ EmittedInv' /\ NodesKept'
    BY <2>2, <2>3 DEF NodesInv, WrittenInv, EmittedInv, NodesKept
  <2>. QED
    BY <2>5, <2>6, <2>7 DEF OutInv
<1>3. ASSUME "mode" \in DOMAIN plan, PlanRequest(plan) PROVE OutInv'
  <2>1. PICK targets : targets = ModeTargets(plan)
                   \o IF plan.pic # "" /\ plan.mode \in {"json", "text"} THEN <<Target("pic", plan.pic)>> ELSE << >>
    OBVIOUS
  <2>2. Begin(plan, targets)
    BY <1>3, <2>1, Zenon DEF PlanRequest
  <2>3. "spec" \notin DOMAIN plan
    BY <1>3, PlansAssumption
  <2>4. Gapless(targets) /\ OneStdout(targets)
    BY <1>3, <2>1, ModeTargetsSound
  <2>. QED
    BY <2>2, <2>3, <2>4, BeginStep
<1>. QED
  BY <1>1, <1>2, <1>3

\* Every step that takes a target keeps the plan, the nodes and their places.
LEMMA TakeKeeps ==
  ASSUME OutInv, NEW target, Take(target), UNCHANGED <<outPlan, outNodes, outTargets>>,
         outStage' \in {outStage, "failed"}
  PROVE  /\ StageInv' /\ TargetsInv' /\ NodesInv' /\ NodesKept'
         /\ outNext \in Nat /\ outNext' = outNext + 1 /\ outNext \in DOMAIN outTargets
         /\ target = outTargets[outNext]
         /\ \A k \in DOMAIN outTargets : k \in Nat /\ (k < outNext' <=> k < outNext \/ k = outNext)
<1>1. outStage = "emitting" /\ outNext \in DOMAIN outTargets /\ target = outTargets[outNext] /\ outNext' = outNext + 1
  BY DEF Take, Pending
<1>2. outNext \in Nat /\ \A k \in DOMAIN outTargets : k \in Nat
  BY DEF OutInv, StageInv, TargetsInv, Gapless
<1>3. StageInv'
  BY <1>1, <1>2 DEF StageInv
<1>4. TargetsInv'
  <2>1. Gapless(outTargets') /\ OneStdout(outTargets')
    BY DEF OutInv, TargetsInv
  <2>2. (FromCommandLine' <=> FromCommandLine) /\ Mode' = Mode /\ (outStage' # "failed" => outStage # "failed")
    BY <1>1 DEF FromCommandLine, Mode
  <2>. QED
    BY <2>1, <2>2 DEF OutInv, TargetsInv
<1>5. NodesInv' /\ NodesKept'
  BY <1>1 DEF OutInv, NodesInv, NodesKept
<1>6. \A k \in DOMAIN outTargets : k \in Nat /\ (k < outNext' <=> k < outNext \/ k = outNext)
  BY <1>1, <1>2
<1>. QED
  BY <1>1, <1>2, <1>3, <1>4, <1>5, <1>6

\* What is there at k stays there, or is written over by the target taken.
LEMMA WriteFileStep ==
  ASSUME OutInv, NEW target, WriteFile(target)
  PROVE  OutInv'
<1>1. /\ Take(target) /\ target.path # Stdout
      /\ UNCHANGED <<outPlan, outNodes, outTargets>> /\ outStage' \in {outStage, "failed"}
      /\ outStage' = outStage /\ outStdout' = outStdout
  BY DEF WriteFile
<1>2. /\ StageInv' /\ TargetsInv' /\ NodesInv' /\ NodesKept'
      /\ outNext \in Nat /\ outNext' = outNext + 1 /\ outNext \in DOMAIN outTargets
      /\ target = outTargets[outNext]
      /\ \A k \in DOMAIN outTargets : k \in Nat /\ (k < outNext' <=> k < outNext \/ k = outNext)
  BY <1>1, TakeKeeps
<1>3. PICK written : written = [format |-> target.format, content |-> Content(target.format, outNodes)]
  OBVIOUS
<1>4. outFiles' = [path \in DOMAIN outFiles \cup {target.path} |-> IF path = target.path THEN written ELSE outFiles[path]]
  BY <1>3 DEF WriteFile
<1>5. /\ DOMAIN outFiles' = DOMAIN outFiles \cup {target.path}
      /\ outFiles'[target.path] = written
      /\ \A path \in DOMAIN outFiles : path # target.path => outFiles'[path] = outFiles[path]
  BY <1>4
<1>6. PICK n \in DOMAIN outTargets : n = outNext
  BY <1>2
<1>7. Holds(n)'
  BY <1>1, <1>2, <1>3, <1>5, <1>6 DEF Holds
<1>8. \A k \in DOMAIN outTargets : Holds(k) /\ outTargets[k].path # target.path => Holds(k)'
  BY <1>1, <1>5 DEF Holds
<1>9. WrittenInv'
  <2>1. outStdout' = << >> \/ \E k \in DOMAIN outTargets' :
          k < outNext' /\ outTargets'[k].path = Stdout /\ outStdout' = <<outTargets'[k].format>>
    BY <1>1, <1>2 DEF OutInv, WrittenInv
  <2>2. ASSUME NEW path \in DOMAIN outFiles'
        PROVE  \E k \in DOMAIN outTargets' : k < outNext' /\ outTargets'[k].path = path /\ Holds(k)'
    <3>1. CASE path = target.path
      BY <1>1, <1>2, <1>7, <1>6, <3>1
    <3>2. CASE path # target.path
      <4>1. PICK k \in DOMAIN outTargets : k < outNext /\ outTargets[k].path = path /\ Holds(k)
        BY <1>5, <3>2 DEF OutInv, WrittenInv
      <4>. QED
        BY <1>1, <1>2, <1>8, <3>2, <4>1
    <3>. QED
      BY <3>1, <3>2
  <2>. QED
    BY <2>1, <2>2 DEF WrittenInv
<1>10. EmittedInv'
  <2>. SUFFICES ASSUME FromCommandLine', outStage' # "failed",
                       NEW k \in DOMAIN outTargets, k < outNext', IsData(outTargets[k].format)
                PROVE  Emitted(k)'
    BY <1>1 DEF EmittedInv
  <2>1. CASE k = outNext
    BY <1>7, <1>6, <2>1 DEF Emitted
  <2>2. CASE k < outNext
    <3>1. Emitted(k)
      BY <1>1, <2>2 DEF OutInv, EmittedInv, FromCommandLine
    <3>2. CASE Holds(k) /\ outTargets[k].path = target.path
      BY <1>1, <1>2, <2>2, <3>2 DEF Emitted
    <3>3. CASE Holds(k) /\ outTargets[k].path # target.path
      BY <1>8, <3>3 DEF Emitted
    <3>4. CASE outStdout = <<outTargets[k].format>>
      BY <1>1, <3>4 DEF Emitted
    <3>5. CASE \E j \in DOMAIN outTargets : k < j /\ j < outNext /\ outTargets[j].path = outTargets[k].path
      BY <1>1, <1>2, <3>5 DEF Emitted
    <3>. QED
      BY <3>1, <3>2, <3>3, <3>4, <3>5 DEF Emitted
  <2>. QED
    BY <1>2, <2>1, <2>2
<1>. QED
  BY <1>2, <1>9, <1>10 DEF OutInv

\* A step that writes no file leaves what the files hold.
LEMMA FilesStay ==
  ASSUME OutInv, UNCHANGED <<outNodes, outTargets, outFiles>>, outNext \in Nat, outNext' = outNext + 1
  PROVE  /\ \A path \in DOMAIN outFiles' : \E k \in DOMAIN outTargets' :
              k < outNext' /\ outTargets'[k].path = path /\ Holds(k)'
         /\ \A k \in DOMAIN outTargets : Emitted(k) /\ outStdout' = outStdout => Emitted(k)'
<1>1. \A k : Holds(k) <=> Holds(k)'
  BY DEF Holds
<1>2. \A k \in DOMAIN outTargets : k \in Nat
  BY DEF OutInv, TargetsInv, Gapless
<1>3. \A k \in DOMAIN outTargets : k < outNext => k < outNext'
  BY <1>2
<1>4. \A path \in DOMAIN outFiles : \E k \in DOMAIN outTargets : k < outNext /\ outTargets[k].path = path /\ Holds(k)
  BY DEF OutInv, WrittenInv
<1>. QED
  BY <1>1, <1>3, <1>4 DEF Emitted

LEMMA WriteStdoutStep ==
  ASSUME OutInv, NEW target, WriteStdout(target)
  PROVE  OutInv'
<1>1. /\ Take(target) /\ target.path = Stdout
      /\ UNCHANGED <<outPlan, outNodes, outTargets, outFiles>> /\ outStage' \in {outStage, "failed"}
      /\ outStage' = outStage
  BY DEF WriteStdout
<1>2. /\ StageInv' /\ TargetsInv' /\ NodesInv' /\ NodesKept'
      /\ outNext \in Nat /\ outNext' = outNext + 1 /\ outNext \in DOMAIN outTargets
      /\ target = outTargets[outNext]
      /\ \A k \in DOMAIN outTargets : k \in Nat /\ (k < outNext' <=> k < outNext \/ k = outNext)
  BY <1>1, TakeKeeps
<1>3. outStdout = << >>
  <2>1. ASSUME NEW k \in DOMAIN outTargets, k < outNext, outTargets[k].path = Stdout
        PROVE  FALSE
    <3>1. k = outNext
      BY <1>1, <1>2, <2>1 DEF OutInv, TargetsInv, OneStdout
    <3>. QED
      BY <1>2, <2>1, <3>1
  <2>. QED
    BY <2>1 DEF OutInv, WrittenInv
<1>4. outStdout' = <<target.format>>
  BY <1>3 DEF WriteStdout
<1>5. \A k : Holds(k) <=> Holds(k)'
  BY <1>1 DEF Holds
<1>6. WrittenInv'
  <2>1. outNext \in DOMAIN outTargets' /\ outNext < outNext' /\ outTargets'[outNext].path = Stdout
        /\ outStdout' = <<outTargets'[outNext].format>>
    BY <1>1, <1>2, <1>4
  <2>2. \A path \in DOMAIN outFiles' : \E k \in DOMAIN outTargets' :
          k < outNext' /\ outTargets'[k].path = path /\ Holds(k)'
    BY <1>1, <1>2, FilesStay
  <2>. QED
    BY <2>1, <2>2 DEF WrittenInv
<1>7. EmittedInv'
  <2>. SUFFICES ASSUME FromCommandLine', outStage' # "failed",
                       NEW k \in DOMAIN outTargets, k < outNext', IsData(outTargets[k].format)
                PROVE  Emitted(k)'
    BY <1>1 DEF EmittedInv
  <2>1. CASE k = outNext
    BY <1>1, <1>2, <1>4, <2>1 DEF Emitted
  <2>2. CASE k < outNext
    <3>1. Emitted(k)
      BY <1>1, <2>2 DEF OutInv, EmittedInv, FromCommandLine
    <3>2. outStdout # <<outTargets[k].format>>
      BY <1>3
    <3>3. CASE Holds(k)
      BY <1>5, <3>3 DEF Emitted
    <3>4. CASE \E j \in DOMAIN outTargets : k < j /\ j < outNext /\ outTargets[j].path = outTargets[k].path
      BY <1>1, <1>2, <3>4 DEF Emitted
    <3>. QED
      BY <3>1, <3>2, <3>3, <3>4 DEF Emitted
  <2>. QED
    BY <1>2, <2>1, <2>2
<1>. QED
  BY <1>2, <1>6, <1>7 DEF OutInv

\* A picture that is sent, or a write that fails, leaves what is there.
LEMMA NothingWritten ==
  ASSUME OutInv, NEW target, Take(target),
         UNCHANGED <<outPlan, outNodes, outTargets, outFiles, outStdout>>, outStage' \in {outStage, "failed"},
         FromCommandLine /\ outStage' # "failed" => target.format = "pic"
  PROVE  OutInv'
<1>2. /\ StageInv' /\ TargetsInv' /\ NodesInv' /\ NodesKept'
      /\ outNext \in Nat /\ outNext' = outNext + 1 /\ outNext \in DOMAIN outTargets
      /\ target = outTargets[outNext]
      /\ \A k \in DOMAIN outTargets : k \in Nat /\ (k < outNext' <=> k < outNext \/ k = outNext)
  BY TakeKeeps
<1>3. outStage = "emitting"
  BY DEF Take, Pending
<1>4. WrittenInv'
  <2>1. outStdout' = << >> \/ \E k \in DOMAIN outTargets' :
          k < outNext' /\ outTargets'[k].path = Stdout /\ outStdout' = <<outTargets'[k].format>>
    BY <1>2 DEF OutInv, WrittenInv
  <2>2. \A path \in DOMAIN outFiles' : \E k \in DOMAIN outTargets' :
          k < outNext' /\ outTargets'[k].path = path /\ Holds(k)'
    BY <1>2, FilesStay
  <2>. QED
    BY <2>1, <2>2 DEF WrittenInv
<1>5. EmittedInv'
  <2>. SUFFICES ASSUME FromCommandLine', outStage' # "failed",
                       NEW k \in DOMAIN outTargets, k < outNext', IsData(outTargets[k].format)
                PROVE  Emitted(k)'
    BY DEF EmittedInv
  <2>1. FromCommandLine
    BY DEF FromCommandLine
  <2>2. k # outNext
    BY <1>2, <2>1 DEF IsData
  <2>3. Emitted(k)
    BY <1>2, <1>3, <2>1, <2>2 DEF OutInv, EmittedInv
  <2>. QED
    BY <1>2, <2>3, FilesStay
<1>. QED
  BY <1>2, <1>4, <1>5 DEF OutInv

LEMMA OutStep == ASSUME OutInv, OutNext PROVE OutInv'
<1>2. ASSUME NEW target, WriteFile(target) PROVE OutInv'
  BY <1>2, WriteFileStep
<1>3. ASSUME NEW target, WriteStdout(target) PROVE OutInv'
  BY <1>3, WriteStdoutStep
<1>4. ASSUME NEW target, SendPicture(target) PROVE OutInv'
  <2>1. /\ Take(target) /\ Mode = "base64"
        /\ UNCHANGED <<outPlan, outNodes, outTargets, outFiles, outStdout>> /\ outStage' \in {outStage, "failed"}
    BY <1>4 DEF SendPicture
  <2>2. ~FromCommandLine
    BY <2>1 DEF OutInv, TargetsInv
  <2>. QED
    BY <2>1, <2>2, NothingWritten
<1>5. ASSUME NEW target, WriteFails(target) \/ SaveFails(target) PROVE OutInv'
  <2>1. Take(target) /\ UNCHANGED <<outPlan, outNodes, outTargets, outFiles, outStdout>>
    BY <1>5 DEF WriteFails, SaveFails
  <2>2. outStage' \in {outStage, "failed"} /\ (FromCommandLine /\ outStage' # "failed" => target.format = "pic")
    BY <1>5 DEF WriteFails, SaveFails
  <2>. QED
    BY <2>1, <2>2, NothingWritten
<1>6. CASE EmitEnds
  <2>1. /\ outStage = "emitting" /\ outNext \notin DOMAIN outTargets /\ outStage' = "done"
        /\ UNCHANGED <<outPlan, outNodes, outTargets, outNext, outFiles, outStdout>>
    BY <1>6 DEF EmitEnds, Pending
  <2>2. ASSUME NEW k \in DOMAIN outTargets PROVE k < outNext
    <3>1. k \in Nat \ {0} /\ outNext \in Nat \ {0} /\ outNext \notin 1 .. k
      BY <2>1 DEF OutInv, StageInv, TargetsInv, Gapless
    <3>. QED
      BY <3>1
  <2>3. StageInv'
    BY <2>1, <2>2 DEF OutInv, StageInv
  <2>4. TargetsInv' /\ NodesInv' /\ NodesKept'
    BY <2>1 DEF OutInv, TargetsInv, NodesInv, NodesKept, Gapless, OneStdout, FromCommandLine, Mode
  <2>5. \A k : (Holds(k) <=> Holds(k)') /\ (Emitted(k) <=> Emitted(k)')
    BY <2>1 DEF Holds, Emitted
  <2>6. WrittenInv' /\ EmittedInv'
    BY <2>1, <2>5 DEF OutInv, WrittenInv, EmittedInv, FromCommandLine
  <2>. QED
    BY <2>3, <2>4, <2>6 DEF OutInv
<1>7. CASE outStage = "idle" /\ \E plan \in Plans :
             \/ "spec" \in DOMAIN plan /\ (PlanCommand(plan) \/ RefuseSpec(plan))
             \/ "mode" \in DOMAIN plan /\ PlanRequest(plan)
  <2>1. PICK plan \in Plans :
             \/ "spec" \in DOMAIN plan /\ (PlanCommand(plan) \/ RefuseSpec(plan))
             \/ "mode" \in DOMAIN plan /\ PlanRequest(plan)
    BY <1>7
  <2>. QED
    BY <1>7, <2>1, PlanSteps
<1>8. CASE \E target \in ToSet(outTargets) :
             WriteFile(target) \/ WriteStdout(target) \/ SendPicture(target) \/ WriteFails(target) \/ SaveFails(target)
  BY <1>2, <1>3, <1>4, <1>5, <1>8
<1>. QED
  <2>1. \/ outStage = "idle" /\ \E plan \in {p \in Plans : "spec" \in DOMAIN p} : PlanCommand(plan) \/ RefuseSpec(plan)
        \/ outStage = "idle" /\ \E plan \in {p \in Plans : "mode" \in DOMAIN p} : PlanRequest(plan)
        \/ \E target \in ToSet(outTargets) :
             WriteFile(target) \/ WriteStdout(target) \/ SendPicture(target) \/ WriteFails(target) \/ SaveFails(target)
        \/ EmitEnds
    BY Zenon DEF OutNext
  <2>2. outStage = "idle" /\ (\E plan \in {p \in Plans : "spec" \in DOMAIN p} : PlanCommand(plan) \/ RefuseSpec(plan)) => OutInv'
    BY <1>7, Zenon
  <2>3. outStage = "idle" /\ (\E plan \in {p \in Plans : "mode" \in DOMAIN p} : PlanRequest(plan)) => OutInv'
    BY <1>7, Zenon
  <2>. QED
    BY <1>6, <1>8, <2>1, <2>2, <2>3, Zenon

\* What the texts of the files name: nodes that work, and so have a row.
LEMMA WorkingLinks ==
  ASSUME NEW nodes \in Seq(NodeRecords), NEW link \in ToSet(workingLinks(nodes))
  PROVE  link # "direct" /\ \E i \in DOMAIN nodes : nodes[i].link = link /\ Works(nodes[i])
<1>1. PICK n \in Nat : DOMAIN nodes = 1 .. n
  OBVIOUS
<1>2. PICK I, links : /\ I = {i \in DOMAIN nodes : nodes[i].link # "direct" /\ Works(nodes[i])}
                      /\ links = LinksOfNodes(nodes)
  OBVIOUS
<1>3. Places(I)
  BY <1>1, <1>2 DEF Places
<1>4. link \in ToSet(At(links, I))
  BY <1>2 DEF workingLinks
<1>5. PICK i \in I : link = links[i]
  BY <1>3, <1>4, AtMembers
<1>6. i \in DOMAIN nodes /\ links[i] = nodes[i].link
  BY <1>2 DEF LinksOfNodes
<1>. QED
  BY <1>2, <1>5, <1>6

LEMMA RowShows ==
  ASSUME NEW nodes \in Seq(NodeRecords), NEW i \in DOMAIN nodes, Works(nodes[i]), nodes[i].success
  PROVE  LET row == renderTable(nodes)[i] IN
         row.link = nodes[i].link /\ (row.ping # "-" \/ row.down # "-" \/ (nodes[i].avg = 0 /\ nodes[i].max > 0))
<1>1. nodes[i] \in NodeRecords
  OBVIOUS
<1>2. PICK row : row = renderTable(nodes)[i]
  OBVIOUS
<1>3. /\ row.link = nodes[i].link
      /\ row.ping = Cell(nodes[i], nodes[i].ping, "0")
      /\ row.down = IF nodes[i].success /\ nodes[i].avg > 0 THEN "some" ELSE "-"
  BY <1>2 DEF renderTable
<1>4. nodes[i].ping # "-" /\ nodes[i].avg \in Nat
  BY <1>1 DEF NodeRecords
<1>5. CASE nodes[i].ping # "0"
  BY <1>2, <1>3, <1>4, <1>5 DEF Cell
<1>6. CASE nodes[i].avg > 0
  BY <1>2, <1>3, <1>6
<1>7. CASE nodes[i].ping = "0" /\ ~(nodes[i].avg > 0)
  <2>1. nodes[i].max > 0 /\ nodes[i].avg = 0
    BY <1>4, <1>7 DEF Works
  <2>. QED
    BY <1>2, <1>3, <2>1
<1>. QED
  BY <1>5, <1>6, <1>7

LEMMA FormatOf == ASSUME NEW format, NEW content PROVE [format |-> format, content |-> content].format = format
OBVIOUS

LEMMA OutInvSafe == OutInv => OutputSafe
<1>. SUFFICES ASSUME OutInv PROVE OutputSafe
  OBVIOUS
<1>1. StdoutIsClean
  <2>1. CASE outStdout = << >>
    BY <2>1 DEF StdoutIsClean, ToSet
  <2>2. CASE \E k \in DOMAIN outTargets : outTargets[k].path = Stdout /\ outStdout = <<outTargets[k].format>>
    <3>1. PICK k \in DOMAIN outTargets : outTargets[k].path = Stdout /\ outStdout = <<outTargets[k].format>>
      BY <2>2
    <3>2. PICK format : format = outTargets[k].format /\ format # "pic"
      BY <3>1 DEF OutInv, TargetsInv, OneStdout, IsData
    <3>3. outStdout = <<format>>
      BY <3>1, <3>2
    <3>. QED
      BY <3>2, <3>3 DEF StdoutIsClean, ToSet
  <2>. QED
    BY <2>1, <2>2 DEF OutInv, WrittenInv
<1>2. AllEmitted
  <2>. SUFFICES ASSUME outStage = "done", FromCommandLine,
                       NEW format \in ToSet(outPlan.spec) \ {"none", "pic"}
                PROVE  \/ format \in ToSet(outStdout)
                       \/ \E path \in DOMAIN outFiles :
                            outFiles[path] = [format |-> format, content |-> Content(format, outNodes)]
                       \/ \E i, j \in DOMAIN outTargets :
                            i < j /\ outTargets[i].format = format /\ outTargets[j].path = outTargets[i].path
                            /\ (outTargets[j].format = "pic" \/ {format, outTargets[j].format} = {"text", "table"})
    BY DEF AllEmitted
  <2>1. SoundPlan(outPlan.spec, outPlan.file, outPlan.pic, outTargets)
    BY DEF OutInv, TargetsInv
  <2>2. PICK i \in DOMAIN outPlan.spec : outPlan.spec[i] = format
    BY DEF ToSet
  <2>3. PICK k \in DOMAIN outTargets : outTargets[k].format = format
    BY <2>1, <2>2 DEF SoundPlan
  <2>4. k < outNext /\ IsData(outTargets[k].format)
    BY <2>3 DEF OutInv, StageInv, IsData
  <2>5. Emitted(k)
    BY <2>4 DEF OutInv, EmittedInv
  <2>6. CASE outStdout = <<outTargets[k].format>>
    BY <2>3, <2>6 DEF ToSet
  <2>7. CASE Holds(k)
    BY <2>3, <2>7 DEF Holds
  <2>8. CASE \E j \in DOMAIN outTargets : k < j /\ j < outNext /\ outTargets[j].path = outTargets[k].path
    <3>1. PICK j \in DOMAIN outTargets : k < j /\ outTargets[j].path = outTargets[k].path
      BY <2>8
    <3>2. k \in Nat /\ j \in Nat
      BY DEF OutInv, TargetsInv, Gapless
    <3>3. k # j
      BY <3>1, <3>2
    <3>4. CASE IsData(outTargets[j].format)
      <4>1. {outTargets[k].format, outTargets[j].format} = {"text", "table"}
        BY <2>1, <2>4, <3>1, <3>3, <3>4, Zenon DEF SoundPlan
      <4>. QED
        BY <2>3, <3>1, <4>1
    <3>5. CASE ~IsData(outTargets[j].format)
      <4>1. outTargets[j].format = "pic"
        BY <2>1, <3>5 DEF SoundPlan, IsData
      <4>. QED
        BY <2>3, <3>1, <4>1
    <3>. QED
      BY <3>4, <3>5
  <2>. QED
    BY <2>5, <2>6, <2>7, <2>8 DEF Emitted
<1>3. FileIsFirst
  <2>. SUFFICES ASSUME outStage = "done", FromCommandLine, outPlan.file # "", outPlan.file # outPlan.pic,
                       outPlan.file \in DOMAIN outFiles
                PROVE  \/ \E i \in DOMAIN outPlan.spec :
                            FirstData(outPlan.spec, i) /\ outFiles[outPlan.file].format = outPlan.spec[i]
                       \/ /\ \A i \in DOMAIN outPlan.spec : ~IsData(outPlan.spec[i])
                          /\ outFiles[outPlan.file].format = IF outPlan.spec = << >> THEN "json" ELSE "pic"
    BY DEF FileIsFirst
  <2>1. SoundPlan(outPlan.spec, outPlan.file, outPlan.pic, outTargets)
    BY DEF OutInv, TargetsInv
  <2>2. PICK k \in DOMAIN outTargets : outTargets[k].path = outPlan.file /\ Holds(k)
    BY DEF OutInv, WrittenInv
  <2>3. outFiles[outPlan.file] = [format |-> outTargets[k].format, content |-> Content(outTargets[k].format, outNodes)]
    BY <2>2, Zenon DEF Holds
  <2>4. outFiles[outPlan.file].format = outTargets[k].format
    BY <2>3, FormatOf, Zenon
  <2>5. \/ \E i \in DOMAIN outPlan.spec : FirstData(outPlan.spec, i) /\ outTargets[k].format = outPlan.spec[i]
        \/ /\ \A i \in DOMAIN outPlan.spec : ~IsData(outPlan.spec[i])
           /\ outTargets[k].format = IF outPlan.spec = << >> THEN "json" ELSE "pic"
    BY <2>1, <2>2, Zenon DEF SoundPlan
  <2>. QED
    BY <2>4, <2>5, Zenon
<1>4. OutputsAgree
  <2>. SUFFICES ASSUME NEW path \in DOMAIN outFiles, outFiles[path].format = "text",
                       NEW link \in ToSet(outFiles[path].content)
                PROVE  /\ link # "direct"
                       /\ \E i \in DOMAIN outNodes :
                            /\ outNodes[i].link = link /\ outNodes[i].success
                            /\ LET row == renderTable(outNodes)[i] IN
                               row.link = link /\ (row.ping # "-" \/ row.down # "-"
                                                  \/ (outNodes[i].avg = 0 /\ outNodes[i].max > 0))
    BY DEF OutputsAgree
  <2>1. PICK k \in DOMAIN outTargets : outTargets[k].path = path /\ Holds(k)
    BY DEF OutInv, WrittenInv
  <2>2. outTargets[k].format = "text" /\ outFiles[path].content = workingLinks(outNodes)
    BY <2>1 DEF Holds, Content
  <2>3. outNodes \in Seq(NodeRecords)
    BY DEF OutInv, NodesInv
  <2>4. link # "direct" /\ \E i \in DOMAIN outNodes : outNodes[i].link = link /\ Works(outNodes[i])
    BY <2>2, <2>3, WorkingLinks
  <2>5. PICK i \in DOMAIN outNodes : outNodes[i].link = link /\ Works(outNodes[i])
    BY <2>4
  <2>6. outNodes[i].success
    BY <2>5 DEF OutInv, NodesInv
  <2>. QED
    BY <2>3, <2>4, <2>5, <2>6, RowShows
<1>5. NodesKept
  BY DEF OutInv
<1>. QED
  BY <1>1, <1>2, <1>3, <1>4, <1>5 DEF OutputSafe

\* Whatever the plans and the results, whichever writes fail: what a run found is what
\* is emitted, once and where it was asked for.
THEOREM OutputsAreSafe == OutSpec => []OutputSafe
<1>1. OutInit => OutInv
  BY OutTyping
<1>2. OutInv /\ [OutNext]_outVars => OutInv'
  <2>. SUFFICES ASSUME OutInv, [OutNext]_outVars PROVE OutInv'
    OBVIOUS
  <2>1. CASE OutNext
    BY <2>1, OutStep
  <2>2. CASE UNCHANGED outVars
    <3>. USE <2>2 DEF outVars
    <3>1. StageInv' /\ TargetsInv' /\ NodesInv' /\ NodesKept'
      BY DEF OutInv, StageInv, TargetsInv, NodesInv, NodesKept, Gapless, OneStdout, FromCommandLine, Mode
    <3>2. \A k : (Holds(k) <=> Holds(k)') /\ (Emitted(k) <=> Emitted(k)')
      BY DEF Holds, Emitted
    <3>3. WrittenInv' /\ EmittedInv'
      BY <3>2 DEF OutInv, WrittenInv, EmittedInv, FromCommandLine
    <3>. QED
      BY <3>1, <3>3 DEF OutInv
  <2>. QED
    BY <2>1, <2>2
<1>3. OutInv => OutputSafe
  BY OutInvSafe
<1>. QED
  BY <1>1, <1>2, <1>3, PTL DEF OutSpec

-----------------------------------------------------------------------------
\* Subscription: what becomes of lines.

LEMMA CutFacts ==
  ASSUME NEW link \in LinkRecords, Cut(link).scheme \notin {"ssr", "cut"}
  PROVE  Cut(link) = link /\ link.scheme # "ssr"
<1>1. CASE link.scheme = "rocket" /\ ~link.tail
  <2>1. Cut(link) = [link EXCEPT !.scheme = "cut"]
    BY <1>1 DEF Cut
  <2>2. [link EXCEPT !.scheme = "cut"].scheme = "cut"
    BY DEF LinkRecords
  <2>. QED
    BY <2>1, <2>2
<1>2. CASE ~(link.scheme = "rocket" /\ ~link.tail)
  BY <1>2 DEF Cut
<1>. QED
  BY <1>1, <1>2

LEMMA LinesAsListed ==
  ASSUME NEW text, text.kind = "lines", text.links \in Seq(LinkRecords)
  PROVE  AsListed(parseProfiles(text), LibraryLinks(text))
<1>1. PICK links \in Seq(LinkRecords) : links = text.links
  OBVIOUS
<1>2. PICK n \in Nat : DOMAIN links = 1 .. n /\ \A i \in 1 .. n : links[i] \in LinkRecords
  OBVIOUS
<1>3. PICK F, G : /\ F = {i \in DOMAIN links : Found(links[i])}
                  /\ G = {i \in DOMAIN links : links[i].scheme \in KnownSchemes}
  OBVIOUS
<1>4. Places(F) /\ Places(G)
  BY <1>2, <1>3 DEF Places
<1>5. PICK found, known : found = At(links, F) /\ known = At(links, G)
  OBVIOUS
<1>6. PICK some : some = parseProfiles(text)
  OBVIOUS
<1>7. some = [k \in DOMAIN found |-> Cut(found[k])]
  <2>1. LinesIn(text) = links
    BY <1>1 DEF LinesIn
  <2>. QED
    BY <1>3, <1>5, <1>6, <2>1, Zenon DEF parseProfiles
<1>8. LibraryLinks(text) = known
  <2>1. text.kind = "lines" => LibraryLinks(text) = At(text.links, {i \in DOMAIN text.links : text.links[i].scheme \in KnownSchemes})
    BY DEF LibraryLinks
  <2>. QED
    BY <1>1, <1>3, <1>5, <2>1, Zenon
<1>9. \A k \in DOMAIN found : found[k] \in LinkRecords
  <2>1. \A x \in ToSet(found) : \E i \in F : x = links[i]
    BY <1>4, <1>5, AtMembers
  <2>. QED
    BY <1>2, <1>3, <2>1 DEF ToSet
<1>10. PICK W : W = {x \in LinkRecords : Cut(x).scheme \notin {"ssr", "cut"}}
  OBVIOUS
<1>11. PICK J, K, kept : /\ J = {k \in DOMAIN some : some[k].scheme \notin {"ssr", "cut"}}
                         /\ K = {i \in F : links[i] \in W}
                         /\ kept = At(some, J)
  OBVIOUS
<1>12. DOMAIN some = DOMAIN found /\ \A k \in DOMAIN found : some[k] = Cut(found[k])
  BY <1>7
<1>13. J = {k \in DOMAIN found : found[k] \in W}
  BY <1>9, <1>10, <1>11, <1>12
<1>14. \A k \in J : some[k] = found[k]
  BY <1>9, <1>11, <1>12, CutFacts
<1>15. Places(J) /\ Places(K)
  <2>1. PICK m, p : m \in Nat /\ Enumerates(F, m, p)
    BY <1>4, PlacesInOrder
  <2>2. DOMAIN found = 1 .. m
    BY <1>4, <1>5, <2>1, AtUnique
  <2>. QED
    BY <1>2, <1>3, <1>11, <1>13, <2>1, <2>2 DEF Places
<1>16. kept = At(links, K)
  <2>1. kept = At(found, J)
    BY <1>11, <1>14, <1>15, AtSame
  <2>2. At(found, {k \in DOMAIN found : found[k] \in W}) = At(links, {i \in F : links[i] \in W})
    <3>1. At(found, Those(found, DOMAIN found, W)) = At(links, Those(links, F, W))
      BY <1>4, <1>5, AtTwice
    <3>. QED
      BY <3>1, Zenon DEF Those
  <2>. QED
    BY <1>11, <1>13, <2>1, <2>2, Zenon
<1>17. \A x : x \in ToSet(kept) <=> \E i \in K : x = links[i]
  BY <1>15, <1>16, AtMembers
<1>18. PICK E : E = ToSet(kept)
  OBVIOUS
<1>19. \A x : x \in E <=> \E i \in K : x = links[i]
  BY <1>17, <1>18
<1>20. \A x : Found(x) /\ x.scheme # "ssr" => x.scheme \in KnownSchemes
  BY DEF Found, ListedSchemes, KnownSchemes
<1>21. {i \in G : links[i] \in E} = K
  <2>1. ASSUME NEW i \in K PROVE i \in G /\ links[i] \in E
    <3>1. i \in DOMAIN links /\ Found(links[i]) /\ links[i] \in LinkRecords /\ Cut(links[i]).scheme \notin {"ssr", "cut"}
      BY <1>3, <1>10, <1>11
    <3>2. links[i].scheme \in KnownSchemes
      BY <1>20, <3>1, CutFacts
    <3>. QED
      BY <1>3, <1>19, <3>1, <3>2
  <2>2. ASSUME NEW i \in G, links[i] \in E PROVE i \in K
    <3>1. PICK j \in K : links[i] = links[j]
      BY <1>19, <2>2
    <3>. QED
      BY <1>3, <1>11, <3>1
  <2>. QED
    BY <2>1, <2>2
<1>22. At(known, {k \in DOMAIN known : known[k] \in E}) = At(links, {i \in G : links[i] \in E})
  <2>1. At(known, Those(known, DOMAIN known, E)) = At(links, Those(links, G, E))
    BY <1>4, <1>5, AtTwice
  <2>. QED
    BY <2>1, Zenon DEF Those
<1>23. kept = At(known, {k \in DOMAIN known : known[k] \in ToSet(kept)})
  BY <1>16, <1>18, <1>21, <1>22, Zenon
<1>24. AsListed(some, known)
  BY <1>11, <1>23, Zenon DEF AsListed
<1>. QED
  BY <1>6, <1>8, <1>24

LEMMA NoLines ==
  ASSUME NEW text, text.kind # "lines" \/ (text.links \in Seq(LinkRecords) /\ ~HasLinks(text))
  PROVE  parseProfiles(text) = << >>
<1>1. PICK lines : lines = LinesIn(text)
  OBVIOUS
<1>2. {i \in DOMAIN lines : Found(lines[i])} = {}
  <2>1. CASE text.kind # "lines"
    BY <1>1, <2>1 DEF LinesIn
  <2>2. CASE text.kind = "lines"
    BY <1>1, <2>2 DEF HasLinks, Found
  <2>. QED
    BY <2>1, <2>2
<1>3. At(lines, {i \in DOMAIN lines : Found(lines[i])}) = << >>
  BY <1>2, AtEmpty
<1>4. PICK found : found = << >>
  OBVIOUS
<1>5. parseProfiles(text) = [i \in DOMAIN found |-> Cut(found[i])]
  BY <1>1, <1>3, <1>4, Zenon DEF parseProfiles
<1>6. DOMAIN found = {}
  BY <1>4
<1>. QED
  BY <1>4, <1>5, <1>6

LEMMA NoClash == ASSUME NEW text PROVE parseClash(text).links = << >> /\ parseClash(text).error = FALSE
<1>1. \A i \in DOMAIN text.nodes : proxyToLink(text.nodes[i]) = ""
  BY DEF proxyToLink
<1>2. {i \in DOMAIN text.nodes : proxyToLink(text.nodes[i]) # ""} = {}
  BY <1>1
<1>3. ParseClash(text) = << >>
  BY <1>2, AtEmpty, Zenon DEF ParseClash
<1>. QED
  BY <1>3 DEF parseClash, Yields

LEMMA DirectAlone == ASSUME NEW link, link.scheme = "direct" PROVE AsListed(<<link>>, <<link>>)
<1>1. PICK one : one = <<link>>
  OBVIOUS
<1>2. one \in Seq({link}) /\ DOMAIN one = {1} /\ one[1] = link
  BY <1>1
<1>3. At(one, DOMAIN one) = one
  BY <1>2, AtWhole
<1>4. {i \in DOMAIN one : one[i].scheme \notin {"ssr", "cut"}} = DOMAIN one
  BY <1>2
<1>5. {i \in DOMAIN one : one[i] \in ToSet(one)} = DOMAIN one
  BY DEF ToSet
<1>6. AsListed(one, one)
  BY <1>3, <1>4, <1>5, Zenon DEF AsListed
<1>. QED
  BY <1>1, <1>6

-----------------------------------------------------------------------------
\* The steps.

LEMMA OutcomeFacts ==
  /\ \A links : Yields(links).links = links /\ Yields(links).error = FALSE
  /\ Fails.links = << >> /\ Fails.error = TRUE
BY DEF Yields, Fails

\* Lines that were to be found are at hand as they are, or as they were asked for.
LEMMA Where ==
  ASSUME SubInv, subStage = "parsing"
  PROVE  /\ subFirst \in Texts /\ subText \in Texts
         /\ Plain(subFirst).kind = "lines" => subText = subFirst \/ subText = Plain(subFirst)
BY DEF SubInv

LEMMA FinishStep ==
  ASSUME SubInv, subStage = "parsing", NEW outcome, Finish(outcome),
         outcome.links # << >> => AsListed(outcome.links, ParseSubscription(subText)),
         Plain(subFirst).kind = "lines" => FromSource(subFirst, outcome)
  PROVE  SubInv'
<1>1. subStage' = "done" /\ subLinks' = outcome.links /\ subError' = outcome.error
      /\ subText' = subText /\ subFirst' = subFirst
  BY DEF Finish
<1>2. NoneInvented'
  BY <1>1 DEF NoneInvented
<1>3. SourceIrrelevant'
  BY <1>1 DEF SourceIrrelevant, FromSource
<1>. QED
  BY <1>1, <1>2, <1>3 DEF SubInv, SubscriptionSafe

LEMMA DirectStep == ASSUME SubInv, Direct PROVE SubInv'
<1>1. PICK link : link = [scheme |-> "direct", tail |-> FALSE]
  OBVIOUS
<1>2. subStage = "parsing" /\ subText.kind = "direct" /\ Finish(Yields(<<link>>))
  BY <1>1 DEF Direct
<1>3. ParseSubscription(subText) = <<link>>
  BY <1>1, <1>2 DEF ParseSubscription, LibraryLinks
<1>4. AsListed(<<link>>, ParseSubscription(subText))
  BY <1>1, <1>3, DirectAlone
<1>5. Plain(subFirst).kind # "lines"
  <2>1. Plain(subText) = subText
    BY <1>2 DEF Plain, Source
  <2>. QED
    BY <1>2, <2>1, Where
<1>. QED
  BY <1>2, <1>4, <1>5, OutcomeFacts, FinishStep

LEMMA ParsersStep == ASSUME SubInv, TryParsers PROVE SubInv'
<1>1. subStage = "parsing" /\ subText.kind \notin {"direct", "url", "path"} /\ Finish(Tried(subText))
  BY DEF TryParsers
<1>2. subText \in Texts /\ subFirst \in Texts
  BY <1>1, Where
<1>3. PICK text, outcome : text \in Texts /\ text = subText /\ outcome = Tried(text)
  BY <1>2
<1>4. Source(text) = text /\ (text.kind = "lines" => Plain(text) = text)
  BY <1>1, <1>3 DEF Plain, Source
<1>5. CASE text.kind = "lines"
  <2>1. text.links \in Seq(LinkRecords)
    BY <1>3, <1>5, TextsAssumption
  <2>2. ParseSubscription(text) = LibraryLinks(text)
    BY <1>5 DEF ParseSubscription
  <2>3. outcome.links = parseProfiles(text)
    <3>1. parseBase64(text).links = << >> /\ parseClash(text).links = << >>
      BY <1>5, OutcomeFacts, NoClash DEF parseBase64, DecodeB64Succeeds
    <3>. QED
      BY <1>3, <3>1, OutcomeFacts DEF Tried
  <2>4. AsListed(outcome.links, ParseSubscription(text))
    BY <1>5, <2>1, <2>2, <2>3, LinesAsListed
  <2>5. Plain(subFirst).kind = "lines" => Plain(subFirst) = text
    BY <1>1, <1>3, <1>4, <1>5, Where
  <2>6. Plain(subFirst).kind = "lines" => FromSource(subFirst, outcome)
    BY <2>3, <2>5 DEF FromSource
  <2>. QED
    BY <1>1, <1>3, <2>4, <2>6, FinishStep
<1>6. CASE text.kind = "base64"
  <2>1. text.inner \in Texts
    BY <1>3, <1>6, TextsAssumption
  <2>2. ParseSubscription(text) = LibraryLinks(text.inner)
    BY <1>6 DEF ParseSubscription
  <2>3. outcome.links = parseProfiles(text.inner)
    <3>1. parseBase64(text).links = parseProfiles(text.inner) /\ parseClash(text).links = << >> /\ parseProfiles(text) = << >>
      BY <1>6, OutcomeFacts, NoClash, NoLines DEF parseBase64, DecodeB64Succeeds
    <3>. QED
      BY <1>3, <3>1, OutcomeFacts DEF Tried
  <2>4. outcome.links # << >> => AsListed(outcome.links, ParseSubscription(text))
    <3>1. CASE text.inner.kind = "lines"
      <4>1. text.inner.links \in Seq(LinkRecords)
        BY <2>1, <3>1, TextsAssumption
      <4>. QED
        BY <2>2, <2>3, <3>1, <4>1, LinesAsListed
    <3>2. CASE text.inner.kind # "lines"
      BY <2>3, <3>2, NoLines
    <3>. QED
      BY <3>1, <3>2
  <2>5. Plain(subFirst).kind = "lines" => Plain(subFirst) = text.inner
    <3>1. Plain(text) = text.inner
      BY <1>4, <1>6 DEF Plain
    <3>. QED
      BY <1>1, <1>3, <1>6, <3>1, Where
  <2>6. Plain(subFirst).kind = "lines" => FromSource(subFirst, outcome)
    BY <2>3, <2>5 DEF FromSource
  <2>. QED
    BY <1>1, <1>3, <2>4, <2>6, FinishStep
<1>7. CASE text.kind \notin {"lines", "base64"}
  <2>1. outcome.links = << >>
    <3>1. parseProfiles(text) = << >> /\ parseBase64(text).links = << >> /\ parseClash(text).links = << >>
      BY <1>7, OutcomeFacts, NoClash, NoLines DEF parseBase64, DecodeB64Succeeds
    <3>. QED
      BY <1>3, <3>1, OutcomeFacts DEF Tried
  <2>2. Plain(subFirst).kind # "lines"
    <3>1. Plain(text) = text
      BY <1>4, <1>7 DEF Plain
    <3>. QED
      BY <1>1, <1>3, <1>7, <3>1, Where
  <2>. QED
    BY <1>1, <1>3, <2>1, <2>2, FinishStep
<1>. QED
  BY <1>5, <1>6, <1>7

LEMMA FileStep == ASSUME SubInv, ReadFile PROVE SubInv'
<1>1. subStage = "parsing" /\ subText.kind = "path" /\ Finish(parseFile(subText.at))
  BY DEF ReadFile, IsFilePath
<1>2. PICK path, file, text, outcome :
        path = subText.at /\ file = Disk[path] /\ text = file.text /\ outcome = parseFile(path)
  OBVIOUS
<1>3. path \in DOMAIN Disk /\ text \in Texts
  BY <1>1, <1>2, Where, TextsAssumption
<1>4. Source(subText) = text
  BY <1>1, <1>2 DEF Source
<1>5. ParseSubscription(subText) = LibraryContent(file.yaml, text)
  BY <1>1, <1>2 DEF ParseSubscription
<1>6. PICK decoded : decoded = parseBase64(text)
  OBVIOUS
<1>7. /\ text.kind = "base64" => decoded.links = parseProfiles(text.inner) /\ decoded.error = FALSE
      /\ text.kind # "base64" => decoded.links = << >> /\ decoded.error = TRUE
  BY <1>6, OutcomeFacts DEF parseBase64, DecodeB64Succeeds
<1>8. HasLinks(text) => text.kind = "lines"
  BY DEF HasLinks, LinesIn
<1>9. /\ file.yaml => outcome = parseClash(text)
      /\ ~file.yaml /\ decoded.error /\ file.big /\ text.kind = "clash" => outcome = parseClash(text)
      /\ ~file.yaml /\ decoded.error /\ file.big /\ text.kind # "clash" /\ HasLinks(text) => outcome = Yields(parseProfiles(text))
      /\ ~file.yaml /\ ~(decoded.error /\ file.big /\ (text.kind = "clash" \/ HasLinks(text))) => outcome = decoded
  <2>1. outcome = CASE file.yaml -> parseClash(text)
                    [] ~file.yaml /\ decoded.error /\ file.big /\ text.kind = "clash" -> parseClash(text)
                    [] ~file.yaml /\ decoded.error /\ file.big /\ HasLinks(text) -> Yields(parseProfiles(text))
                    [] OTHER -> decoded
    BY <1>2, <1>6, Zenon DEF parseFile
  <2>2. PICK clash, lines : clash = parseClash(text) /\ lines = Yields(parseProfiles(text))
    OBVIOUS
  <2>3. outcome = CASE file.yaml -> clash
                    [] ~file.yaml /\ decoded.error /\ file.big /\ text.kind = "clash" -> clash
                    [] ~file.yaml /\ decoded.error /\ file.big /\ HasLinks(text) -> lines
                    [] OTHER -> decoded
    BY <2>1, <2>2, Zenon
  <2>. QED
    BY <1>8, <2>2, <2>3
<1>10. CASE file.yaml
  <2>1. outcome.links = << >>
    BY <1>9, <1>10, NoClash
  <2>2. Plain(subFirst).kind = "lines" => FromSource(subFirst, outcome)
    <3>1. Plain(subFirst).kind = "lines" => subText = subFirst
      BY <1>1, Where
    <3>. QED
      BY <1>1, <1>2, <1>10, <2>1, <3>1 DEF FromSource
  <2>. QED
    BY <1>1, <1>2, <2>1, <2>2, FinishStep
<1>11. CASE ~file.yaml /\ text.kind = "lines"
  <2>1. text.links \in Seq(LinkRecords)
    BY <1>3, <1>11, TextsAssumption
  <2>2. ParseSubscription(subText) = LibraryLinks(text)
    BY <1>5, <1>11 DEF LibraryContent
  <2>3. outcome.links = parseProfiles(text) \/ (outcome.links = << >> /\ outcome.error /\ ~file.big)
    <3>1. CASE file.big /\ HasLinks(text)
      BY <1>7, <1>9, <1>11, <3>1, OutcomeFacts
    <3>2. CASE ~HasLinks(text)
      <4>1. parseProfiles(text) = << >>
        BY <2>1, <3>2, NoLines
      <4>. QED
        BY <1>7, <1>9, <1>11, <3>2, <4>1
    <3>3. CASE ~file.big
      BY <1>7, <1>9, <1>11, <3>3
    <3>. QED
      BY <3>1, <3>2, <3>3
  <2>4. outcome.links # << >> => AsListed(outcome.links, ParseSubscription(subText))
    BY <1>11, <2>1, <2>2, <2>3, LinesAsListed
  <2>5. Plain(subFirst).kind = "lines" => FromSource(subFirst, outcome)
    <3>1. Plain(subFirst).kind = "lines" => subText = subFirst
      BY <1>1, Where
    <3>2. Plain(subText) = text
      BY <1>4, <1>11 DEF Plain
    <3>. QED
      BY <1>1, <1>2, <1>11, <2>3, <3>1, <3>2 DEF FromSource
  <2>. QED
    BY <1>1, <1>2, <2>4, <2>5, FinishStep
<1>12. CASE ~file.yaml /\ text.kind = "base64"
  <2>1. text.inner \in Texts
    BY <1>3, <1>12, TextsAssumption
  <2>2. ParseSubscription(subText) = LibraryLinks(text.inner)
    BY <1>5, <1>12 DEF LibraryContent
  <2>3. outcome.links = parseProfiles(text.inner)
    BY <1>7, <1>9, <1>12
  <2>4. outcome.links # << >> => AsListed(outcome.links, ParseSubscription(subText))
    <3>1. CASE text.inner.kind = "lines"
      <4>1. text.inner.links \in Seq(LinkRecords)
        BY <2>1, <3>1, TextsAssumption
      <4>. QED
        BY <2>2, <2>3, <3>1, <4>1, LinesAsListed
    <3>2. CASE text.inner.kind # "lines"
      BY <2>3, <3>2, NoLines
    <3>. QED
      BY <3>1, <3>2
  <2>5. Plain(subFirst).kind = "lines" => FromSource(subFirst, outcome)
    <3>1. Plain(subFirst).kind = "lines" => subText = subFirst
      BY <1>1, Where
    <3>2. Plain(subText) = text.inner
      BY <1>4, <1>12 DEF Plain
    <3>. QED
      BY <2>3, <3>1, <3>2 DEF FromSource
  <2>. QED
    BY <1>1, <1>2, <2>4, <2>5, FinishStep
<1>13. CASE ~file.yaml /\ text.kind \notin {"lines", "base64"}
  <2>1. outcome.links = << >>
    <3>1. CASE file.big /\ text.kind = "clash"
      BY <1>7, <1>9, <1>13, <3>1, NoClash
    <3>2. CASE ~(file.big /\ text.kind = "clash")
      BY <1>7, <1>8, <1>9, <1>13, <3>2
    <3>. QED
      BY <3>1, <3>2
  <2>2. Plain(subFirst).kind # "lines"
    <3>1. Plain(subText) = text
      BY <1>4, <1>13 DEF Plain
    <3>. QED
      BY <1>1, <1>13, <3>1, Where
  <2>. QED
    BY <1>1, <1>2, <2>1, <2>2, FinishStep
<1>. QED
  BY <1>10, <1>11, <1>12, <1>13

LEMMA AddressStep == ASSUME SubInv, getSubscriptionLinks PROVE SubInv'
<1>1. subStage = "parsing" /\ subText.kind = "url"
  BY DEF getSubscriptionLinks, IsUrl
<1>2. PICK answer, text : answer = Web[subText.at] /\ text = answer.text
  OBVIOUS
<1>3. text \in Texts /\ subText \in Texts /\ subFirst \in Texts
  BY <1>1, <1>2, Where, TextsAssumption
<1>4. Source(subText) = text
  BY <1>1, <1>2 DEF Source
<1>5. Plain(subFirst).kind = "lines" => subText = subFirst
  BY <1>1, Where
<1>6. ASSUME ~answer.ok, Finish(Fails) PROVE SubInv'
  <2>1. Plain(subFirst).kind = "lines" => FromSource(subFirst, Fails)
    BY <1>1, <1>2, <1>5, <1>6, OutcomeFacts DEF FromSource
  <2>. QED
    BY <1>1, <1>6, <2>1, OutcomeFacts, FinishStep
<1>7. ASSUME answer.yaml, Finish(parseClash(text)) PROVE SubInv'
  <2>1. Plain(subFirst).kind = "lines" => FromSource(subFirst, parseClash(text))
    BY <1>1, <1>2, <1>5, <1>7, NoClash DEF FromSource
  <2>. QED
    BY <1>1, <1>7, <2>1, NoClash, FinishStep
<1>8. ASSUME answer.ok, ~answer.yaml, text.kind = "base64", subText' = text.inner,
             UNCHANGED <<subStage, subFirst, subLinks, subError>>
      PROVE  SubInv'
  <2>1. text.inner \in Texts
    BY <1>3, <1>8, TextsAssumption
  <2>2. Plain(subText) = text.inner
    BY <1>4, <1>8 DEF Plain
  <2>3. subFirst' = subFirst /\ subStage' = "parsing" /\ subText' = text.inner
    BY <1>1, <1>8
  <2>4. \/ subText = subFirst
        \/ subFirst.kind = "url" /\ Web[subFirst.at].ok /\ ~Web[subFirst.at].yaml /\ Plain(subFirst).kind # "lines"
    BY <1>1 DEF SubInv
  <2>5. subFirst.kind = "url" /\ Web[subFirst.at].ok /\ ~Web[subFirst.at].yaml
        /\ (text.inner = Plain(subFirst) \/ Plain(subFirst).kind # "lines")
    BY <1>1, <1>2, <1>8, <2>2, <2>4
  <2>6. NoneInvented' /\ SourceIrrelevant'
    BY <2>3 DEF NoneInvented, SourceIrrelevant
  <2>. QED
    BY <1>3, <2>1, <2>3, <2>5, <2>6 DEF SubInv, SubscriptionSafe
<1>9. ASSUME text.kind = "clash", Finish(parseClash(text)) PROVE SubInv'
  <2>1. Plain(subText) = text
    BY <1>4, <1>9 DEF Plain
  <2>2. Plain(subFirst).kind # "lines"
    BY <1>5, <1>9, <2>1
  <2>. QED
    BY <1>1, <1>9, <2>2, NoClash, FinishStep
<1>10. ASSUME answer.ok, ~answer.yaml, text.kind \notin {"base64", "clash"},
              Finish(IF HasLinks(text) THEN Yields(parseProfiles(text)) ELSE Fails)
       PROVE  SubInv'
  <2>1. PICK outcome : outcome = IF HasLinks(text) THEN Yields(parseProfiles(text)) ELSE Fails
    OBVIOUS
  <2>2. outcome.links = parseProfiles(text)
    <3>1. text.kind = "lines" => text.links \in Seq(LinkRecords)
      BY <1>3, TextsAssumption
    <3>2. ~HasLinks(text) => parseProfiles(text) = << >>
      BY <3>1, NoLines
    <3>. QED
      BY <2>1, <3>2, OutcomeFacts
  <2>3. Plain(subText) = text
    BY <1>4, <1>10 DEF Plain
  <2>4. Plain(subFirst).kind = "lines" => FromSource(subFirst, outcome)
    BY <1>5, <2>2, <2>3 DEF FromSource
  <2>5. outcome.links # << >> => AsListed(outcome.links, ParseSubscription(subText))
    <3>1. CASE text.kind = "lines"
      <4>1. text.links \in Seq(LinkRecords)
        BY <1>3, <3>1, TextsAssumption
      <4>2. ParseSubscription(subText) = LibraryContent(FALSE, text)
        BY <1>1, <1>2, <1>10 DEF ParseSubscription
      <4>3. LibraryContent(FALSE, text) = LibraryLinks(text)
        BY <3>1 DEF LibraryContent
      <4>. QED
        BY <2>2, <3>1, <4>1, <4>2, <4>3, LinesAsListed
    <3>2. CASE text.kind # "lines"
      BY <2>2, <3>2, NoLines
    <3>. QED
      BY <3>1, <3>2
  <2>6. Finish(outcome)
    BY <1>10, <2>1
  <2>. QED
    BY <1>1, <2>4, <2>5, <2>6, FinishStep
<1>11. \/ ~answer.ok /\ Finish(Fails)
       \/ answer.ok /\ answer.yaml /\ Finish(parseClash(text))
       \/ answer.ok /\ ~answer.yaml /\ text.kind = "base64" /\ subText' = text.inner
          /\ UNCHANGED <<subStage, subFirst, subLinks, subError>>
       \/ answer.ok /\ ~answer.yaml /\ text.kind = "clash" /\ Finish(parseClash(text))
       \/ answer.ok /\ ~answer.yaml /\ text.kind \notin {"base64", "clash"}
          /\ Finish(IF HasLinks(text) THEN Yields(parseProfiles(text)) ELSE Fails)
  BY <1>2, Zenon DEF getSubscriptionLinks, DecodeB64Succeeds
<1>. QED
  BY <1>6, <1>7, <1>8, <1>9, <1>10, <1>11

\* Whatever texts there are, typed, in files or behind addresses: a text becomes
\* the links it lists, none invented, and the same wherever it comes from.
THEOREM SubscriptionsAreSafe == SubSpec => []SubscriptionSafe
<1>1. SubInit => SubInv
  BY DEF SubInit, SubInv, SubscriptionSafe, NoneInvented, SourceIrrelevant
<1>2. SubInv /\ [SubNext]_subVars => SubInv'
  <2>. SUFFICES ASSUME SubInv, [SubNext]_subVars PROVE SubInv'
    OBVIOUS
  <2>1. ASSUME NEW text \in Texts, subStage = "idle", ParseLinks(text) PROVE SubInv'
    BY <2>1 DEF ParseLinks, SubInv, SubscriptionSafe, NoneInvented, SourceIrrelevant
  <2>2. CASE UNCHANGED subVars
    BY <2>2 DEF subVars, SubInv, SubscriptionSafe, NoneInvented, SourceIrrelevant
  <2>. QED
    BY <2>1, <2>2, DirectStep, AddressStep, FileStep, ParsersStep DEF SubNext
<1>3. SubInv => SubscriptionSafe
  BY DEF SubInv
<1>. QED
  BY <1>1, <1>2, <1>3, PTL DEF SubSpec

-----------------------------------------------------------------------------
\* Options: sequences that are built a step at a time.

LEMMA UpTheNumbers ==
  ASSUME NEW n \in Nat, NEW P, 0 \in P, \A i \in 1 .. n : i - 1 \in P => i \in P
  PROVE  \A i \in 0 .. n : i \in P
<1>1. SUFFICES ASSUME NEW S, S = {i \in 0 .. n : i \notin P}, S # {} PROVE FALSE
  OBVIOUS
<1>2. S \in SUBSET Nat
  BY <1>1
<1>3. PICK i \in S : \A j \in S : i <= j
  BY <1>1, <1>2, LeastIndex
<1>4. i \in 1 .. n /\ i - 1 \in 0 .. n
  BY <1>1, <1>3
<1>5. i - 1 \in P
  BY <1>1, <1>3, <1>4
<1>. QED
  BY <1>1, <1>4, <1>5

Steps(f, m, base, step) == f[0] = base /\ \A i \in 1 .. m : f[i] = step[<<f[i - 1], i>>]

LEMMA Recursion ==
  ASSUME NEW n \in Nat, NEW S, NEW base \in S, NEW step \in [S \X (1 .. n) -> S]
  PROVE  \E f \in [0 .. n -> S] : Steps(f, n, base, step)
<1>1. PICK P : P = {m \in 0 .. n : \E f \in [0 .. m -> S] : Steps(f, m, base, step)}
  OBVIOUS
<1>2. 0 \in P
  <2>1. PICK f : f = [i \in 0 .. 0 |-> base]
    OBVIOUS
  <2>2. f \in [0 .. 0 -> S] /\ Steps(f, 0, base, step)
    BY <2>1 DEF Steps
  <2>. QED
    BY <1>1, <2>2
<1>3. ASSUME NEW m \in 1 .. n, m - 1 \in P PROVE m \in P
  <2>1. PICK f \in [0 .. m - 1 -> S] : Steps(f, m - 1, base, step)
    BY <1>1, <1>3
  <2>2. step[<<f[m - 1], m>>] \in S
    OBVIOUS
  <2>3. PICK g : g = [i \in 0 .. m |-> IF i < m THEN f[i] ELSE step[<<f[m - 1], m>>]]
    OBVIOUS
  <2>4. g \in [0 .. m -> S]
    BY <2>2, <2>3
  <2>5. \A i \in 0 .. m - 1 : g[i] = f[i]
    BY <2>3
  <2>6. g[m] = step[<<g[m - 1], m>>]
    <3>1. m \in 0 .. m /\ ~ (m < m) /\ m - 1 \in 0 .. m - 1
      OBVIOUS
    <3>2. g[m] = step[<<f[m - 1], m>>] /\ g[m - 1] = f[m - 1]
      BY <2>3, <2>5, <3>1
    <3>. QED
      BY <3>2
  <2>7. \A i \in 1 .. m : g[i] = step[<<g[i - 1], i>>]
    <3>. SUFFICES ASSUME NEW i \in 1 .. m PROVE g[i] = step[<<g[i - 1], i>>]
      OBVIOUS
    <3>1. CASE i = m
      BY <2>6, <3>1
    <3>2. CASE i # m
      <4>1. i \in 1 .. m - 1 /\ i \in 0 .. m - 1 /\ i - 1 \in 0 .. m - 1
        BY <3>2
      <4>. QED
        BY <2>1, <2>5, <4>1 DEF Steps
    <3>. QED
      BY <3>1, <3>2
  <2>8. Steps(g, m, base, step)
    BY <2>1, <2>5, <2>7 DEF Steps
  <2>. QED
    BY <1>1, <2>4, <2>8
<1>4. \A m \in 0 .. n : m \in P
  BY <1>2, <1>3, UpTheNumbers
<1>. QED
  BY <1>1, <1>4

\* FlattenSeq joins one sequence after the other.
Joins(f, s, m) == f[0] = << >> /\ \A i \in 1 .. m : f[i] = f[i - 1] \o s[i]

LEMMA FlattenSteps ==
  ASSUME NEW A, NEW s \in Seq(Seq(A)), NEW n \in Nat, n = Len(s)
  PROVE  \E f \in [0 .. n -> Seq(A)] : Joins(f, s, n) /\ f[n] = FlattenSeq(s)
<1>1. PICK step : step = [p \in Seq(A) \X (1 .. n) |-> p[1] \o s[p[2]]]
  OBVIOUS
<1>2. \A i \in 1 .. n : s[i] \in Seq(A)
  OBVIOUS
<1>3. step \in [Seq(A) \X (1 .. n) -> Seq(A)]
  BY <1>1, <1>2
<1>4. << >> \in Seq(A)
  OBVIOUS
<1>5. PICK f \in [0 .. n -> Seq(A)] : Steps(f, n, << >>, step)
  BY <1>3, <1>4, Recursion
<1>6. ASSUME NEW i \in 1 .. n PROVE f[i] = f[i - 1] \o s[i]
  <2>1. f[i] = step[<<f[i - 1], i>>]
    BY <1>5 DEF Steps
  <2>2. <<f[i - 1], i>> \in Seq(A) \X (1 .. n)
    <3>1. i - 1 \in 0 .. n
      OBVIOUS
    <3>. QED
      BY <1>5, <3>1
  <2>. QED
    BY <1>1, <2>1, <2>2
<1>7. f[0] = << >> /\ Joins(f, s, n)
  BY <1>5, <1>6 DEF Steps, Joins
<1>8. CASE n = 0
  <2>1. s = << >> /\ Len(s) = 0
    BY <1>8, EmptySeq
  <2>2. FlattenSeq(s) = s
    BY <2>1 DEF FlattenSeq
  <2>3. f[n] = FlattenSeq(s)
    BY <1>7, <1>8, <2>1, <2>2
  <2>. QED
    BY <1>5, <1>7, <2>3
<1>9. CASE n # 0
  <2>. DEFINE h == CHOOSE g : g = [i \in 1 .. Len(s) |-> IF i = 1 THEN s[i] ELSE g[i - 1] \o s[i]]
  <2>1. FlattenSeq(s) = h[Len(s)]
    BY <1>9 DEF FlattenSeq
  <2>2. PICK g : g = [i \in 1 .. n |-> f[i]]
    OBVIOUS
  <2>3. \A i \in 1 .. n : g[i] = IF i = 1 THEN s[i] ELSE g[i - 1] \o s[i]
    <3>. SUFFICES ASSUME NEW i \in 1 .. n PROVE g[i] = IF i = 1 THEN s[i] ELSE g[i - 1] \o s[i]
      OBVIOUS
    <3>1. CASE i = 1
      <4>1. g[i] = << >> \o s[1]
        <5>1. 1 \in 1 .. n /\ 1 - 1 = 0
          BY <1>9
        <5>2. f[1] = f[0] \o s[1]
          BY <1>6, <5>1
        <5>. QED
          BY <1>7, <2>2, <3>1, <5>2
      <4>2. << >> \o s[1] = s[1]
        BY <1>2, <3>1
      <4>. QED
        BY <3>1, <4>1, <4>2
    <3>2. CASE i # 1
      <4>1. i - 1 \in 1 .. n
        BY <3>2
      <4>. QED
        BY <1>6, <2>2, <3>2, <4>1
    <3>. QED
      BY <3>1, <3>2
  <2>4. g = [i \in 1 .. Len(s) |-> IF i = 1 THEN s[i] ELSE g[i - 1] \o s[i]]
    BY <2>2, <2>3
  <2>5. h = [i \in 1 .. Len(s) |-> IF i = 1 THEN s[i] ELSE h[i - 1] \o s[i]]
    BY <2>4, Zenon
  <2>6. PICK k : k = h /\ k = [i \in 1 .. Len(s) |-> IF i = 1 THEN s[i] ELSE k[i - 1] \o s[i]]
    BY <2>5, Zenon
  <2>. HIDE DEF h
  <2>7. PICK P : P = {i \in 0 .. n : i = 0 \/ k[i] = f[i]}
    OBVIOUS
  <2>8. 0 \in P
    BY <2>7
  <2>9. ASSUME NEW i \in 1 .. n, i - 1 \in P PROVE i \in P
    <3>1. k[i] = IF i = 1 THEN s[i] ELSE k[i - 1] \o s[i]
      BY <2>6
    <3>2. g[i] = IF i = 1 THEN s[i] ELSE g[i - 1] \o s[i]
      BY <2>3
    <3>3. CASE i = 1
      BY <2>2, <2>7, <3>1, <3>2, <3>3
    <3>4. CASE i # 1
      <4>1. i - 1 \in 1 .. n /\ k[i - 1] = f[i - 1]
        BY <2>7, <2>9, <3>4
      <4>2. g[i] = f[i] /\ g[i - 1] = f[i - 1]
        BY <2>2, <4>1
      <4>3. k[i] = f[i]
        BY <3>1, <3>2, <3>4, <4>1, <4>2
      <4>. QED
        BY <2>7, <4>3
    <3>. QED
      BY <3>3, <3>4
  <2>10. \A i \in 0 .. n : i \in P
    BY <2>8, <2>9, UpTheNumbers
  <2>11. k[n] = f[n]
    BY <1>9, <2>7, <2>10
  <2>. QED
    BY <1>7, <2>1, <2>6, <2>11
<1>. QED
  BY <1>8, <1>9

\* Where an element of the joined sequences comes from, and what stands before it.
From(s, t, F, G, i, p) ==
  /\ \E j \in DOMAIN s[i] : F[p] = s[i][j] /\ G[p] = t[i][j]
  /\ \A l \in 1 .. i - 1 : \A x \in DOMAIN s[l] : \E q \in 1 .. p - 1 : F[q] = s[l][x]
Covers(s, F, m) == \A l \in 1 .. m : \A x \in DOMAIN s[l] : \E q \in 1 .. Len(F) : F[q] = s[l][x]
Aligned(s, t, F, G, m) ==
  /\ Len(F) = Len(G) /\ Covers(s, F, m)
  /\ \A p \in 1 .. Len(F) : \E i \in 1 .. m : From(s, t, F, G, i, p)

JoinedTo(A, F, a, H) ==
  /\ H \in Seq(A) /\ Len(H) = Len(F) + Len(a) /\ Len(F) \in Nat /\ Len(a) \in Nat /\ DOMAIN a = 1 .. Len(a)
  /\ \A p \in 1 .. Len(F) : H[p] = F[p] /\ p \in 1 .. Len(H)
  /\ \A p \in 1 .. Len(H) : p > Len(F) => p - Len(F) \in 1 .. Len(a) /\ H[p] = a[p - Len(F)]
  /\ \A j \in 1 .. Len(a) : Len(F) + j \in 1 .. Len(H) /\ H[Len(F) + j] = a[j]

LEMMA JoinFacts ==
  ASSUME NEW A, NEW F \in Seq(A), NEW a \in Seq(A), NEW H, H = F \o a
  PROVE  JoinedTo(A, F, a, H)
<1>0. PICK n \in Nat : n = Len(F)
  OBVIOUS
<1>7. PICK k \in Nat : k = Len(a)
  OBVIOUS
<1>1. n = Len(F) /\ k = Len(a) /\ DOMAIN a = 1 .. k
  BY <1>0, <1>7
<1>2. H \in Seq(A) /\ Len(H) = n + k
  BY <1>1
<1>3. \A p \in 1 .. n + k : H[p] = IF p <= n THEN F[p] ELSE a[p - n]
  BY <1>1
<1>4. \A p \in 1 .. n : H[p] = F[p] /\ p \in 1 .. n + k
  BY <1>1, <1>3
<1>5. \A p \in 1 .. n + k : p > n => p - n \in 1 .. k /\ H[p] = a[p - n]
  BY <1>1, <1>3
<1>6. \A j \in 1 .. k : n + j \in 1 .. n + k /\ H[n + j] = a[j]
  <2>. SUFFICES ASSUME NEW j \in 1 .. k PROVE n + j \in 1 .. n + k /\ H[n + j] = a[j]
    OBVIOUS
  <2>1. PICK p \in 1 .. n + k : p = n + j
    OBVIOUS
  <2>2. p > n /\ p - n = j
    BY <2>1
  <2>3. H[p] = a[p - n]
    BY <1>5, <2>2
  <2>. QED
    BY <2>1, <2>2, <2>3
<1>8. \A p \in 1 .. Len(F) : H[p] = F[p] /\ p \in 1 .. Len(H)
  BY <1>1, <1>2, <1>4
<1>9. \A p \in 1 .. Len(H) : p > Len(F) => p - Len(F) \in 1 .. Len(a) /\ H[p] = a[p - Len(F)]
  BY <1>1, <1>2, <1>5
<1>10. \A j \in 1 .. Len(a) : Len(F) + j \in 1 .. Len(H) /\ H[Len(F) + j] = a[j]
  BY <1>1, <1>2, <1>6
<1>11. H \in Seq(A) /\ Len(H) = Len(F) + Len(a) /\ Len(F) \in Nat /\ Len(a) \in Nat /\ DOMAIN a = 1 .. Len(a)
  BY <1>1, <1>2
<1>. QED
  BY <1>8, <1>9, <1>10, <1>11, Zenon DEF JoinedTo

LEMMA JoinStep ==
  ASSUME NEW A, NEW B, NEW F \in Seq(A), NEW G \in Seq(B), NEW m \in Nat \ {0}, NEW s, NEW t,
         s[m] \in Seq(A), t[m] \in Seq(B), Len(s[m]) = Len(t[m]), Aligned(s, t, F, G, m - 1)
  PROVE  Aligned(s, t, F \o s[m], G \o t[m], m)
<1>1. PICK a, b : a = s[m] /\ b = t[m]
  OBVIOUS
<1>2. a \in Seq(A) /\ b \in Seq(B) /\ Len(a) = Len(b)
  BY <1>1
<1>3. PICK H, K : H = F \o a /\ K = G \o b
  OBVIOUS
<1>11. JoinedTo(A, F, a, H) /\ JoinedTo(B, G, b, K)
  BY <1>2, <1>3, JoinFacts, Zenon
<1>4. /\ H \in Seq(A) /\ Len(H) = Len(F) + Len(a) /\ Len(F) \in Nat /\ Len(a) \in Nat
      /\ DOMAIN a = 1 .. Len(a)
      /\ \A p \in 1 .. Len(F) : H[p] = F[p] /\ p \in 1 .. Len(H)
      /\ \A p \in 1 .. Len(H) : p > Len(F) => p - Len(F) \in 1 .. Len(a) /\ H[p] = a[p - Len(F)]
      /\ \A j \in 1 .. Len(a) : Len(F) + j \in 1 .. Len(H) /\ H[Len(F) + j] = a[j]
  BY <1>11, Zenon DEF JoinedTo
<1>5. /\ K \in Seq(B) /\ Len(K) = Len(G) + Len(b)
      /\ \A p \in 1 .. Len(G) : K[p] = G[p]
      /\ \A p \in 1 .. Len(K) : p > Len(G) => K[p] = b[p - Len(G)]
  BY <1>11, Zenon DEF JoinedTo
<1>6. Len(F) = Len(G) /\ Len(H) = Len(K)
  BY <1>2, <1>4, <1>5 DEF Aligned
<1>7. Covers(s, F, m - 1)
  BY DEF Aligned
<1>8. Covers(s, H, m)
  <2>. SUFFICES ASSUME NEW l \in 1 .. m, NEW x \in DOMAIN s[l]
                PROVE  \E q \in 1 .. Len(H) : H[q] = s[l][x]
    BY DEF Covers
  <2>1. CASE l = m
    BY <1>1, <1>4, <2>1
  <2>2. CASE l # m
    <3>1. l \in 1 .. m - 1
      BY <2>2
    <3>2. PICK q \in 1 .. Len(F) : F[q] = s[l][x]
      BY <1>7, <3>1 DEF Covers
    <3>. QED
      BY <1>4, <3>2
  <2>. QED
    BY <2>1, <2>2
<1>9. ASSUME NEW p \in 1 .. Len(H) PROVE \E i \in 1 .. m : From(s, t, H, K, i, p)
  <2>1. CASE p <= Len(F)
    <3>1. p \in 1 .. Len(F) /\ p \in Nat
      BY <2>1, <1>4
    <3>2. PICK i \in 1 .. m - 1 : From(s, t, F, G, i, p)
      BY <3>1 DEF Aligned
    <3>3. \A q \in 1 .. p : H[q] = F[q] /\ K[q] = G[q]
      BY <1>4, <1>5, <1>6, <3>1
    <3>4. \E j \in DOMAIN s[i] : H[p] = s[i][j] /\ K[p] = t[i][j]
      BY <3>1, <3>2, <3>3 DEF From
    <3>5. \A l \in 1 .. i - 1 : \A x \in DOMAIN s[l] : \E q \in 1 .. p - 1 : H[q] = s[l][x]
      <4>. SUFFICES ASSUME NEW l \in 1 .. i - 1, NEW x \in DOMAIN s[l]
                    PROVE  \E q \in 1 .. p - 1 : H[q] = s[l][x]
        OBVIOUS
      <4>1. PICK q \in 1 .. p - 1 : F[q] = s[l][x]
        BY <3>2 DEF From
      <4>2. q \in 1 .. p
        BY <3>1
      <4>. QED
        BY <3>3, <4>1, <4>2
    <3>6. From(s, t, H, K, i, p)
      BY <3>4, <3>5 DEF From
    <3>7. i \in 1 .. m
      OBVIOUS
    <3>. QED
      BY <3>6, <3>7
  <2>2. CASE ~ (p <= Len(F))
    <3>1. p > Len(F) /\ p \in Nat /\ Len(F) \in Nat
      BY <2>2, <1>4
    <3>2. p - Len(F) \in DOMAIN s[m] /\ H[p] = s[m][p - Len(F)] /\ K[p] = t[m][p - Len(F)]
      BY <1>1, <1>4, <1>5, <1>6, <3>1
    <3>3. \A l \in 1 .. m - 1 : \A x \in DOMAIN s[l] : \E q \in 1 .. p - 1 : H[q] = s[l][x]
      <4>. SUFFICES ASSUME NEW l \in 1 .. m - 1, NEW x \in DOMAIN s[l]
                    PROVE  \E q \in 1 .. p - 1 : H[q] = s[l][x]
        OBVIOUS
      <4>1. PICK q \in 1 .. Len(F) : F[q] = s[l][x]
        BY <1>7 DEF Covers
      <4>2. H[q] = F[q] /\ q \in 1 .. p - 1
        BY <1>4, <3>1
      <4>. QED
        BY <4>1, <4>2
    <3>4. From(s, t, H, K, m, p)
      BY <3>2, <3>3 DEF From
    <3>. QED
      BY <3>4
  <2>. QED
    BY <2>1, <2>2
<1>10. Aligned(s, t, H, K, m)
  BY <1>6, <1>8, <1>9 DEF Aligned
<1>. QED
  BY <1>1, <1>3, <1>10

LEMMA FlattenAligned ==
  ASSUME NEW A, NEW B, NEW n \in Nat, NEW s \in Seq(Seq(A)), NEW t \in Seq(Seq(B)),
         Len(s) = n, Len(t) = n, \A i \in 1 .. n : Len(s[i]) = Len(t[i])
  PROVE  /\ FlattenSeq(s) \in Seq(A) /\ FlattenSeq(t) \in Seq(B)
         /\ Aligned(s, t, FlattenSeq(s), FlattenSeq(t), n)
<1>1. PICK f \in [0 .. n -> Seq(A)] : Joins(f, s, n) /\ f[n] = FlattenSeq(s)
  BY FlattenSteps
<1>2. PICK g \in [0 .. n -> Seq(B)] : Joins(g, t, n) /\ g[n] = FlattenSeq(t)
  BY FlattenSteps
<1>3. PICK P : P = {m \in 0 .. n : Aligned(s, t, f[m], g[m], m)}
  OBVIOUS
<1>4. 0 \in P
  <2>1. f[0] = << >> /\ g[0] = << >>
    BY <1>1, <1>2 DEF Joins
  <2>2. Aligned(s, t, << >>, << >>, 0)
    BY DEF Aligned, Covers
  <2>. QED
    BY <1>3, <2>1, <2>2
<1>5. ASSUME NEW m \in 1 .. n, m - 1 \in P PROVE m \in P
  <2>1. m - 1 \in 0 .. n /\ m \in Nat \ {0} /\ m \in 0 .. n
    OBVIOUS
  <2>2. f[m - 1] \in Seq(A) /\ g[m - 1] \in Seq(B) /\ s[m] \in Seq(A) /\ t[m] \in Seq(B)
    <3>1. \A i \in 1 .. n : s[i] \in Seq(A) /\ t[i] \in Seq(B)
      OBVIOUS
    <3>. QED
      BY <2>1, <3>1
  <2>3. Aligned(s, t, f[m - 1], g[m - 1], m - 1) /\ Len(s[m]) = Len(t[m])
    BY <1>3, <1>5
  <2>4. Aligned(s, t, f[m - 1] \o s[m], g[m - 1] \o t[m], m)
    BY <2>1, <2>2, <2>3, JoinStep
  <2>5. f[m] = f[m - 1] \o s[m] /\ g[m] = g[m - 1] \o t[m]
    BY <1>1, <1>2 DEF Joins
  <2>6. Aligned(s, t, f[m], g[m], m)
    BY <2>4, <2>5
  <2>. QED
    BY <1>3, <2>1, <2>6
<1>6. n \in P
  <2>1. \A m \in 0 .. n : m \in P
    BY <1>4, <1>5, UpTheNumbers
  <2>. QED
    BY <2>1
<1>7. f[n] \in Seq(A) /\ g[n] \in Seq(B) /\ Aligned(s, t, f[n], g[n], n)
  <2>1. n \in 0 .. n
    OBVIOUS
  <2>. QED
    BY <1>1, <1>2, <1>3, <1>6, <2>1
<1>. QED
  BY <1>1, <1>2, <1>7

-----------------------------------------------------------------------------
\* Options: the filter of one link for each node.

KeyLinks == DOMAIN KeyOf \cup {DirectLink}

LEMMA FirstFacts ==
  ASSUME NEW S, NEW links \in Seq(S), NEW I, I = FirstOfNode(links)
  PROVE  /\ Places(I)
         /\ \A i \in I : i \in DOMAIN links /\ KeyOf[links[i]] # "none"
         /\ \A i \in I : \A j \in DOMAIN links : j < i => KeyOf[links[j]] # KeyOf[links[i]]
         /\ \A i \in DOMAIN links : KeyOf[links[i]] # "none" => \E j \in I : KeyOf[links[j]] = KeyOf[links[i]]
<1>1. PICK n \in Nat : DOMAIN links = 1 .. n
  OBVIOUS
<1>2. I = {i \in 1 .. n : KeyOf[links[i]] # "none" /\ \A j \in 1 .. i - 1 : KeyOf[links[j]] # KeyOf[links[i]]}
  BY <1>1, Zenon DEF FirstOfNode
<1>3. Places(I)
  BY <1>2 DEF Places
<1>4. \A i \in I : i \in DOMAIN links /\ KeyOf[links[i]] # "none"
  BY <1>1, <1>2
<1>5. \A i \in I : \A j \in DOMAIN links : j < i => KeyOf[links[j]] # KeyOf[links[i]]
  <2>. SUFFICES ASSUME NEW i \in I, NEW j \in DOMAIN links, j < i
                PROVE  KeyOf[links[j]] # KeyOf[links[i]]
    OBVIOUS
  <2>1. j \in 1 .. i - 1
    BY <1>1, <1>2
  <2>. QED
    BY <1>2, <2>1
<1>6. ASSUME NEW i \in DOMAIN links, KeyOf[links[i]] # "none"
      PROVE  \E j \in I : KeyOf[links[j]] = KeyOf[links[i]]
  <2>1. PICK A : A = {j \in 1 .. n : KeyOf[links[j]] = KeyOf[links[i]]}
    OBVIOUS
  <2>2. A \in SUBSET Nat /\ A # {}
    BY <1>1, <2>1
  <2>3. PICK j \in A : \A l \in A : j <= l
    BY <2>2, LeastIndex
  <2>4. \A l \in 1 .. j - 1 : KeyOf[links[l]] # KeyOf[links[j]]
    <3>. SUFFICES ASSUME NEW l \in 1 .. j - 1, KeyOf[links[l]] = KeyOf[links[j]] PROVE FALSE
      OBVIOUS
    <3>1. l \in 1 .. n /\ ~ (j <= l)
      BY <2>1
    <3>2. l \in A
      BY <2>1, <3>1
    <3>. QED
      BY <2>3, <3>1, <3>2
  <2>5. j \in I /\ KeyOf[links[j]] = KeyOf[links[i]]
    BY <1>2, <1>6, <2>1, <2>4
  <2>. QED
    BY <2>5
<1>. QED
  BY <1>3, <1>4, <1>5, <1>6

LEMMA OneOfEach ==
  ASSUME NEW S, NEW links \in Seq(S), NEW kept, kept = At(links, FirstOfNode(links))
  PROVE  /\ \A i, j \in DOMAIN kept : KeyOf[kept[i]] = KeyOf[kept[j]] => i = j
         /\ {KeyOf[link] : link \in ToSet(kept)} = {KeyOf[link] : link \in ToSet(links)} \ {"none"}
<1>1. PICK I : I = FirstOfNode(links)
  OBVIOUS
<1>2. /\ Places(I)
      /\ \A i \in I : i \in DOMAIN links /\ KeyOf[links[i]] # "none"
      /\ \A i \in I : \A j \in DOMAIN links : j < i => KeyOf[links[j]] # KeyOf[links[i]]
      /\ \A i \in DOMAIN links : KeyOf[links[i]] # "none" => \E j \in I : KeyOf[links[j]] = KeyOf[links[i]]
  BY <1>1, FirstFacts
<1>3. PICK m, p : m \in Nat /\ Enumerates(I, m, p)
  BY <1>2, PlacesInOrder
<1>4. kept = [k \in 1 .. m |-> links[p[k]]]
  BY <1>1, <1>2, <1>3, AtUnique
<1>5. p \in [1 .. m -> I] /\ \A k, l \in 1 .. m : k < l => p[k] < p[l]
  BY <1>3 DEF Enumerates
<1>6. \A k, l \in 1 .. m : k < l => KeyOf[kept[k]] # KeyOf[kept[l]]
  <2>. SUFFICES ASSUME NEW k \in 1 .. m, NEW l \in 1 .. m, k < l
                PROVE  KeyOf[kept[k]] # KeyOf[kept[l]]
    OBVIOUS
  <2>1. p[k] \in I /\ p[l] \in I /\ p[k] < p[l]
    BY <1>5
  <2>2. kept[k] = links[p[k]] /\ kept[l] = links[p[l]]
    BY <1>4
  <2>. QED
    BY <1>2, <2>1, <2>2
<1>7. \A i, j \in DOMAIN kept : KeyOf[kept[i]] = KeyOf[kept[j]] => i = j
  <2>. SUFFICES ASSUME NEW i \in 1 .. m, NEW j \in 1 .. m, KeyOf[kept[i]] = KeyOf[kept[j]]
                PROVE  i = j
    BY <1>4
  <2>1. ~ (i < j) /\ ~ (j < i)
    BY <1>6
  <2>. QED
    BY <1>3, <2>1
<1>8. ToSet(links) = {links[i] : i \in DOMAIN links}
  BY DEF ToSet
<1>9. \A x : x \in ToSet(kept) <=> \E i \in I : x = links[i]
  BY <1>1, <1>2, AtMembers
<1>10. {KeyOf[link] : link \in ToSet(kept)} = {KeyOf[link] : link \in ToSet(links)} \ {"none"}
  <2>1. ASSUME NEW x \in ToSet(kept) PROVE KeyOf[x] \in {KeyOf[link] : link \in ToSet(links)} \ {"none"}
    BY <1>2, <1>8, <1>9
  <2>2. ASSUME NEW x \in ToSet(links), KeyOf[x] # "none" PROVE \E y \in ToSet(kept) : KeyOf[y] = KeyOf[x]
    <3>1. PICK i \in DOMAIN links : x = links[i]
      BY <1>8
    <3>2. PICK j \in I : KeyOf[links[j]] = KeyOf[x]
      BY <1>2, <2>2, <3>1
    <3>3. links[j] \in ToSet(kept)
      BY <1>9
    <3>. QED
      BY <3>2, <3>3
  <2>3. PICK A, B, C : A = ToSet(kept) /\ B = ToSet(links) /\ C = {KeyOf[link] : link \in B}
    OBVIOUS
  <2>4. \A x \in A : KeyOf[x] \in C \ {"none"}
    BY <2>1, <2>3
  <2>5. \A y \in C \ {"none"} : \E x \in A : KeyOf[x] = y
    BY <2>2, <2>3
  <2>6. {KeyOf[link] : link \in A} = C \ {"none"}
    BY <2>4, <2>5
  <2>. QED
    BY <2>3, <2>6
<1>. QED
  BY <1>7, <1>10

\* Options: the invariant.

LEMMA OptionInvInit == OptionInit => OptInv
  BY DEF OptionInit, OptInv

LEMMA OptionInvStep == ASSUME OptInv, OptionNext PROVE OptInv'
<1>1. ASSUME NEW m \in Requests, parseMessage(m), optStage = "idle" PROVE OptInv'
  <2>1. optInput' = m
    BY <1>1 DEF parseMessage
  <2>2. CASE RequestLinks(m) = << >> /\ ~m.retest
    <3>1. optStage' = "refused"
      BY <1>1, <2>2 DEF parseMessage
    <3>. QED
      BY <3>1 DEF OptInv
  <2>3. CASE ~(RequestLinks(m) = << >> /\ ~m.retest)
    <3>1. /\ optStage' = "parsed" /\ optOptions' = RequestOptions(m)
          /\ optLinks' = RequestLinks(m) /\ optGroups' = RequestGroups(m)
      BY <1>1, <2>3 DEF parseMessage
    <3>. QED
      BY <2>1, <3>1 DEF OptInv
  <2>. QED
    BY <2>2, <2>3
<1>2. ASSUME NEW c \in Commands, TestFromCMD(c) PROVE OptInv'
  <2>1. /\ optInput' = c /\ Dispatch(c).what = "test"
        /\ optOptions' = CommandOptions(FlagsOf(c), c.file, Dispatch(c).subscription)
        /\ optStage' \in {"refused", "testing"}
    BY <1>2 DEF TestFromCMD
  <2>. QED
    BY <2>1 DEF OptInv
<1>3. ASSUME NEW c \in Commands, Serve(c) PROVE OptInv'
  <2>1. optStage' \in {"printed", "serving"}
    BY <1>3 DEF Serve
  <2>. QED
    BY <2>1 DEF OptInv
<1>4. ASSUME Filter PROVE OptInv'
  <2>1. /\ optStage = "parsed" /\ optStage' = "testing"
        /\ optInput' = optInput /\ optOptions' = optOptions
        /\ optLinks' = At(optLinks, Kept(optInput, optLinks))
        /\ optGroups' = IF optGroups = << >> THEN << >> ELSE At(GroupsOf(optLinks, optGroups), Kept(optInput, optLinks))
    BY <1>4 DEF Filter
  <2>2. /\ optInput \in Requests /\ optOptions = RequestOptions(optInput)
        /\ optLinks = RequestLinks(optInput) /\ optGroups = RequestGroups(optInput)
    BY <2>1 DEF OptInv
  <2>. QED
    BY <2>1, <2>2 DEF OptInv
<1>. QED
  BY <1>1, <1>2, <1>3, <1>4 DEF OptionNext

-----------------------------------------------------------------------------
\* Options: the groups.

LEMMA UsableEntries ==
  ASSUME NEW m \in Requests
  PROVE  /\ Usable(m) \in Seq([sub : DOMAIN LinksOf, group : STRING])
         /\ m.subscriptions = << >> => Usable(m) = << >>
<1>1. PICK s \in Seq([sub : DOMAIN LinksOf \cup {""}, group : STRING]) : s = m.subscriptions
  BY RequestsAssumption
<1>2. PICK n \in Nat : DOMAIN s = 1 .. n /\ Len(s) = n
  <2>1. Len(s) \in Nat /\ DOMAIN s = 1 .. Len(s)
    BY LenProperties
  <2>. QED
    BY <2>1
<1>3. PICK I : I = Yielding(s)
  OBVIOUS
<1>4. I \in SUBSET (1 .. n) /\ \A i \in I : s[i].sub # ""
  BY <1>2, <1>3 DEF Yielding
<1>5. \A i \in I : s[i] \in [sub : DOMAIN LinksOf, group : STRING]
  <2>. SUFFICES ASSUME NEW i \in I PROVE s[i] \in [sub : DOMAIN LinksOf, group : STRING]
    OBVIOUS
  <2>1. s[i] \in [sub : DOMAIN LinksOf \cup {""}, group : STRING]
    <3>1. i \in 1 .. Len(s)
      BY <1>2, <1>4
    <3>. QED
      BY <3>1, ElementOfSeq
  <2>2. s[i].sub # ""
    BY <1>4
  <2>. QED
    BY <2>1, <2>2
<1>6. At(s, I) \in Seq([sub : DOMAIN LinksOf, group : STRING])
  BY <1>4, <1>5, AtElements
<1>7. s = << >> => I = {}
  BY <1>3 DEF Yielding
<1>8. s = << >> => At(s, I) = << >>
  BY <1>7, AtEmpty
<1>. QED
  BY <1>1, <1>3, <1>6, <1>8 DEF Usable

\* The links of the entries and their groups, joined.
Sets(U) == [i \in DOMAIN U |-> LinksOf[U[i].sub]]
SetGroups(U) == [i \in DOMAIN U |-> [j \in DOMAIN LinksOf[U[i].sub] |-> U[i].group]]

LEMMA EntriesAligned ==
  ASSUME NEW U \in Seq([sub : DOMAIN LinksOf, group : STRING])
  PROVE  /\ EntryLinks(U) \in Seq(DOMAIN KeyOf) /\ EntryGroups(U) \in Seq(STRING)
         /\ Aligned(Sets(U), SetGroups(U), EntryLinks(U), EntryGroups(U), Len(U))
<1>1. PICK n \in Nat : n = Len(U) /\ DOMAIN U = 1 .. n
  OBVIOUS
<1>2. PICK s, t : s = Sets(U) /\ t = SetGroups(U)
  OBVIOUS
<1>3. \A i \in 1 .. n : LinksOf[U[i].sub] \in Seq(DOMAIN KeyOf) /\ U[i].group \in STRING
  <2>. SUFFICES ASSUME NEW i \in 1 .. n
                PROVE  LinksOf[U[i].sub] \in Seq(DOMAIN KeyOf) /\ U[i].group \in STRING
    OBVIOUS
  <2>1. U[i] \in [sub : DOMAIN LinksOf, group : STRING]
    BY <1>1, ElementOfSeq
  <2>2. U[i].sub \in DOMAIN LinksOf /\ U[i].group \in STRING
    BY <2>1
  <2>. QED
    BY <2>2, LinksAssumption
<1>4. s = [i \in 1 .. n |-> LinksOf[U[i].sub]]
  BY <1>1, <1>2 DEF Sets
<1>5. t = [i \in 1 .. n |-> [j \in DOMAIN LinksOf[U[i].sub] |-> U[i].group]]
  BY <1>1, <1>2 DEF SetGroups
<1>6. ASSUME NEW i \in 1 .. n PROVE t[i] \in Seq(STRING) /\ Len(t[i]) = Len(s[i])
  <2>1. PICK k \in Nat : DOMAIN LinksOf[U[i].sub] = 1 .. k /\ Len(LinksOf[U[i].sub]) = k
    BY <1>3
  <2>2. PICK g \in STRING : g = U[i].group
    BY <1>3
  <2>3. t[i] = [j \in 1 .. k |-> g] /\ s[i] = LinksOf[U[i].sub]
    BY <1>4, <1>5, <2>1, <2>2
  <2>. QED
    BY <2>1, <2>2, <2>3
<1>7. s \in Seq(Seq(DOMAIN KeyOf)) /\ Len(s) = n
  BY <1>3, <1>4
<1>8. t \in Seq(Seq(STRING)) /\ Len(t) = n
  BY <1>5, <1>6
<1>9. /\ FlattenSeq(s) \in Seq(DOMAIN KeyOf) /\ FlattenSeq(t) \in Seq(STRING)
      /\ Aligned(s, t, FlattenSeq(s), FlattenSeq(t), n)
  BY <1>6, <1>7, <1>8, FlattenAligned
<1>10. FlattenSeq(s) = EntryLinks(U) /\ FlattenSeq(t) = EntryGroups(U)
  BY <1>2, Zenon DEF EntryLinks, EntryGroups, Sets, SetGroups
<1>. QED
  BY <1>1, <1>2, <1>9, <1>10

LEMMA RequestLists ==
  ASSUME NEW m \in Requests
  PROVE  /\ RequestLinks(m) \in Seq(KeyLinks)
         /\ RequestGroups(m) # << >> =>
              RequestLinks(m) = EntryLinks(Usable(m)) /\ RequestGroups(m) = EntryGroups(Usable(m))
<1>1. PICK U : U = Usable(m)
  OBVIOUS
<1>2. U \in Seq([sub : DOMAIN LinksOf, group : STRING]) /\ (m.subscriptions = << >> => U = << >>)
  BY <1>1, UsableEntries
<1>3. EntryLinks(U) \in Seq(DOMAIN KeyOf)
  BY <1>2, EntriesAligned
<1>4. \A x : x \in Seq(DOMAIN KeyOf) => x \in Seq(KeyLinks)
  <2>1. DOMAIN KeyOf \subseteq KeyLinks
    BY DEF KeyLinks
  <2>. QED
    BY <2>1
<1>5. m.retest \in BOOLEAN /\ m.direct \in BOOLEAN
  BY RequestsAssumption
<1>6. CASE m.retest
  <2>1. RequestLinks(m) = m.links /\ RequestGroups(m) = << >>
    BY <1>6 DEF RequestLinks, RequestGroups
  <2>2. m.links \in Seq(DOMAIN KeyOf)
    BY RequestsAssumption
  <2>. QED
    BY <1>4, <2>1, <2>2
<1>7. CASE ~m.retest /\ (m.direct \/ ~hasSubscriptionInput(m))
  <2>1. RequestLinks(m) = <<DirectLink>> /\ RequestGroups(m) = << >>
    BY <1>7 DEF RequestLinks, RequestGroups
  <2>2. DirectLink \in KeyLinks
    BY DEF KeyLinks
  <2>. QED
    BY <2>1, <2>2
<1>8. CASE ~m.retest /\ ~m.direct /\ hasSubscriptionInput(m) /\ m.subscriptions # << >>
  <2>1. RequestLinks(m) = EntryLinks(U) /\ RequestGroups(m) = EntryGroups(U)
    BY <1>1, <1>8 DEF RequestLinks, RequestGroups
  <2>. QED
    BY <1>1, <1>3, <1>4, <2>1
<1>9. CASE ~m.retest /\ ~m.direct /\ hasSubscriptionInput(m) /\ m.subscriptions = << >>
  <2>1. RequestLinks(m) = LinksOf[m.subscription] /\ RequestGroups(m) = EntryGroups(U)
    BY <1>1, <1>9 DEF RequestLinks, RequestGroups
  <2>2. m.subscription # ""
    <3>1. DOMAIN m.subscriptions = {}
      BY <1>9
    <3>. QED
      BY <1>9, <3>1 DEF hasSubscriptionInput
  <2>3. LinksOf[m.subscription] \in Seq(DOMAIN KeyOf)
    BY <2>2, RequestsAssumption, LinksAssumption
  <2>4. EntryGroups(U) = << >>
    <3>1. U = << >>
      BY <1>2, <1>9
    <3>2. [i \in DOMAIN U |-> [j \in DOMAIN LinksOf[U[i].sub] |-> U[i].group]] = << >>
      BY <3>1
    <3>. QED
      BY <3>2 DEF EntryGroups, FlattenSeq
  <2>. QED
    BY <1>4, <2>1, <2>3, <2>4
<1>. QED
  BY <1>5, <1>6, <1>7, <1>8, <1>9

\* A run of a page: the links and the groups that the filter leaves.
LEMMA PageRun ==
  ASSUME OptInv, FromPage
  PROVE  LET links == RequestLinks(optInput)
             groups == RequestGroups(optInput)
         IN  /\ optInput \in Requests /\ optOptions = RequestOptions(optInput)
             /\ optLinks = At(links, Kept(optInput, links))
             /\ optGroups = IF groups = << >> THEN << >> ELSE At(GroupsOf(links, groups), Kept(optInput, links))
<1>1. optInput \notin Commands
  BY CommandsAssumption DEF FromPage
<1>. QED
  BY <1>1 DEF OptInv, FromPage

LEMMA UniqueHolds == ASSUME OptInv PROVE UniqueKeepsEach
<1>. SUFFICES ASSUME FromPage, optInput.unique
              PROVE  /\ \A i, j \in DOMAIN optLinks : KeyOf[optLinks[i]] = KeyOf[optLinks[j]] => i = j
                     /\ {KeyOf[link] : link \in ToSet(optLinks)}
                          = {KeyOf[link] : link \in ToSet(RequestLinks(optInput))} \ {"none"}
  BY DEF UniqueKeepsEach
<1>1. PICK links : links = RequestLinks(optInput)
  OBVIOUS
<1>2. optInput \in Requests /\ optLinks = At(links, Kept(optInput, links))
  BY <1>1, PageRun
<1>3. optLinks = At(links, FirstOfNode(links))
  BY <1>2 DEF Kept
<1>4. links \in Seq(KeyLinks)
  BY <1>1, <1>2, RequestLists
<1>5. PICK kept : kept = optLinks
  OBVIOUS
<1>6. /\ \A i, j \in DOMAIN kept : KeyOf[kept[i]] = KeyOf[kept[j]] => i = j
      /\ {KeyOf[link] : link \in ToSet(kept)} = {KeyOf[link] : link \in ToSet(links)} \ {"none"}
  BY <1>3, <1>4, <1>5, OneOfEach
<1>. QED
  BY <1>1, <1>5, <1>6, Zenon

LEMMA GroupsHold == ASSUME OptInv PROVE GroupsAligned
<1>. SUFFICES ASSUME FromPage, optGroups # << >>, NEW k \in DOMAIN optLinks
              PROVE  \E i \in DOMAIN Usable(optInput) :
                       LET entry == Usable(optInput)[i] IN
                       /\ optLinks[k] \in ToSet(LinksOf[entry.sub])
                       /\ groupFor(k) = Given(entry.group, optOptions.groupName)
                       /\ optInput.unique => \A l \in 1 .. i - 1 : \A link \in ToSet(LinksOf[Usable(optInput)[l].sub]) :
                                                KeyOf[link] # KeyOf[optLinks[k]]
  BY DEF GroupsAligned
<1>1. PICK U, F, G, I : U = Usable(optInput) /\ F = EntryLinks(U) /\ G = EntryGroups(U) /\ I = Kept(optInput, F)
  OBVIOUS
<1>2. optInput \in Requests /\ optLinks = At(F, I) /\ optGroups = At(GroupsOf(F, G), I)
  <2>1. PICK links, groups : links = RequestLinks(optInput) /\ groups = RequestGroups(optInput)
    OBVIOUS
  <2>2. /\ optInput \in Requests
        /\ optLinks = At(links, Kept(optInput, links))
        /\ optGroups = IF groups = << >> THEN << >> ELSE At(GroupsOf(links, groups), Kept(optInput, links))
    BY <2>1, PageRun
  <2>3. groups # << >>
    BY <2>2
  <2>4. links = F /\ groups = G
    BY <1>1, <2>1, <2>2, <2>3, RequestLists
  <2>. QED
    BY <1>1, <2>2, <2>3, <2>4
<1>3. U \in Seq([sub : DOMAIN LinksOf, group : STRING])
  BY <1>1, <1>2, UsableEntries
<1>4. F \in Seq(DOMAIN KeyOf) /\ G \in Seq(STRING) /\ Aligned(Sets(U), SetGroups(U), F, G, Len(U))
  BY <1>1, <1>3, EntriesAligned
<1>5. DOMAIN F = 1 .. Len(F) /\ DOMAIN G = 1 .. Len(F) /\ DOMAIN U = 1 .. Len(U) /\ Len(F) \in Nat
  <2>1. Len(F) = Len(G)
    BY <1>4 DEF Aligned
  <2>. QED
    BY <1>3, <1>4, <2>1, LenProperties
<1>6. Places(I) /\ I \subseteq DOMAIN F
  <2>1. CASE optInput.unique
    <3>1. I = FirstOfNode(F)
      BY <1>1, <2>1 DEF Kept
    <3>. QED
      BY <1>4, <3>1, FirstFacts
  <2>2. CASE ~optInput.unique
    <3>1. I = DOMAIN F
      BY <1>1, <2>2 DEF Kept
    <3>. QED
      BY <1>5, <3>1 DEF Places
  <2>. QED
    BY <2>1, <2>2
<1>7. PICK n, p : n \in Nat /\ Enumerates(I, n, p)
  BY <1>6, PlacesInOrder
<1>8. optLinks = [j \in 1 .. n |-> F[p[j]]] /\ optGroups = [j \in 1 .. n |-> GroupsOf(F, G)[p[j]]]
  BY <1>2, <1>6, <1>7, AtUnique
<1>9. PICK q \in DOMAIN F : q = p[k] /\ q \in I /\ optLinks[k] = F[q] /\ k \in DOMAIN optGroups /\ optGroups[k] = G[q]
  <2>1. k \in 1 .. n
    BY <1>8
  <2>2. p[k] \in I
    BY <1>7, <2>1 DEF Enumerates
  <2>3. p[k] \in DOMAIN F /\ p[k] \in DOMAIN G
    BY <1>5, <1>6, <2>2
  <2>4. GroupsOf(F, G)[p[k]] = G[p[k]]
    BY <2>3 DEF GroupsOf
  <2>. QED
    BY <1>8, <2>1, <2>2, <2>3, <2>4
<1>10. PICK i \in 1 .. Len(U) : From(Sets(U), SetGroups(U), F, G, i, q)
  BY <1>4, <1>5 DEF Aligned
<1>11. \A l \in 1 .. Len(U) : Sets(U)[l] = LinksOf[U[l].sub]
  BY <1>5 DEF Sets
<1>12. PICK x \in DOMAIN LinksOf[U[i].sub] : F[q] = LinksOf[U[i].sub][x] /\ G[q] = U[i].group
  <2>1. PICK x \in DOMAIN Sets(U)[i] : F[q] = Sets(U)[i][x] /\ G[q] = SetGroups(U)[i][x]
    BY <1>10 DEF From
  <2>2. SetGroups(U)[i][x] = U[i].group
    BY <1>5, <1>11, <2>1 DEF SetGroups
  <2>. QED
    BY <1>11, <2>1, <2>2
<1>13. optLinks[k] \in ToSet(LinksOf[U[i].sub])
  BY <1>9, <1>12 DEF ToSet
<1>14. groupFor(k) = Given(U[i].group, optOptions.groupName)
  BY <1>9, <1>12 DEF groupFor, Given
<1>15. ASSUME optInput.unique, NEW l \in 1 .. i - 1, NEW link \in ToSet(LinksOf[U[l].sub])
       PROVE  KeyOf[link] # KeyOf[optLinks[k]]
  <2>1. l \in 1 .. Len(U)
    BY <1>3, <1>10
  <2>2. PICK y \in DOMAIN LinksOf[U[l].sub] : link = LinksOf[U[l].sub][y]
    BY DEF ToSet
  <2>3. PICK r \in 1 .. q - 1 : F[r] = link
    BY <1>10, <1>11, <2>1, <2>2 DEF From
  <2>4. r \in DOMAIN F /\ r < q
    BY <1>5
  <2>5. I = FirstOfNode(F)
    BY <1>1, <1>15 DEF Kept
  <2>. QED
    BY <1>4, <1>9, <2>3, <2>4, <2>5, FirstFacts
<1>. QED
  BY <1>1, <1>5, <1>13, <1>14, <1>15

-----------------------------------------------------------------------------
\* Options: the flags of a command.

LEMMA CommandRun ==
  ASSUME OptInv, FromCommand
  PROVE  /\ optInput \in Commands /\ Dispatch(optInput).what = "test"
         /\ optOptions = CommandOptions(FlagsOf(optInput), optInput.file, Dispatch(optInput).subscription)
<1>1. optInput \notin Requests
  BY RequestsAssumption DEF FromCommand
<1>. QED
  BY <1>1 DEF OptInv, FromCommand

FlagNames == {"test", "direct", "grpc", "v", "timeout", "concurrency", "threads", "mode", "upload", "url",
              "size", "H", "dH", "uH", "p"}

LEMMA FlagsHave ==
  ASSUME NEW c
  PROVE  /\ DOMAIN FlagDefaults = FlagNames /\ DOMAIN FlagsOf(c) = FlagNames
         /\ \A f \in FlagNames \ HeaderFlags :
              FlagsOf(c)[f] = IF f \in DOMAIN Later(c) THEN Later(c)[f]
                              ELSE IF f \in DOMAIN c.before THEN c.before[f] ELSE FlagDefaults[f]
         /\ \A h \in HeaderFlags :
              FlagsOf(c)[h] = (IF h \in DOMAIN c.before THEN c.before[h] ELSE << >>)
                              \o (IF h \in DOMAIN Later(c) THEN Later(c)[h] ELSE << >>)
<1>1. DOMAIN FlagDefaults = FlagNames
  BY DEF FlagDefaults, FlagNames
<1>2. PICK before, later, D : before = c.before /\ later = Later(c) /\ D = FlagDefaults
  OBVIOUS
<1>3. PICK rest, all : rest = Over(before, D) /\ all = Over(later, rest)
  OBVIOUS
<1>7. rest = [f \in DOMAIN before \cup DOMAIN D |-> IF f \in DOMAIN before THEN before[f] ELSE D[f]]
  BY <1>3, Zenon DEF Over
<1>8. all = [f \in DOMAIN later \cup DOMAIN rest |-> IF f \in DOMAIN later THEN later[f] ELSE rest[f]]
  BY <1>3, Zenon DEF Over
<1>4. \A f \in DOMAIN D : all[f] = IF f \in DOMAIN later THEN later[f]
                                    ELSE IF f \in DOMAIN before THEN before[f] ELSE D[f]
  BY <1>7, <1>8
<1>5. FlagsOf(c) =
        [f \in DOMAIN D |-> IF f \in HeaderFlags
           THEN (IF f \in DOMAIN before THEN before[f] ELSE << >>) \o (IF f \in DOMAIN later THEN later[f] ELSE << >>)
           ELSE all[f]]
  BY <1>2, <1>3, Zenon DEF FlagsOf
<1>6. HeaderFlags \subseteq FlagNames
  BY DEF HeaderFlags, FlagNames
<1>. QED
  BY <1>1, <1>2, <1>4, <1>5, <1>6

LEMMA FlagValues ==
  ASSUME NEW c \in Commands
  PROVE  /\ FlagsOf(c).timeout \in Int /\ FlagsOf(c).concurrency \in Int /\ FlagsOf(c).threads \in Int
         /\ \A h \in HeaderFlags : FlagsOf(c)[h] \in Seq(HeaderRecords)
         /\ c.file \in FileRecords
<1>1. PICK later : later = Later(c)
  OBVIOUS
<1>2. \A flags \in {c.before, later} :
         /\ \A f \in DOMAIN flags \cap {"timeout", "concurrency", "threads"} : flags[f] \in Int
         /\ \A f \in DOMAIN flags \cap {"H", "dH", "uH"} : flags[f] \in Seq(HeaderRecords)
  <2>1. \A f \in DOMAIN << >> : FALSE
    OBVIOUS
  <2>. QED
    BY <1>1, <2>1, CommandsAssumption DEF Later
<1>3. PICK before, D : before = c.before /\ D = FlagDefaults
  OBVIOUS
<1>4. D.timeout \in Int /\ D.concurrency \in Int /\ D.threads \in Int
  <2>1. D.timeout = 16 /\ D.concurrency = 2 /\ D.threads = 1
    BY <1>3, Zenon DEF FlagDefaults
  <2>. QED
    BY <2>1
<1>5. ASSUME NEW f \in {"timeout", "concurrency", "threads"} PROVE FlagsOf(c)[f] \in Int
  <2>1. f \in FlagNames \ HeaderFlags
    BY DEF FlagNames, HeaderFlags
  <2>2. FlagsOf(c)[f] = IF f \in DOMAIN later THEN later[f]
                        ELSE IF f \in DOMAIN before THEN before[f] ELSE D[f]
    BY <1>1, <1>3, <2>1, FlagsHave
  <2>. QED
    BY <1>2, <1>3, <1>4, <2>2
<1>6. ASSUME NEW h \in HeaderFlags PROVE FlagsOf(c)[h] \in Seq(HeaderRecords)
  <2>1. PICK x, y : x = (IF h \in DOMAIN before THEN before[h] ELSE << >>) /\ y = (IF h \in DOMAIN later THEN later[h] ELSE << >>)
    OBVIOUS
  <2>2. h \in {"H", "dH", "uH"}
    BY DEF HeaderFlags
  <2>3. x \in Seq(HeaderRecords) /\ y \in Seq(HeaderRecords)
    BY <1>2, <1>3, <2>1, <2>2
  <2>4. FlagsOf(c)[h] = x \o y
    BY <1>1, <1>3, <2>1, FlagsHave
  <2>. QED
    BY <2>3, <2>4
<1>7. c.file \in FileRecords
  BY CommandsAssumption
<1>. QED
  BY <1>5, <1>6, <1>7

LEMMA BaseFacts ==
  ASSUME NEW file \in FileRecords, NEW base, base = readConfig(IF file.readable THEN file ELSE NoFile)
  PROVE  /\ base.timeout >= Second * LeastTimeout /\ base.timeout \in Int
         /\ base.concurrency \in Int /\ base.concurrency >= 1
         /\ base.readable = file.readable
         /\ base.downloadHeaders = (IF file.readable THEN file.downloadHeaders ELSE << >>)
         /\ base.uploadHeaders = (IF file.readable THEN file.uploadHeaders ELSE << >>)
         /\ base.upload = (file.readable /\ file.upload)
         /\ base.url = (IF file.readable THEN file.url ELSE "")
         /\ base.size = (IF file.readable THEN file.size ELSE "")
<1>1. PICK from : from = IF file.readable THEN file ELSE NoFile
  OBVIOUS
<1>2. file.readable \in BOOLEAN /\ file.upload \in BOOLEAN
  BY DEF FileRecords
<1>3. from.timeout \in Int /\ from.concurrency \in Int
  <2>1. CASE file.readable
    BY <1>1, <2>1 DEF FileRecords
  <2>2. CASE ~file.readable
    <3>1. from.timeout = 15 /\ from.concurrency = 2
      BY <1>1, <2>2, Zenon DEF NoFile
    <3>. QED
      BY <3>1
  <2>. QED
    BY <2>1, <2>2
<1>8. /\ from.readable = file.readable
      /\ from.downloadHeaders = (IF file.readable THEN file.downloadHeaders ELSE << >>)
      /\ from.uploadHeaders = (IF file.readable THEN file.uploadHeaders ELSE << >>)
      /\ from.upload = (file.readable /\ file.upload)
      /\ from.url = (IF file.readable THEN file.url ELSE "")
      /\ from.size = (IF file.readable THEN file.size ELSE "")
  <2>1. CASE file.readable
    <3>1. from = file
      BY <1>1, <2>1
    <3>. QED
      BY <1>2, <2>1, <3>1, Zenon
  <2>2. CASE ~file.readable
    <3>1. /\ from.readable = FALSE /\ from.downloadHeaders = << >>
          /\ from.uploadHeaders = << >> /\ from.upload = FALSE /\ from.url = "" /\ from.size = ""
      BY <1>1, <2>2, Zenon DEF NoFile
    <3>. QED
      BY <1>2, <2>2, <3>1, Zenon
  <2>. QED
    BY <2>1, <2>2
<1>4. DOMAIN from = {"readable", "timeout", "concurrency", "threads", "mode", "upload", "url", "size",
                     "downloadHeaders", "uploadHeaders", "direct", "subscription"}
  BY <1>1 DEF FileRecords, NoFile
<1>5. base = [from EXCEPT !.timeout = AtLeast(@, LeastTimeout) * Second, !.concurrency = AtLeast(@, 1)]
  BY <1>1, Zenon DEF readConfig
<1>6. /\ base.timeout = AtLeast(from.timeout, LeastTimeout) * Second
      /\ base.concurrency = AtLeast(from.concurrency, 1)
      /\ \A x \in DOMAIN from \ {"timeout", "concurrency"} : base[x] = from[x]
  BY <1>4, <1>5
<1>7. base.timeout \in Int /\ base.timeout >= Second * LeastTimeout /\ base.concurrency \in Int /\ base.concurrency >= 1
  <2>1. PICK n \in Int : n = AtLeast(from.timeout, LeastTimeout) /\ n >= LeastTimeout
    BY <1>3 DEF AtLeast, LeastTimeout
  <2>2. n * Second \in Int /\ n * Second >= Second * LeastTimeout
    BY <2>1 DEF LeastTimeout, Second
  <2>3. AtLeast(from.concurrency, 1) \in Int /\ AtLeast(from.concurrency, 1) >= 1
    BY <1>3 DEF AtLeast
  <2>. QED
    BY <1>6, <2>1, <2>2, <2>3
<1>9. /\ base.readable = from.readable /\ base.downloadHeaders = from.downloadHeaders
      /\ base.uploadHeaders = from.uploadHeaders /\ base.upload = from.upload
      /\ base.url = from.url /\ base.size = from.size
  BY <1>4, <1>6
<1>. QED
  BY <1>7, <1>8, <1>9

LEMMA BoundsHold == ASSUME OptInv PROVE WithinBounds
<1>1. ASSUME FromPage
      PROVE  /\ optOptions.threads \in 1 .. MaxThreads
             /\ optOptions.concurrency >= 1 /\ optOptions.timeout >= LeastTimeout
             /\ optInput.timeout > 0 => optOptions.timeout = optInput.timeout * Second
  <2>1. optInput \in Requests /\ optOptions = RequestOptions(optInput)
    BY <1>1, PageRun
  <2>2. optInput.timeout \in Int /\ optInput.concurrency \in Int /\ optInput.threads \in Int
    BY <2>1, RequestsAssumption
  <2>3. /\ optOptions.timeout = AtLeast(optInput.timeout * Second, LeastTimeout)
        /\ optOptions.concurrency = AtLeast(optInput.concurrency, 1)
        /\ optOptions.threads = Capped(AtLeast(optInput.threads, 1))
    BY <2>1 DEF RequestOptions
  <2>4. PICK n \in Int : n = optInput.timeout
    BY <2>2
  <2>5. AtLeast(n * Second, LeastTimeout) >= LeastTimeout /\ (n > 0 => AtLeast(n * Second, LeastTimeout) = n * Second)
    BY DEF AtLeast, LeastTimeout, Second
  <2>6. AtLeast(optInput.concurrency, 1) >= 1 /\ Capped(AtLeast(optInput.threads, 1)) \in 1 .. MaxThreads
    BY <2>2 DEF AtLeast, Capped, MaxThreads
  <2>. QED
    BY <2>3, <2>4, <2>5, <2>6
<1>2. ASSUME FromCommand
      PROVE  /\ FlagsOf(optInput).threads > 0 => optOptions.threads \in 1 .. MaxThreads
             /\ optOptions.concurrency >= 1 /\ optOptions.timeout >= LeastTimeout
  <2>1. /\ optInput \in Commands
        /\ optOptions = CommandOptions(FlagsOf(optInput), optInput.file, Dispatch(optInput).subscription)
    BY <1>2, CommandRun
  <2>2. PICK f, file : f = FlagsOf(optInput) /\ file = optInput.file
    OBVIOUS
  <2>3. f.timeout \in Int /\ f.concurrency \in Int /\ f.threads \in Int /\ file \in FileRecords
    BY <2>1, <2>2, FlagValues
  <2>4. PICK base : base = readConfig(IF file.readable THEN file ELSE NoFile)
    OBVIOUS
  <2>5. /\ base.timeout >= Second * LeastTimeout /\ base.timeout \in Int
        /\ base.concurrency \in Int /\ base.concurrency >= 1
    BY <2>3, <2>4, BaseFacts
  <2>6. /\ optOptions.timeout = IF f.timeout > 0 THEN f.timeout * Second ELSE base.timeout
        /\ optOptions.concurrency = IF f.concurrency > 0 THEN f.concurrency ELSE base.concurrency
        /\ optOptions.threads = IF f.threads > 0 THEN Capped(f.threads) ELSE base.threads
    BY <2>1, <2>2, <2>4 DEF CommandOptions
  <2>7. f.threads > 0 => optOptions.threads \in 1 .. MaxThreads
    BY <2>3, <2>6 DEF Capped, MaxThreads
  <2>8. optOptions.concurrency >= 1 /\ optOptions.timeout >= LeastTimeout
    BY <2>3, <2>5, <2>6 DEF LeastTimeout, Second
  <2>. QED
    BY <2>2, <2>7, <2>8
<1>3. optStage = "testing" => FromPage \/ FromCommand
  <2>1. ASSUME optInput \in Requests PROVE "subscriptions" \in DOMAIN optInput
    BY <2>1, RequestsAssumption
  <2>2. ASSUME optInput \in Commands PROVE "positional" \in DOMAIN optInput
    BY <2>2, CommandsAssumption
  <2>. QED
    BY <2>1, <2>2 DEF OptInv, FromPage, FromCommand
<1>. QED
  BY <1>1, <1>2, <1>3 DEF WithinBounds, FromPage, FromCommand

LEMMA AnywhereHolds == ASSUME OptInv PROVE FlagsAnywhere
<1>. SUFFICES ASSUME FromCommand, optInput.positional.kind = "link",
                     DOMAIN optInput.before \cap DOMAIN optInput.after = {}
              PROVE  FlagsOf(optInput)
                       = FlagsOf([optInput EXCEPT !.before = Over(optInput.before, optInput.after), !.after = << >>])
  BY DEF FlagsAnywhere
<1>1. PICK c \in Commands : c = optInput
  BY CommandRun
<1>2. PICK before, after, none : before = c.before /\ after = c.after /\ none = << >>
  OBVIOUS
<1>3. PICK both : both = Over(before, after)
  OBVIOUS
<1>4. PICK d : d = [c EXCEPT !.before = both, !.after = none]
  OBVIOUS
<1>5. c = [before |-> c.before, positional |-> c.positional, after |-> c.after, file |-> c.file]
  BY CommandsAssumption
<1>6. d.before = both /\ d.after = none /\ d.positional = c.positional
  BY <1>4, <1>5
<1>7. Later(c) = after /\ Later(d) = none
  BY <1>1, <1>2, <1>6 DEF Later
<1>14. /\ \A f \in FlagNames \ HeaderFlags :
           FlagsOf(c)[f] = IF f \in DOMAIN after THEN after[f]
                           ELSE IF f \in DOMAIN c.before THEN c.before[f] ELSE FlagDefaults[f]
       /\ \A h \in HeaderFlags :
           FlagsOf(c)[h] = (IF h \in DOMAIN c.before THEN c.before[h] ELSE << >>)
                           \o (IF h \in DOMAIN after THEN after[h] ELSE << >>)
  BY <1>7, FlagsHave
<1>15. /\ \A f \in FlagNames \ HeaderFlags :
           FlagsOf(d)[f] = IF f \in DOMAIN none THEN none[f]
                           ELSE IF f \in DOMAIN d.before THEN d.before[f] ELSE FlagDefaults[f]
       /\ \A h \in HeaderFlags :
           FlagsOf(d)[h] = (IF h \in DOMAIN d.before THEN d.before[h] ELSE << >>)
                           \o (IF h \in DOMAIN none THEN none[h] ELSE << >>)
  BY <1>7, FlagsHave
<1>8. DOMAIN both = DOMAIN before \cup DOMAIN after /\ DOMAIN none = {}
  BY <1>2, <1>3 DEF Over
<1>9. \A f \in DOMAIN before \cup DOMAIN after : both[f] = IF f \in DOMAIN before THEN before[f] ELSE after[f]
  BY <1>3 DEF Over
<1>10. \A f : ~(f \in DOMAIN before /\ f \in DOMAIN after)
  BY <1>1, <1>2
<1>11. ASSUME NEW f \in FlagNames \ HeaderFlags PROVE FlagsOf(c)[f] = FlagsOf(d)[f]
  <2>1. PICK D : D = FlagDefaults
    OBVIOUS
  <2>2. FlagsOf(c)[f] = IF f \in DOMAIN after THEN after[f] ELSE IF f \in DOMAIN before THEN before[f] ELSE D[f]
    BY <1>2, <1>14, <2>1
  <2>3. FlagsOf(d)[f] = IF f \in DOMAIN none THEN none[f] ELSE IF f \in DOMAIN both THEN both[f] ELSE D[f]
    BY <1>6, <1>15, <2>1
  <2>. QED
    BY <1>8, <1>9, <1>10, <2>2, <2>3
<1>12. ASSUME NEW h \in HeaderFlags PROVE FlagsOf(c)[h] = FlagsOf(d)[h]
  <2>1. PICK x, y, z : /\ x = (IF h \in DOMAIN before THEN before[h] ELSE << >>)
                       /\ y = (IF h \in DOMAIN after THEN after[h] ELSE << >>)
                       /\ z = (IF h \in DOMAIN both THEN both[h] ELSE << >>)
    OBVIOUS
  <2>2. x \in Seq(HeaderRecords) /\ y \in Seq(HeaderRecords)
    <3>1. h \in {"H", "dH", "uH"}
      BY DEF HeaderFlags
    <3>. QED
      BY <1>2, <2>1, <3>1, CommandsAssumption
  <2>3. FlagsOf(c)[h] = x \o y
    BY <1>2, <1>14, <2>1
  <2>4. FlagsOf(d)[h] = z \o << >>
    <3>1. (IF h \in DOMAIN none THEN none[h] ELSE << >>) = << >>
      BY <1>8
    <3>. QED
      BY <1>6, <1>15, <2>1, <3>1
  <2>5. CASE h \in DOMAIN before
    <3>1. y = << >> /\ z = x
      BY <1>8, <1>9, <1>10, <2>1, <2>5
    <3>. QED
      BY <2>3, <2>4, <3>1
  <2>6. CASE h \notin DOMAIN before
    <3>1. x = << >> /\ z = y
      BY <1>8, <1>9, <2>1, <2>6
    <3>2. << >> \o y = y /\ y \o << >> = y
      BY <2>2
    <3>. QED
      BY <2>3, <2>4, <3>1, <3>2
  <2>. QED
    BY <2>5, <2>6
<1>13. FlagsOf(c) = FlagsOf(d)
  <2>1. DOMAIN FlagsOf(c) = FlagNames /\ DOMAIN FlagsOf(d) = FlagNames
    BY FlagsHave
  <2>2. FlagsOf(c) = [f \in DOMAIN FlagsOf(c) |-> FlagsOf(c)[f]] /\ FlagsOf(d) = [f \in DOMAIN FlagsOf(d) |-> FlagsOf(d)[f]]
    BY DEF FlagsOf
  <2>3. \A f \in FlagNames : FlagsOf(c)[f] = FlagsOf(d)[f]
    BY <1>11, <1>12
  <2>. QED
    BY <2>1, <2>2, <2>3
<1>. QED
  BY <1>1, <1>2, <1>3, <1>4, <1>13, Zenon

LEMMA DispatchTests ==
  ASSUME NEW c
  PROVE  Dispatch(c).what = "test" =>
           \/ FlagsOf(c).test # "" /\ Dispatch(c).subscription = FlagsOf(c).test
           \/ FlagsOf(c).test = "" /\ FlagsOf(c).direct /\ LinkGiven(c) = "" /\ Dispatch(c).subscription = DirectLink
           \/ FlagsOf(c).test = "" /\ LinkGiven(c) # "" /\ Dispatch(c).subscription = LinkGiven(c)
<1>1. ASSUME FlagsOf(c).v
      PROVE  Dispatch(c).what = "version"
  <2>1. Dispatch(c) = [what |-> "version"]
    BY <1>1 DEF Dispatch
  <2>. QED
    BY <2>1
<1>2. ASSUME ~FlagsOf(c).v, FlagsOf(c).test # ""
      PROVE  Dispatch(c).what = "test" /\ Dispatch(c).subscription = FlagsOf(c).test
  <2>1. Dispatch(c) = [what |-> "test", subscription |-> FlagsOf(c).test]
    BY <1>2 DEF Dispatch
  <2>. QED
    BY <2>1
<1>3. ASSUME ~FlagsOf(c).v, FlagsOf(c).test = "", FlagsOf(c).direct, LinkGiven(c) = ""
      PROVE  Dispatch(c).what = "test" /\ Dispatch(c).subscription = DirectLink
  <2>1. Dispatch(c) = [what |-> "test", subscription |-> DirectLink]
    BY <1>3 DEF Dispatch
  <2>. QED
    BY <2>1
<1>4. ASSUME ~FlagsOf(c).v, FlagsOf(c).test = "", ~(FlagsOf(c).direct /\ LinkGiven(c) = ""), FlagsOf(c).grpc
      PROVE  Dispatch(c).what = "grpc"
  <2>1. Dispatch(c) = [what |-> "grpc", port |-> FlagsOf(c).p]
    BY <1>4 DEF Dispatch
  <2>. QED
    BY <2>1
<1>5. ASSUME ~FlagsOf(c).v, FlagsOf(c).test = "", ~FlagsOf(c).grpc, LinkGiven(c) # ""
      PROVE  Dispatch(c).what = "test" /\ Dispatch(c).subscription = LinkGiven(c)
  <2>1. Dispatch(c) = [what |-> "test", subscription |-> LinkGiven(c)]
    BY <1>5 DEF Dispatch
  <2>. QED
    BY <2>1
<1>6. ASSUME ~FlagsOf(c).v, FlagsOf(c).test = "", ~FlagsOf(c).grpc, ~FlagsOf(c).direct, LinkGiven(c) = ""
      PROVE  Dispatch(c).what = "web"
  BY <1>6 DEF Dispatch
<1>. QED
  BY <1>1, <1>2, <1>3, <1>4, <1>5, <1>6

LEMMA ObeyedHolds == ASSUME OptInv PROVE CommandObeyed
<1>. SUFFICES ASSUME FromCommand PROVE CommandObeyed
  BY DEF CommandObeyed
<1>1. PICK c \in Commands : c = optInput
  BY CommandRun
<1>2. PICK f, file, link, s : /\ f = FlagsOf(c) /\ file = c.file /\ s = Dispatch(c).subscription
                              /\ link = LinkGiven(c)
  OBVIOUS
<1>3. Dispatch(c).what = "test" /\ optOptions = CommandOptions(f, file, s)
  BY <1>1, <1>2, CommandRun
<1>4. \/ f.test # "" /\ s = f.test
      \/ f.test = "" /\ f.direct /\ link = "" /\ s = DirectLink
      \/ f.test = "" /\ link # "" /\ s = link
  BY <1>2, <1>3, DispatchTests, Zenon
<1>5. PICK base : base = readConfig(IF file.readable THEN file ELSE NoFile)
  OBVIOUS
<1>6. file \in FileRecords
  BY <1>2, CommandsAssumption
<1>7. /\ base.upload = (file.readable /\ file.upload)
      /\ base.url = (IF file.readable THEN file.url ELSE "")
      /\ base.size = (IF file.readable THEN file.size ELSE "")
  BY <1>5, <1>6, BaseFacts
<1>8. /\ optOptions.upload = IF f.upload = "unset" THEN base.upload ELSE f.upload = "true"
      /\ optOptions.url = Given(f.url, base.url) /\ optOptions.downloadSize = Given(f.size, base.size)
      /\ optOptions.subscription = SubscriptionOf(base, s)
  BY <1>3, <1>5 DEF CommandOptions
<1>9. PICK named : named = IF f.test # "" THEN f.test ELSE link
  OBVIOUS
<1>10. named = "" => f.direct /\ optOptions.subscription = DirectLink
  BY <1>4, <1>8, <1>9 DEF SubscriptionOf, DirectLink
<1>11. named \notin {"", "lines"} => optOptions.subscription = named
  BY <1>4, <1>8, <1>9 DEF SubscriptionOf
<1>12. f.upload # "unset" => optOptions.upload = (f.upload = "true")
  BY <1>8, Zenon
<1>13. f.upload = "unset" => optOptions.upload = (file.readable /\ file.upload)
  BY <1>7, <1>8, Zenon
<1>14. ASSUME f.size = ""
       PROVE  GetDownloadURL(optOptions.downloadSize, optOptions.url)
                = IF f.url # "" THEN f.url
                  ELSE IF file.readable THEN GetDownloadURL(file.size, file.url) ELSE "cloudflare"
  <2>1. optOptions.downloadSize = base.size
    BY <1>8, <1>14 DEF Given
  <2>2. CASE f.url # ""
    <3>1. optOptions.url = f.url
      BY <1>8, <2>2 DEF Given
    <3>. QED
      BY <2>2, <3>1 DEF GetDownloadURL, Given
  <2>3. CASE f.url = "" /\ file.readable
    <3>1. optOptions.url = file.url /\ optOptions.downloadSize = file.size
      BY <1>7, <1>8, <2>1, <2>3 DEF Given
    <3>. QED
      BY <2>3, <3>1
  <2>4. CASE f.url = "" /\ ~file.readable
    <3>1. optOptions.url = "" /\ optOptions.downloadSize = ""
      BY <1>7, <1>8, <2>1, <2>4 DEF Given
    <3>. QED
      BY <2>4, <3>1 DEF GetDownloadURL, Given, DownloadPresets
  <2>. QED
    BY <2>2, <2>3, <2>4
<1>15. named = IF f.test # "" THEN f.test ELSE LinkGiven(c)
  BY <1>2, <1>9
<1>. QED
  BY <1>1, <1>2, <1>10, <1>11, <1>12, <1>13, <1>14, <1>15, Zenon DEF CommandObeyed

-----------------------------------------------------------------------------
\* Options: the headers.

LEMMA GreatestIndex ==
  ASSUME NEW n \in Nat, NEW I \in SUBSET (1 .. n), I # {}
  PROVE  \E i \in I : \A j \in I : j <= i
<1>1. PICK S : S = {n - i : i \in I}
  OBVIOUS
<1>2. S \in SUBSET Nat /\ S # {}
  <2>1. ASSUME NEW s \in S PROVE s \in Nat
    <3>1. PICK i \in I : s = n - i
      BY <1>1
    <3>2. i \in 1 .. n
      OBVIOUS
    <3>. QED
      BY <3>1, <3>2
  <2>2. PICK i : i \in I
    OBVIOUS
  <2>3. n - i \in S
    BY <1>1, <2>2
  <2>. QED
    BY <2>1, <2>3
<1>3. PICK s \in S : \A t \in S : s <= t
  BY <1>2, LeastIndex
<1>4. PICK i \in I : s = n - i
  BY <1>1, <1>3
<1>5. \A j \in I : j <= i
  <2>. SUFFICES ASSUME NEW j \in I PROVE j <= i
    OBVIOUS
  <2>1. n - j \in S
    BY <1>1
  <2>2. s <= n - j
    BY <1>3, <2>1
  <2>3. i \in 1 .. n /\ j \in 1 .. n
    OBVIOUS
  <2>. QED
    BY <1>4, <2>2, <2>3
<1>. QED
  BY <1>5

LEMMA MergeIs ==
  ASSUME NEW M \in Seq(HeaderRecords), NEW h
  PROVE  \/ Merge(M, h) = Append(M, h) /\ \A k \in DOMAIN M : M[k].name # h.name
         \/ \E i \in DOMAIN M : M[i].name = h.name /\ Merge(M, h) = [M EXCEPT ![i] = h]
<1>1. PICK I : I = {k \in 1 .. Len(M) : M[k].name = h.name}
  OBVIOUS
<1>2. PICK i : i = IF I # {} THEN Min(I) ELSE 0
  OBVIOUS
<1>3. Merge(M, h) = IF i = 0 THEN Append(M, h) ELSE [M EXCEPT ![i] = h]
  BY <1>1, <1>2, Zenon DEF Merge, SelectInSeq
<1>4. DOMAIN M = 1 .. Len(M) /\ Len(M) \in Nat
  BY LenProperties
<1>5. CASE I = {}
  BY <1>1, <1>2, <1>3, <1>4, <1>5
<1>6. CASE I # {}
  <2>1. \E k \in I : \A l \in I : k <= l
    <3>1. I \in SUBSET Nat
      BY <1>1
    <3>. QED
      BY <1>6, <3>1, LeastIndex
  <2>2. Min(I) \in I
    BY <2>1, Zenon DEF Min
  <2>3. i \in I
    BY <1>2, <1>6, <2>2
  <2>4. i \in DOMAIN M /\ M[i].name = h.name /\ i # 0
    BY <1>1, <1>4, <2>3
  <2>5. Merge(M, h) = [M EXCEPT ![i] = h]
    BY <1>3, <2>4, Zenon
  <2>. QED
    BY <2>4, <2>5, Zenon
<1>. QED
  BY <1>5, <1>6

\* The last of the first n headers that has a name.
LastOf(list, n, name, i) == i \in 1 .. n /\ list[i].name = name /\ \A l \in 1 .. n : list[l].name = name => l <= i

LEMMA LastNamedFacts ==
  ASSUME NEW list \in Seq(HeaderRecords), NEW name, NEW k \in DOMAIN list, list[k].name = name
  PROVE  \E i \in DOMAIN list : LastNamed(list, name) = list[i] /\ LastOf(list, Len(list), name, i)
<1>1. PICK I : I = {l \in 1 .. Len(list) : list[l].name = name}
  OBVIOUS
<1>2. DOMAIN list = 1 .. Len(list) /\ Len(list) \in Nat
  BY LenProperties
<1>3. I # {} /\ I \in SUBSET (1 .. Len(list))
  BY <1>1, <1>2
<1>4. PICK i : i = SelectLastInSeq(list, LAMBDA h : h.name = name)
  OBVIOUS
<1>5. i = Max(I)
  BY <1>1, <1>3, <1>4, Zenon DEF SelectLastInSeq
<1>6. \E j \in I : \A l \in I : l <= j
  BY <1>2, <1>3, GreatestIndex
<1>7. \E j \in I : \A l \in I : j >= l
  BY <1>1, <1>6
<1>8. Max(I) \in I /\ \A l \in I : Max(I) >= l
  BY <1>7, Zenon DEF Max
<1>9. LastOf(list, Len(list), name, i)
  BY <1>1, <1>2, <1>5, <1>8 DEF LastOf
<1>10. LastNamed(list, name) = list[i]
  BY <1>4, Zenon DEF LastNamed
<1>11. i \in DOMAIN list
  BY <1>2, <1>9 DEF LastOf
<1>. QED
  BY <1>9, <1>10, <1>11

\* What is left of the first n headers: one for each name, the last of them.
OneName(M) == \A j, k \in DOMAIN M : M[j].name = M[k].name => j = k
Lasts(list, n, M) == \A k \in DOMAIN M : \E i \in 1 .. n : LastOf(list, n, M[k].name, i) /\ M[k] = list[i]
HasNames(list, n, M) == \A i \in 1 .. n : \E k \in DOMAIN M : M[k].name = list[i].name
MergedTo(list, n, M) == M \in Seq(HeaderRecords) /\ OneName(M) /\ Lasts(list, n, M) /\ HasNames(list, n, M)

LEMMA MergeStep ==
  ASSUME NEW list \in Seq(HeaderRecords), NEW n \in 1 .. Len(list), NEW M, MergedTo(list, n - 1, M)
  PROVE  MergedTo(list, n, Merge(M, list[n]))
<1>1. PICK h \in HeaderRecords : h = list[n]
  BY ElementOfSeq
<1>2. M \in Seq(HeaderRecords) /\ OneName(M) /\ Lasts(list, n - 1, M) /\ HasNames(list, n - 1, M)
  BY DEF MergedTo
<1>3. PICK m \in Nat : m = Len(M) /\ DOMAIN M = 1 .. m
  BY <1>2, LenProperties
<1>5. PICK H : H = Merge(M, h)
  OBVIOUS
<1>7. \/ H = Append(M, h) /\ \A k \in DOMAIN M : M[k].name # h.name
      \/ \E i \in DOMAIN M : M[i].name = h.name /\ H = [M EXCEPT ![i] = h]
  BY <1>2, <1>5, MergeIs
<1>8. n \in Nat /\ n >= 1 /\ n \in 1 .. n /\ \A l \in 1 .. n : l = n \/ l \in 1 .. n - 1
  <2>1. Len(list) \in Nat
    OBVIOUS
  <2>. QED
    BY <2>1
<1>9. LastOf(list, n, h.name, n)
  BY <1>1, <1>8 DEF LastOf
<1>10. ASSUME NEW k \in DOMAIN M, M[k].name # h.name
       PROVE  \E l \in 1 .. n : LastOf(list, n, M[k].name, l) /\ M[k] = list[l]
  <2>1. PICK l \in 1 .. n - 1 : LastOf(list, n - 1, M[k].name, l) /\ M[k] = list[l]
    BY <1>2 DEF Lasts
  <2>2. LastOf(list, n, M[k].name, l)
    BY <1>1, <1>8, <1>10, <2>1 DEF LastOf
  <2>. QED
    BY <1>8, <2>1, <2>2
<1>11. CASE H = Append(M, h) /\ \A k \in DOMAIN M : M[k].name # h.name
  <2>1. /\ H \in Seq(HeaderRecords) /\ DOMAIN H = 1 .. m + 1 /\ H[m + 1] = h
        /\ \A k \in 1 .. m : H[k] = M[k]
    BY <1>2, <1>3, <1>11
  <2>2. \A k \in 1 .. m : M[k].name # h.name
    BY <1>3, <1>11
  <2>3. \A k \in 1 .. m + 1 : k = m + 1 \/ k \in 1 .. m
    OBVIOUS
  <2>4. OneName(H)
    BY <1>2, <1>3, <2>1, <2>2, <2>3 DEF OneName
  <2>5. Lasts(list, n, H)
    <3>. SUFFICES ASSUME NEW k \in 1 .. m + 1
                  PROVE  \E l \in 1 .. n : LastOf(list, n, H[k].name, l) /\ H[k] = list[l]
      BY <2>1 DEF Lasts
    <3>1. CASE k = m + 1
      BY <1>1, <1>8, <1>9, <2>1, <3>1
    <3>2. CASE k \in 1 .. m
      BY <1>3, <1>10, <2>1, <2>2, <3>2
    <3>. QED
      BY <2>3, <3>1, <3>2
  <2>6. HasNames(list, n, H)
    <3>. SUFFICES ASSUME NEW l \in 1 .. n PROVE \E k \in DOMAIN H : H[k].name = list[l].name
      BY DEF HasNames
    <3>1. CASE l = n
      BY <1>1, <2>1, <3>1
    <3>2. CASE l \in 1 .. n - 1
      <4>1. PICK k \in 1 .. m : M[k].name = list[l].name
        BY <1>2, <1>3, <3>2 DEF HasNames
      <4>. QED
        BY <2>1, <4>1
    <3>. QED
      BY <1>8, <3>1, <3>2
  <2>. QED
    BY <1>1, <1>5, <2>1, <2>4, <2>5, <2>6 DEF MergedTo
<1>12. CASE \E i \in DOMAIN M : M[i].name = h.name /\ H = [M EXCEPT ![i] = h]
  <2>1. PICK i \in 1 .. m : M[i].name = h.name /\ H = [M EXCEPT ![i] = h]
    BY <1>3, <1>12
  <2>2. H = [k \in 1 .. m |-> IF k = i THEN h ELSE M[k]]
    BY <1>3, <2>1
  <2>3. H \in Seq(HeaderRecords)
    BY <1>2, <1>3, <2>2
  <2>4. DOMAIN H = 1 .. m /\ H[i] = h /\ \A k \in 1 .. m : k # i => H[k] = M[k]
    BY <2>1, <2>2
  <2>5. \A k \in 1 .. m : H[k].name = M[k].name
    BY <2>1, <2>4
  <2>6. OneName(H)
    BY <1>2, <1>3, <2>4, <2>5 DEF OneName
  <2>7. \A k \in 1 .. m : k # i => M[k].name # h.name
    BY <1>2, <1>3, <2>1 DEF OneName
  <2>8. Lasts(list, n, H)
    <3>. SUFFICES ASSUME NEW k \in 1 .. m
                  PROVE  \E l \in 1 .. n : LastOf(list, n, H[k].name, l) /\ H[k] = list[l]
      BY <2>4 DEF Lasts
    <3>1. CASE k = i
      BY <1>1, <1>8, <1>9, <2>4, <3>1
    <3>2. CASE k # i
      BY <1>3, <1>10, <2>4, <2>7, <3>2
    <3>. QED
      BY <3>1, <3>2
  <2>9. HasNames(list, n, H)
    <3>. SUFFICES ASSUME NEW l \in 1 .. n PROVE \E k \in DOMAIN H : H[k].name = list[l].name
      BY DEF HasNames
    <3>1. CASE l = n
      BY <1>1, <2>1, <2>4, <3>1
    <3>2. CASE l \in 1 .. n - 1
      <4>1. PICK k \in 1 .. m : M[k].name = list[l].name
        BY <1>2, <1>3, <3>2 DEF HasNames
      <4>. QED
        BY <2>4, <2>5, <4>1
    <3>. QED
      BY <1>8, <3>1, <3>2
  <2>. QED
    BY <1>1, <1>5, <2>3, <2>6, <2>8, <2>9 DEF MergedTo
<1>. QED
  BY <1>7, <1>11, <1>12

LEMMA MergedOnce ==
  ASSUME NEW list \in Seq(HeaderRecords)
  PROVE  MergedTo(list, Len(list), mergeHeaderLists(list))
<1>1. PICK n \in Nat : n = Len(list) /\ DOMAIN list = 1 .. n
  BY LenProperties
<1>2. PICK S : S = Seq(HeaderRecords)
  OBVIOUS
<1>3. ASSUME NEW M \in S, NEW i \in 1 .. n PROVE Merge(M, list[i]) \in S
  <2>1. PICK h \in HeaderRecords : h = list[i]
    BY <1>1, ElementOfSeq
  <2>2. M \in Seq(HeaderRecords)
    BY <1>2
  <2>3. Append(M, h) \in Seq(HeaderRecords)
    BY <2>2
  <2>4. ASSUME NEW k \in DOMAIN M PROVE [M EXCEPT ![k] = h] \in Seq(HeaderRecords)
    BY <2>2
  <2>5. \/ Merge(M, h) = Append(M, h)
        \/ \E k \in DOMAIN M : Merge(M, h) = [M EXCEPT ![k] = h]
    BY <2>2, MergeIs, Zenon
  <2>6. Merge(M, h) \in Seq(HeaderRecords)
    BY <2>3, <2>4, <2>5, Zenon
  <2>. QED
    BY <1>2, <2>1, <2>6
<1>4. PICK step : step = [p \in S \X (1 .. n) |-> Merge(p[1], list[p[2]])]
  OBVIOUS
<1>5. step \in [S \X (1 .. n) -> S]
  BY <1>3, <1>4
<1>6. << >> \in S
  BY <1>2
<1>7. PICK f \in [0 .. n -> S] : Steps(f, n, << >>, step)
  BY <1>5, <1>6, Recursion
<1>8. ASSUME NEW i \in 1 .. n PROVE f[i] = Merge(f[i - 1], list[i])
  <2>1. f[i] = step[<<f[i - 1], i>>]
    BY <1>7 DEF Steps
  <2>2. <<f[i - 1], i>> \in S \X (1 .. n)
    <3>1. i - 1 \in 0 .. n
      OBVIOUS
    <3>. QED
      BY <1>7, <3>1
  <2>. QED
    BY <1>4, <2>1, <2>2
<1>9. f[0] = << >>
  BY <1>7 DEF Steps
<1>. DEFINE g == CHOOSE m : m = [i \in 0 .. Len(list) |-> IF i = 0 THEN << >> ELSE Merge(m[i - 1], list[i])]
<1>10. mergeHeaderLists(list) = g[Len(list)]
  BY DEF mergeHeaderLists
<1>11. f = [i \in 0 .. Len(list) |-> IF i = 0 THEN << >> ELSE Merge(f[i - 1], list[i])]
  <2>1. \A i \in 0 .. n : f[i] = IF i = 0 THEN << >> ELSE Merge(f[i - 1], list[i])
    <3>. SUFFICES ASSUME NEW i \in 0 .. n PROVE f[i] = IF i = 0 THEN << >> ELSE Merge(f[i - 1], list[i])
      OBVIOUS
    <3>1. CASE i = 0
      BY <1>9, <3>1
    <3>2. CASE i # 0
      <4>1. i \in 1 .. n
        BY <3>2
      <4>. QED
        BY <1>8, <3>2, <4>1
    <3>. QED
      BY <3>1, <3>2
  <2>2. f = [i \in 0 .. n |-> f[i]]
    BY <1>7
  <2>. QED
    BY <1>1, <2>1, <2>2
<1>12. g = [i \in 0 .. Len(list) |-> IF i = 0 THEN << >> ELSE Merge(g[i - 1], list[i])]
  BY <1>11, Zenon
<1>13. PICK k : k = g /\ k = [i \in 0 .. Len(list) |-> IF i = 0 THEN << >> ELSE Merge(k[i - 1], list[i])]
  BY <1>12, Zenon
<1>. HIDE DEF g
<1>14. k[0] = << >> /\ \A i \in 1 .. n : k[i] = Merge(k[i - 1], list[i])
  <2>1. \A i \in 0 .. n : k[i] = IF i = 0 THEN << >> ELSE Merge(k[i - 1], list[i])
    BY <1>1, <1>13
  <2>2. \A i \in 1 .. n : i \in 0 .. n /\ i # 0
    OBVIOUS
  <2>3. 0 \in 0 .. n
    OBVIOUS
  <2>. QED
    BY <2>1, <2>2, <2>3
<1>15. PICK P : P = {i \in 0 .. n : MergedTo(list, i, k[i])}
  OBVIOUS
<1>16. 0 \in P
  <2>1. MergedTo(list, 0, << >>)
    BY DEF MergedTo, OneName, Lasts, HasNames
  <2>2. 0 \in 0 .. n
    OBVIOUS
  <2>. QED
    BY <1>14, <1>15, <2>1, <2>2
<1>17. ASSUME NEW i \in 1 .. n, i - 1 \in P PROVE i \in P
  <2>1. MergedTo(list, i - 1, k[i - 1])
    BY <1>15, <1>17
  <2>2. MergedTo(list, i, Merge(k[i - 1], list[i]))
    BY <1>1, <2>1, MergeStep
  <2>3. i \in 0 .. n
    OBVIOUS
  <2>. QED
    BY <1>14, <1>15, <2>2, <2>3
<1>18. \A i \in 0 .. n : i \in P
  BY <1>16, <1>17, UpTheNumbers
<1>19. n \in P
  <2>1. n \in 0 .. n
    OBVIOUS
  <2>. QED
    BY <1>18, <2>1
<1>20. MergedTo(list, n, k[n])
  BY <1>15, <1>19
<1>. QED
  BY <1>1, <1>10, <1>13, <1>20

\* The headers of a request: each header that is left, under its spelling.
LEMMA MapOfMerged ==
  ASSUME NEW M \in Seq(HeaderRecords), OneName(M)
  PROVE  /\ DOMAIN HeaderMap(M) = {<<M[k].name, M[k].spelling>> : k \in DOMAIN M}
         /\ \A k \in DOMAIN M : HeaderMap(M)[<<M[k].name, M[k].spelling>>] = M[k].value
<1>1. DOMAIN M = 1 .. Len(M) /\ Len(M) \in Nat
  BY LenProperties
<1>2. DOMAIN HeaderMap(M) = {<<M[k].name, M[k].spelling>> : k \in DOMAIN M}
  BY DEF HeaderMap
<1>3. ASSUME NEW k \in DOMAIN M PROVE HeaderMap(M)[<<M[k].name, M[k].spelling>>] = M[k].value
  <2>1. PICK key : key = <<M[k].name, M[k].spelling>>
    OBVIOUS
  <2>2. PICK i : i = SelectLastInSeq(M, LAMBDA h : <<h.name, h.spelling>> = key)
    OBVIOUS
  <2>3. PICK I : I = {l \in 1 .. Len(M) : <<M[l].name, M[l].spelling>> = key}
    OBVIOUS
  <2>4. I # {} /\ I \in SUBSET (1 .. Len(M))
    BY <1>1, <2>1, <2>3
  <2>5. i = Max(I)
    BY <2>2, <2>3, <2>4, Zenon DEF SelectLastInSeq
  <2>6. \E j \in I : \A l \in I : l <= j
    BY <1>1, <2>4, GreatestIndex
  <2>7. \E j \in I : \A l \in I : j >= l
    BY <2>3, <2>6
  <2>8. Max(I) \in I
    BY <2>7, Zenon DEF Max
  <2>9. i \in DOMAIN M /\ M[i].name = M[k].name
    BY <1>1, <2>1, <2>3, <2>5, <2>8
  <2>10. i = k
    BY <2>9 DEF OneName
  <2>11. HeaderMap(M)[key] = M[SelectLastInSeq(M, LAMBDA h : <<h.name, h.spelling>> = key)].value
    <3>1. key \in {<<M[l].name, M[l].spelling>> : l \in DOMAIN M}
      BY <2>1
    <3>. QED
      BY <3>1, Zenon DEF HeaderMap
  <2>. QED
    BY <2>1, <2>2, <2>10, <2>11, Zenon
<1>. QED
  BY <1>2, <1>3

\* What a name is sent with.
AddedKey == <<"accept-encoding", "canonical">>
ForWorker(size, down) == size = "worker" /\ down
Adds(headers, plain, size, down) ==
  /\ ForWorker(size, down) => AddedKey \in DOMAIN headers /\ headers[AddedKey] = "identity"
  /\ \A key \in DOMAIN plain : key \in DOMAIN headers
  /\ \A key \in DOMAIN headers : ~(ForWorker(size, down) /\ key = AddedKey) => key \in DOMAIN plain /\ headers[key] = plain[key]

LEMMA AddedHeader ==
  ASSUME NEW map, NEW size, NEW down
  PROVE  Adds(requestHeaders(map, size, down), HeaderMap(map), size, down)
<1>0. PICK plain, headers, added : plain = HeaderMap(map) /\ headers = requestHeaders(map, size, down) /\ added = AddedKey
  OBVIOUS
<1>1. PICK A : A = IF size = "worker" /\ down THEN IdentityHeader ELSE << >>
  BY Zenon
<1>2. headers = Over(A, plain)
  BY <1>0, <1>1, Zenon DEF requestHeaders
<1>3. headers = [x \in DOMAIN A \cup DOMAIN plain |-> IF x \in DOMAIN A THEN A[x] ELSE plain[x]]
  BY <1>2, Zenon DEF Over
<1>4. CASE ForWorker(size, down)
  <2>1. A = [key \in {added} |-> "identity"]
    BY <1>0, <1>1, <1>4, Zenon DEF IdentityHeader, ForWorker, AddedKey
  <2>2. added \in DOMAIN headers /\ headers[added] = "identity"
    BY <1>3, <2>1
  <2>3. \A key \in DOMAIN plain : key \in DOMAIN headers
    BY <1>3
  <2>4. \A key \in DOMAIN headers : key # added => key \in DOMAIN plain /\ headers[key] = plain[key]
    BY <1>3, <2>1
  <2>5. Adds(headers, plain, size, down)
    <3>1. ForWorker(size, down) => AddedKey \in DOMAIN headers /\ headers[AddedKey] = "identity"
      BY <1>0, <2>2, Zenon
    <3>2. \A key \in DOMAIN headers :
            ~(ForWorker(size, down) /\ key = AddedKey) => key \in DOMAIN plain /\ headers[key] = plain[key]
      BY <1>0, <1>4, <2>4, Zenon
    <3>. QED
      BY <2>3, <3>1, <3>2, Zenon DEF Adds
  <2>. QED
    BY <1>0, <2>5, Zenon
<1>5. CASE ~ForWorker(size, down)
  <2>1. DOMAIN A = {}
    <3>1. A = << >>
      BY <1>1, <1>5, Zenon DEF ForWorker
    <3>. QED
      BY <3>1
  <2>2. \A key \in DOMAIN plain : key \in DOMAIN headers
    BY <1>3
  <2>3. \A key \in DOMAIN headers : key \in DOMAIN plain /\ headers[key] = plain[key]
    BY <1>3, <2>1
  <2>. QED
    BY <1>0, <1>5, <2>2, <2>3, Zenon DEF Adds
<1>. QED
  BY <1>4, <1>5

\* What the header priority says of a name.
SentAs(given, size, down, name, sent) ==
  /\ ForWorker(size, down) /\ name = "accept-encoding" => "identity" \in sent[name]
  /\ ~(ForWorker(size, down) /\ name = "accept-encoding") => sent[name] = {LastNamed(given, name).value} \ {""}

LEMMA SentFacts ==
  ASSUME NEW given \in Seq(HeaderRecords), NEW size, NEW down, NEW d \in DOMAIN given, NEW name, name = given[d].name,
         NEW sent, sent = applyHeaders(requestHeaders(mergeHeaderLists(given), size, down))
  PROVE  SentAs(given, size, down, name, sent)
<1>1. PICK n \in Nat : n = Len(given) /\ DOMAIN given = 1 .. n
  BY LenProperties
<1>2. PICK M : M = mergeHeaderLists(given)
  OBVIOUS
<1>3. M \in Seq(HeaderRecords) /\ OneName(M) /\ Lasts(given, n, M) /\ HasNames(given, n, M)
  BY <1>1, <1>2, MergedOnce DEF MergedTo
<1>4. PICK plain, headers, added : plain = HeaderMap(M) /\ headers = requestHeaders(M, size, down) /\ added = AddedKey
  OBVIOUS
<1>5. Adds(headers, plain, size, down)
  BY <1>4, AddedHeader
<1>16. /\ ForWorker(size, down) => added \in DOMAIN headers /\ headers[added] = "identity"
       /\ \A key \in DOMAIN plain : key \in DOMAIN headers
       /\ \A key \in DOMAIN headers :
            ~(ForWorker(size, down) /\ key = added) => key \in DOMAIN plain /\ headers[key] = plain[key]
  BY <1>4, <1>5, Zenon DEF Adds
<1>6. PICK K : K = [k \in DOMAIN M |-> <<M[k].name, M[k].spelling>>]
  OBVIOUS
<1>7. /\ DOMAIN plain = {K[k] : k \in DOMAIN M} /\ \A k \in DOMAIN M : plain[K[k]] = M[k].value
  BY <1>3, <1>4, <1>6, MapOfMerged
<1>8. sent = [x \in {key[1] : key \in DOMAIN headers} |->
                {headers[key] : key \in {k \in DOMAIN headers : k[1] = x /\ headers[k] # ""}}]
  BY <1>2, <1>4, Zenon DEF applyHeaders
<1>9. PICK k \in DOMAIN M : M[k].name = name
  BY <1>1, <1>3 DEF HasNames
<1>10. K[k] \in DOMAIN headers /\ K[k][1] = name
  BY <1>6, <1>7, <1>9, <1>16
<1>11. name \in {key[1] : key \in DOMAIN headers}
  BY <1>10
<1>12. sent[name] = {headers[key] : key \in {x \in DOMAIN headers : x[1] = name /\ headers[x] # ""}}
  BY <1>8, <1>11
<1>13. added[1] = "accept-encoding"
  BY <1>4 DEF AddedKey
<1>14. ASSUME ForWorker(size, down), name = "accept-encoding" PROVE "identity" \in sent[name]
  BY <1>12, <1>13, <1>14, <1>16
<1>15. ASSUME ~(ForWorker(size, down) /\ name = "accept-encoding")
       PROVE  sent[name] = {LastNamed(given, name).value} \ {""}
  <2>1. PICK i \in 1 .. n : LastNamed(given, name) = given[i] /\ LastOf(given, n, name, i)
    BY <1>1, LastNamedFacts
  <2>4. PICK j \in 1 .. n : LastOf(given, n, name, j) /\ M[k] = given[j]
    BY <1>3, <1>9 DEF Lasts
  <2>5. i = j
    BY <2>1, <2>4 DEF LastOf
  <2>6. ASSUME NEW x \in DOMAIN headers, x[1] = name PROVE x = K[k]
    <3>1. ~(ForWorker(size, down) /\ x = added)
      BY <1>13, <1>15, <2>6
    <3>2. PICK l \in DOMAIN M : x = K[l]
      BY <1>7, <1>16, <3>1
    <3>3. M[l].name = name
      BY <1>6, <2>6, <3>2
    <3>. QED
      BY <1>3, <1>9, <3>2, <3>3 DEF OneName
  <2>7. headers[K[k]] = given[i].value
    <3>1. ~(ForWorker(size, down) /\ K[k] = added)
      BY <1>10, <1>13, <1>15
    <3>. QED
      BY <1>7, <1>10, <1>16, <2>4, <2>5, <3>1
  <2>8. PICK v : v = given[i].value
    OBVIOUS
  <2>9. sent[name] = {v} \ {""}
    BY <1>10, <1>12, <2>6, <2>7, <2>8
  <2>. QED
    BY <2>1, <2>8, <2>9, Zenon
<1>. QED
  BY <1>14, <1>15, Zenon DEF SentAs

LEMMA GivenFacts ==
  ASSUME NEW c \in Commands, NEW options, options = CommandOptions(FlagsOf(c), c.file, Dispatch(c).subscription), NEW down \in BOOLEAN
  PROVE  /\ GivenHeaders(c, down) \in Seq(HeaderRecords)
         /\ (IF down THEN options.downloadHeaders ELSE options.uploadHeaders) = mergeHeaderLists(GivenHeaders(c, down))
<1>1. PICK f, file : f = FlagsOf(c) /\ file = c.file
  OBVIOUS
<1>2. PICK base : base = readConfig(IF file.readable THEN file ELSE NoFile)
  BY Zenon
<1>4. /\ options.downloadHeaders = mergeHeaderLists(base.downloadHeaders \o f.H \o f.dH)
      /\ options.uploadHeaders = mergeHeaderLists(base.uploadHeaders \o f.H \o f.uH)
  <2>1. options = CommandOptions(f, file, Dispatch(c).subscription)
    BY <1>1, Zenon
  <2>. QED
    BY <1>2, <2>1 DEF CommandOptions
<1>5. file \in FileRecords
  BY <1>1, CommandsAssumption
<1>6. /\ base.downloadHeaders = (IF file.readable THEN file.downloadHeaders ELSE << >>)
      /\ base.uploadHeaders = (IF file.readable THEN file.uploadHeaders ELSE << >>)
  BY <1>2, <1>5, BaseFacts, Zenon
<1>7. f.H \in Seq(HeaderRecords) /\ f.dH \in Seq(HeaderRecords) /\ f.uH \in Seq(HeaderRecords)
  BY <1>1, FlagValues DEF HeaderFlags
<1>8. file.downloadHeaders \in Seq(HeaderRecords) /\ file.uploadHeaders \in Seq(HeaderRecords)
  BY <1>5 DEF FileRecords
<1>9. PICK first, last :
         /\ first = (IF ~file.readable THEN << >> ELSE IF down THEN file.downloadHeaders ELSE file.uploadHeaders)
         /\ last = (IF down THEN f.dH ELSE f.uH)
  BY Zenon
<1>10. first \in Seq(HeaderRecords) /\ last \in Seq(HeaderRecords)
  BY <1>7, <1>8, <1>9
<1>11. GivenHeaders(c, down) = first \o f.H \o last
  BY <1>1, <1>9, Zenon DEF GivenHeaders
<1>12. first \o f.H \o last \in Seq(HeaderRecords)
  BY <1>7, <1>10
<1>13. CASE down
  <2>1. first = base.downloadHeaders /\ last = f.dH
    BY <1>6, <1>9, <1>13, Zenon
  <2>. QED
    BY <1>4, <1>11, <1>12, <1>13, <2>1, Zenon
<1>14. CASE ~down
  <2>1. first = base.uploadHeaders /\ last = f.uH
    BY <1>6, <1>9, <1>14, Zenon
  <2>. QED
    BY <1>4, <1>11, <1>12, <1>14, <2>1, Zenon
<1>. QED
  BY <1>13, <1>14

LEMMA PriorityHolds == ASSUME OptInv PROVE HeaderPriority
<1>. SUFFICES ASSUME FromCommand, NEW down \in BOOLEAN,
                     NEW name \in {header.name : header \in ToSet(GivenHeaders(optInput, down))}
              PROVE  IF down /\ optOptions.downloadSize = "worker" /\ name = "accept-encoding"
                     THEN "identity" \in SentHeaders(down)[name]
                     ELSE SentHeaders(down)[name] = {LastNamed(GivenHeaders(optInput, down), name).value} \ {""}
  BY Zenon DEF HeaderPriority
<1>1. PICK given : given = GivenHeaders(optInput, down)
  OBVIOUS
<1>2. PICK M : M = (IF down THEN optOptions.downloadHeaders ELSE optOptions.uploadHeaders)
  BY Zenon
<1>3. given \in Seq(HeaderRecords) /\ M = mergeHeaderLists(given)
  <2>1. PICK options : options = optOptions
    OBVIOUS
  <2>2. optInput \in Commands /\ options = CommandOptions(FlagsOf(optInput), optInput.file, Dispatch(optInput).subscription)
    BY <2>1, CommandRun
  <2>. QED
    BY <1>1, <1>2, <2>1, <2>2, GivenFacts, Zenon
<1>4. PICK size, sent : size = optOptions.downloadSize /\ sent = applyHeaders(requestHeaders(M, size, down))
  OBVIOUS
<1>5. sent = SentHeaders(down)
  BY <1>2, <1>4, Zenon DEF SentHeaders
<1>6. PICK i \in DOMAIN given : name = given[i].name
  BY <1>1 DEF ToSet
<1>7. SentAs(given, size, down, name, sent)
  BY <1>3, <1>4, <1>6, SentFacts
<1>. QED
  BY <1>1, <1>4, <1>5, <1>7, Zenon DEF SentAs, ForWorker

\* What is tested is what the page or the command line asked for, for any
\* requests and command lines, any files and any subscriptions.
THEOREM OptionsAreSafe == OptionSpec => []OptionSafe
<1>1. OptInv => OptionSafe
  BY GroupsHold, UniqueHolds, BoundsHold, PriorityHolds, AnywhereHolds, ObeyedHolds DEF OptionSafe
<1>2. OptInv /\ [OptionNext]_optionVars => OptInv'
  <2>1. ASSUME OptInv, UNCHANGED optionVars PROVE OptInv'
    BY <2>1 DEF OptInv, optionVars
  <2>. QED
    BY <2>1, OptionInvStep
<1>. QED
  BY <1>1, <1>2, OptionInvInit, PTL DEF OptionSpec
=============================================================================
