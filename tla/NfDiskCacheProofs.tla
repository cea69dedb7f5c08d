------------------------- MODULE NfDiskCacheProofs -------------------------
(***************************************************************************)
(* Proofs about NfDiskCache for every set of images with their sizes and   *)
(* every sequence of quotas, whether or not others delete files, and       *)
(* whether or not their sizes can be learnt.                               *)
(***************************************************************************)
EXTENDS NfDiskCache, FiniteSetTheorems, SequenceTheorems, TLAPS

-----------------------------------------------------------------------------
(* The inductive invariant.                                                *)

HasEachKeyOnce(s) == \A i, j \in DOMAIN s : s[i].key = s[j].key => i = j

\* No two files have one name, and no two entries one key.
KeysOnce == HasEachKeyOnce(files) /\ HasEachKeyOnce(lruOrder)

\* The index as IndexConsistent says, lengths left aside.
IndexAgrees ==
  /\ lruOrderById = KeysOf(lruOrder)
  /\ currentSize = TotalSize(lruOrder)

\* While the process runs, put included, every file that was not overlooked has
\* an entry with its size or more.
FilesIndexed ==
  process = "running" =>
    \A f \in ToSet(files) :
      \/ f.key \in overlooked
      \/ \E e \in ToSet(lruOrder) : e.key = f.key /\ e.size >= f.size

\* The request under way is not in the queue any more.
RequestOnce ==
  /\ worker = "idle" <=> request = NoKey
  /\ \A i \in DOMAIN writeQueue : writeQueue[i] # request

\* Without a process there is nothing but the files.
DownIsBlank ==
  process = "down" =>
    /\ lruOrder = <<>> /\ lruOrderById = {} /\ currentSize = 0
    /\ writeQueue = <<>> /\ queuedIds = {} /\ worker = "idle"

\* The index is within the quota or no larger than it was at the start, and is
\* within the quota together with what is about to be renamed.
RoomInIndex ==
  /\ currentSize <= AtLeast(maxSizeBytes, inherited)
  /\ worker \in {"evicting", "renaming"} => FileSize[request] <= maxSizeBytes
  /\ worker = "renaming" => currentSize + FileSize[request] <= maxSizeBytes

\* Who writes cleans up after himself.
TemporariesKnown ==
  temporaries \subseteq leftovers \union (IF MutexFree THEN {} ELSE {request})

IInv ==
  /\ TypeOK /\ KeysOnce /\ IndexAgrees /\ FilesIndexed
  /\ QueuedOnce /\ RequestOnce /\ DownIsBlank
  /\ RoomInIndex /\ DiskWithinQuota /\ TemporariesKnown

-----------------------------------------------------------------------------
(* Lists with each key once.                                               *)

\* The elements of a list that takes one out.
LEMMA RemoveAtElements ==
  ASSUME NEW S, NEW s \in Seq(S), NEW p \in 1..Len(s)
  PROVE  /\ RemoveAt(s, p) \in Seq(S)
         /\ Len(RemoveAt(s, p)) = Len(s) - 1
         /\ \A i \in 1..(Len(s) - 1) :
              RemoveAt(s, p)[i] = IF i < p THEN s[i] ELSE s[i + 1]
<1> DEFINE a == SubSeq(s, 1, p - 1)
           b == SubSeq(s, p + 1, Len(s))
<1>1. Len(s) \in Nat /\ \A i \in 1..Len(s) : s[i] \in S
  BY LenProperties, ElementOfSeq
<1>2. /\ a \in Seq(S) /\ Len(a) = p - 1
      /\ \A i \in 1..(p - 1) : a[i] = s[i]
  BY <1>1, SubSeqProperties
<1>3. /\ b \in Seq(S) /\ Len(b) = Len(s) - p
      /\ \A i \in 1..(Len(s) - p) : b[i] = s[p + i]
  BY <1>1, SubSeqProperties
<1>4. RemoveAt(s, p) = a \o b
  BY DEF RemoveAt
<1> HIDE DEF a, b
<1>5. /\ a \o b \in Seq(S) /\ Len(a \o b) = Len(a) + Len(b)
      /\ \A i \in 1..(Len(a) + Len(b)) :
           (a \o b)[i] = IF i <= Len(a) THEN a[i] ELSE b[i - Len(a)]
  BY <1>2, <1>3, ConcatProperties
<1>6. Len(RemoveAt(s, p)) = Len(s) - 1
  BY <1>1, <1>2, <1>3, <1>4, <1>5
<1>7. ASSUME NEW i \in 1..(Len(s) - 1)
      PROVE  RemoveAt(s, p)[i] = IF i < p THEN s[i] ELSE s[i + 1]
  <2>1. CASE i < p
    BY <1>1, <1>2, <1>3, <1>4, <1>5, <2>1
  <2>2. CASE i >= p
    <3>1. i - (p - 1) \in 1..(Len(s) - p) /\ p + (i - (p - 1)) = i + 1
      BY <1>1, <2>2
    <3>2. (a \o b)[i] = b[i - (p - 1)]
      BY <1>1, <1>2, <1>3, <1>5, <2>2
    <3>3. QED
      BY <1>3, <1>4, <2>2, <3>1, <3>2
  <2>3. QED
    BY <1>1, <2>1, <2>2
<1>8. QED
  BY <1>4, <1>5, <1>6, <1>7

\* Taking a key out leaves the others, and still each once.
LEMMA WithoutKey ==
  ASSUME NEW S, NEW s \in Seq(S), HasEachKeyOnce(s), NEW k
  PROVE  /\ Without(s, k) \in Seq(S)
         /\ HasEachKeyOnce(Without(s, k))
         /\ ToSet(Without(s, k)) = {e \in ToSet(s) : e.key # k}
<1>1. Len(s) \in Nat /\ DOMAIN s = 1..Len(s)
  BY LenProperties
<1>2. CASE k \notin KeysOf(s)
  <2>1. Without(s, k) = s
    BY <1>2 DEF Without
  <2>2. \A e \in ToSet(s) : e.key # k
    BY <1>2 DEF KeysOf, ToSet
  <2>3. QED
    BY <2>1, <2>2
<1>3. CASE k \in KeysOf(s)
  <2> DEFINE p == Position(s, k)
             w == RemoveAt(s, p)
  <2>1. p \in 1..Len(s) /\ s[p].key = k
    BY <1>1, <1>3 DEF KeysOf, Position
  <2>2. \A i \in 1..Len(s) : s[i].key = k <=> i = p
    BY <1>1, <2>1 DEF HasEachKeyOnce
  <2>3. Without(s, k) = w
    BY <1>3 DEF Without
  <2> HIDE DEF p
  <2>4. /\ w \in Seq(S) /\ DOMAIN w = 1..(Len(s) - 1)
        /\ \A i \in 1..(Len(s) - 1) : w[i] = IF i < p THEN s[i] ELSE s[i + 1]
    BY <2>1, RemoveAtElements, LenProperties
  <2> HIDE DEF w
  <2>5. HasEachKeyOnce(w)
    <3> SUFFICES ASSUME NEW i \in 1..(Len(s) - 1), NEW j \in 1..(Len(s) - 1),
                        w[i].key = w[j].key
                 PROVE  i = j
      BY <2>4 DEF HasEachKeyOnce
    <3> DEFINE at(n) == IF n < p THEN n ELSE n + 1
    <3>1. /\ at(i) \in 1..Len(s) /\ at(j) \in 1..Len(s)
          /\ w[i] = s[at(i)] /\ w[j] = s[at(j)]
      BY <1>1, <2>1, <2>4
    <3>2. at(i) = at(j)
      BY <1>1, <3>1 DEF HasEachKeyOnce
    <3>3. QED
      BY <2>1, <3>2
  <2>6. ASSUME NEW i \in 1..(Len(s) - 1)
        PROVE  \E j \in 1..Len(s) : w[i] = s[j] /\ s[j].key # k
    <3>1. CASE i < p
      BY <1>1, <2>1, <2>2, <2>4, <3>1
    <3>2. CASE i >= p
      <4>1. i + 1 \in 1..Len(s) /\ i + 1 # p /\ w[i] = s[i + 1]
        BY <1>1, <2>1, <2>4, <3>2
      <4>2. QED
        BY <2>2, <4>1
    <3>3. QED
      BY <2>1, <3>1, <3>2
  <2>7. ASSUME NEW j \in 1..Len(s), s[j].key # k
        PROVE  \E i \in 1..(Len(s) - 1) : w[i] = s[j]
    <3>1. CASE j < p
      <4>1. j \in 1..(Len(s) - 1) /\ w[j] = s[j]
        BY <1>1, <2>1, <2>4, <3>1
      <4>2. QED
        BY <4>1
    <3>2. CASE j > p
      <4>1. j - 1 \in 1..(Len(s) - 1) /\ (j - 1) + 1 = j /\ ~ (j - 1 < p)
        BY <1>1, <2>1, <3>2
      <4>2. w[j - 1] = s[j]
        BY <2>4, <4>1
      <4>3. QED
        BY <4>1, <4>2
    <3>3. QED
      BY <2>1, <2>2, <2>7, <3>1, <3>2
  <2>8. ToSet(w) = {e \in ToSet(s) : e.key # k}
    <3>1. ASSUME NEW e \in ToSet(w)
          PROVE  e \in ToSet(s) /\ e.key # k
      <4>1. PICK i \in 1..(Len(s) - 1) : e = w[i]
        BY <2>4 DEF ToSet
      <4>2. PICK j \in 1..Len(s) : w[i] = s[j] /\ s[j].key # k
        BY <2>6
      <4>3. QED
        BY <1>1, <4>1, <4>2 DEF ToSet
    <3>2. ASSUME NEW e \in ToSet(s), e.key # k
          PROVE  e \in ToSet(w)
      <4>1. PICK j \in 1..Len(s) : e = s[j]
        BY <1>1 DEF ToSet
      <4>2. PICK i \in 1..(Len(s) - 1) : w[i] = s[j]
        BY <2>7, <3>2, <4>1
      <4>3. QED
        BY <2>4, <4>1, <4>2 DEF ToSet
    <3>3. QED
      BY <3>1, <3>2
  <2>9. QED
    BY <2>3, <2>4, <2>5, <2>8
<1>4. QED
  BY <1>2, <1>3

\* An element with a new key may go in front.
LEMMA InFront ==
  ASSUME NEW S, NEW s \in Seq(S), HasEachKeyOnce(s), NEW e \in S,
         \A f \in ToSet(s) : f.key # e.key
  PROVE  /\ <<e>> \o s \in Seq(S)
         /\ HasEachKeyOnce(<<e>> \o s)
         /\ ToSet(<<e>> \o s) = {e} \union ToSet(s)
<1> DEFINE w == <<e>> \o s
<1>1. Len(s) \in Nat /\ DOMAIN s = 1..Len(s)
  BY LenProperties
<1>2. <<e>> \in Seq(S) /\ Len(<<e>>) = 1 /\ <<e>>[1] = e
  OBVIOUS
<1>3. /\ w \in Seq(S) /\ Len(w) = 1 + Len(s)
      /\ \A i \in 1..(1 + Len(s)) : w[i] = IF i <= 1 THEN <<e>>[i] ELSE s[i - 1]
  BY <1>2, ConcatProperties
<1>4. DOMAIN w = 1..(1 + Len(s))
  BY <1>3, LenProperties
<1> HIDE DEF w
<1>5. w[1] = e /\ 1 \in DOMAIN w
  BY <1>1, <1>2, <1>3, <1>4
<1>6. \A i \in 2..(1 + Len(s)) : i - 1 \in 1..Len(s) /\ w[i] = s[i - 1]
  BY <1>1, <1>3
<1>7. \A i \in 1..Len(s) : i + 1 \in 2..(1 + Len(s)) /\ w[i + 1] = s[i]
  BY <1>1, <1>6
<1>8. \A i \in 1..Len(s) : s[i].key # e.key
  BY <1>1 DEF ToSet
<1>9. HasEachKeyOnce(w)
  <2> SUFFICES ASSUME NEW i \in 1..(1 + Len(s)), NEW j \in 1..(1 + Len(s)),
                      w[i].key = w[j].key
               PROVE  i = j
    BY <1>4 DEF HasEachKeyOnce
  <2>1. i = 1 <=> j = 1
    BY <1>1, <1>5, <1>6, <1>8
  <2>2. CASE i # 1 /\ j # 1
    <3>1. i - 1 = j - 1
      BY <1>1, <1>6, <2>2 DEF HasEachKeyOnce
    <3>2. QED
      BY <3>1
  <2>3. QED
    BY <2>1, <2>2
<1>10. ToSet(w) = {e} \union ToSet(s)
  <2>1. \A i \in 1..(1 + Len(s)) : w[i] \in {e} \union ToSet(s)
    <3> SUFFICES ASSUME NEW i \in 1..(1 + Len(s)), i # 1
                 PROVE  w[i] \in ToSet(s)
      BY <1>5
    <3>1. i - 1 \in DOMAIN s /\ w[i] = s[i - 1]
      BY <1>1, <1>6
    <3>2. QED
      BY <3>1 DEF ToSet
  <2>2. \A i \in 1..Len(s) : s[i] \in ToSet(w)
    BY <1>1, <1>4, <1>7 DEF ToSet
  <2>3. QED
    BY <1>1, <1>4, <1>5, <2>1, <2>2 DEF ToSet
<1>11. QED
  BY <1>3, <1>9, <1>10 DEF w

-----------------------------------------------------------------------------
(* Sums of sizes.                                                          *)

BytesOf(e) == {e.key} \X (1..e.size)

LEMMA BytesOfElements ==
  ASSUME NEW s
  PROVE  Bytes(s) = UNION {BytesOf(e) : e \in ToSet(s)}
BY DEF Bytes, BytesOf, ToSet

LEMMA BytesOfFinite ==
  ASSUME NEW e, e.size \in Nat
  PROVE  IsFiniteSet(BytesOf(e)) /\ Cardinality(BytesOf(e)) = e.size
<1>1. IsFiniteSet(1..e.size) /\ Cardinality(1..e.size) = e.size
  BY FS_Interval
<1>2. IsFiniteSet({e.key}) /\ Cardinality({e.key}) = 1
  BY FS_Singleton
<1>3. /\ IsFiniteSet(BytesOf(e))
      /\ Cardinality(BytesOf(e)) = Cardinality({e.key}) * Cardinality(1..e.size)
  BY <1>1, <1>2, FS_Product DEF BytesOf
<1>4. QED
  BY <1>1, <1>2, <1>3

LEMMA BytesFinite ==
  ASSUME NEW S, NEW s \in Seq(S), \A e \in S : e.size \in Nat
  PROVE  IsFiniteSet(Bytes(s)) /\ TotalSize(s) \in Nat
<1> DEFINE f == [i \in 1..Len(s) |-> BytesOf(s[i])]
           T == {BytesOf(s[i]) : i \in 1..Len(s)}
<1>1. Len(s) \in Nat /\ DOMAIN s = 1..Len(s) /\ \A i \in 1..Len(s) : s[i] \in S
  BY LenProperties, ElementOfSeq
<1>2. f \in Surjection(1..Len(s), T)
  BY DEF Surjection
<1>3. IsFiniteSet(T)
  <2> HIDE DEF f, T
  <2>1. IsFiniteSet(1..Len(s))
    BY <1>1, FS_Interval
  <2>2. QED
    BY <1>2, <2>1, FS_Surjection
<1>4. \A b \in T : IsFiniteSet(b)
  BY <1>1, BytesOfFinite
<1>5. Bytes(s) = UNION T
  BY <1>1 DEF Bytes, BytesOf
<1>6. IsFiniteSet(Bytes(s))
  <2> HIDE DEF T
  <2>1. QED
    BY <1>3, <1>4, <1>5, FS_UNION
<1>7. QED
  BY <1>6, FS_CardinalityType DEF TotalSize

LEMMA KeysOfElements ==
  ASSUME NEW s
  PROVE  KeysOf(s) = {e.key : e \in ToSet(s)}
BY DEF KeysOf, ToSet

\* The sum depends on what is in the list, not where.
LEMMA SameElements ==
  ASSUME NEW s, NEW t, ToSet(s) = ToSet(t)
  PROVE  TotalSize(s) = TotalSize(t) /\ KeysOf(s) = KeysOf(t)
<1>1. Bytes(s) = Bytes(t)
  BY BytesOfElements
<1>2. KeysOf(s) = KeysOf(t)
  BY KeysOfElements
<1>3. QED
  BY <1>1, <1>2 DEF TotalSize

\* A list with one more element has its size more.
LEMMA OneMoreElement ==
  ASSUME NEW S, NEW s \in Seq(S), NEW e \in S, \A f \in S : f.size \in Nat,
         \A f \in ToSet(s) : f.key # e.key,
         NEW t, ToSet(t) = {e} \union ToSet(s)
  PROVE  TotalSize(t) = TotalSize(s) + e.size
<1>1. Bytes(t) = Bytes(s) \union BytesOf(e)
  BY BytesOfElements
<1>2. Bytes(s) \intersect BytesOf(e) = {}
  BY BytesOfElements DEF BytesOf
<1>3. /\ IsFiniteSet(Bytes(s)) /\ IsFiniteSet(BytesOf(e))
      /\ Cardinality(BytesOf(e)) = e.size
      /\ Cardinality(Bytes(s)) \in Nat
  BY BytesFinite, BytesOfFinite DEF TotalSize
<1>4. Cardinality(Bytes(t)) = Cardinality(Bytes(s)) + Cardinality(BytesOf(e)) - Cardinality({})
  BY <1>1, <1>2, <1>3, FS_Union
<1>5. QED
  BY <1>3, <1>4, FS_EmptySet DEF TotalSize

\* A file's bytes are among those of an index that has its key with its size.
LEMMA BytesIndexed ==
  ASSUME NEW f, NEW s, NEW e \in ToSet(s), e.key = f.key, e.size >= f.size,
         e.size \in Nat, f.size \in Nat
  PROVE  BytesOf(f) \subseteq Bytes(s)
<1>1. 1..f.size \subseteq 1..e.size
  OBVIOUS
<1>2. BytesOf(f) \subseteq BytesOf(e)
  BY <1>1 DEF BytesOf
<1>3. QED
  BY <1>2, BytesOfElements

\* There are as many keys as elements.
LEMMA AsManyKeys ==
  ASSUME NEW S, NEW s \in Seq(S), HasEachKeyOnce(s)
  PROVE  Cardinality(KeysOf(s)) = Len(s)
<1> DEFINE f == [i \in 1..Len(s) |-> s[i].key]
<1>1. Len(s) \in Nat /\ DOMAIN s = 1..Len(s)
  BY LenProperties
<1>2. f \in Surjection(1..Len(s), KeysOf(s)) /\ f \in Injection(1..Len(s), KeysOf(s))
  BY <1>1 DEF Surjection, Injection, IsInjective, KeysOf, HasEachKeyOnce
<1> HIDE DEF f
<1>3. IsFiniteSet(1..Len(s)) /\ Cardinality(1..Len(s)) = Len(s)
  BY <1>1, FS_Interval
<1>4. QED
  BY <1>2, <1>3, FS_Surjection

-----------------------------------------------------------------------------
(* What the operations do to the index.                                    *)

Entries == [key : Keys, size : Nat \ {0}]
ImageFiles == [key : Keys, size : Nat \ {0}, whole : BOOLEAN]

\* The entry of a key is the one that has it.
LEMMA EntryOfKey ==
  ASSUME TypeOK, KeysOnce, NEW e \in ToSet(lruOrder)
  PROVE  e \in Entries /\ EntryOf(lruOrder, e.key) = e
<1>1. PICK i \in DOMAIN lruOrder : e = lruOrder[i]
  BY DEF ToSet
<1>2. Position(lruOrder, e.key) = i
  BY <1>1 DEF Position, KeysOnce, HasEachKeyOnce
<1>3. lruOrder \in Seq(Entries)
  BY DEF TypeOK, Entries
<1>4. lruOrder[i] \in Entries
  BY <1>3, LenProperties, ElementOfSeq
<1>5. QED
  BY <1>1, <1>2, <1>4 DEF EntryOf

\* A key without an entry has no size, one with an entry that of the entry.
LEMMA SizeOfKey ==
  ASSUME TypeOK, KeysOnce, IndexAgrees, NEW k
  PROVE  /\ k \notin lruOrderById =>
              SizeInIndex(k) = 0 /\ \A e \in ToSet(lruOrder) : e.key # k
         /\ k \in lruOrderById =>
              \E e \in ToSet(lruOrder) : e.key = k /\ SizeInIndex(k) = e.size
<1>1. lruOrderById = {e.key : e \in ToSet(lruOrder)}
  BY KeysOfElements DEF IndexAgrees
<1>2. QED
  BY <1>1, EntryOfKey DEF SizeInIndex

\* Forgetting a key takes away its size and nothing else.
LEMMA Forgotten ==
  ASSUME TypeOK, KeysOnce, IndexAgrees, NEW k
  PROVE  /\ Without(lruOrder, k) \in Seq(Entries)
         /\ HasEachKeyOnce(Without(lruOrder, k))
         /\ ToSet(Without(lruOrder, k)) = {e \in ToSet(lruOrder) : e.key # k}
         /\ KeysOf(Without(lruOrder, k)) = lruOrderById \ {k}
         /\ SizeInIndex(k) \in 0..currentSize
         /\ TotalSize(Without(lruOrder, k)) = currentSize - SizeInIndex(k)
<1> DEFINE w == Without(lruOrder, k)
<1>1. lruOrder \in Seq(Entries) /\ \A e \in Entries : e.size \in Nat
  BY DEF TypeOK, Entries
<1>2. /\ w \in Seq(Entries) /\ HasEachKeyOnce(w)
      /\ ToSet(w) = {e \in ToSet(lruOrder) : e.key # k}
  BY <1>1, WithoutKey DEF KeysOnce
<1> HIDE DEF w
<1>3. KeysOf(w) = lruOrderById \ {k}
  BY <1>2, KeysOfElements DEF IndexAgrees
<1>4. TotalSize(w) \in Nat /\ currentSize \in Nat
  BY <1>1, <1>2, BytesFinite DEF TypeOK
<1>5. SizeInIndex(k) \in Nat /\ currentSize = TotalSize(w) + SizeInIndex(k)
  <2>1. CASE k \notin lruOrderById
    <3>1. ToSet(w) = ToSet(lruOrder) /\ SizeInIndex(k) = 0
      BY <1>2, <2>1, SizeOfKey
    <3>2. QED
      BY <1>4, <3>1, SameElements DEF IndexAgrees
  <2>2. CASE k \in lruOrderById
    <3>1. PICK e \in ToSet(lruOrder) : e.key = k /\ SizeInIndex(k) = e.size
      BY <2>2, SizeOfKey
    <3>2. e \in Entries /\ e.size \in Nat
      BY EntryOfKey DEF Entries
    <3>3. \A f \in ToSet(lruOrder) : f.key = k => f = e
      BY <3>1, EntryOfKey
    <3>4. ToSet(lruOrder) = {e} \union ToSet(w) /\ \A f \in ToSet(w) : f.key # e.key
      BY <1>2, <3>1, <3>3
    <3>5. TotalSize(lruOrder) = TotalSize(w) + e.size
      BY <1>1, <1>2, <3>2, <3>4, OneMoreElement
    <3>6. QED
      BY <3>1, <3>2, <3>5 DEF IndexAgrees
  <2>3. QED
    BY <2>1, <2>2
<1>6. QED
  BY <1>2, <1>3, <1>4, <1>5 DEF w

\* Moving an entry to the front changes the order alone.
LEMMA MovedToFront ==
  ASSUME TypeOK, KeysOnce, IndexAgrees, NEW e \in ToSet(lruOrder), NEW w,
         w = <<e>> \o Without(lruOrder, e.key)
  PROVE  /\ w \in Seq(Entries) /\ HasEachKeyOnce(w)
         /\ ToSet(w) = ToSet(lruOrder)
         /\ KeysOf(w) = lruOrderById /\ TotalSize(w) = currentSize
<1>1. e \in Entries /\ \A f \in ToSet(lruOrder) : f.key = e.key => f = e
  BY EntryOfKey
<1>2. \A f \in ToSet(Without(lruOrder, e.key)) : f.key # e.key
  BY Forgotten
<1>3. /\ w \in Seq(Entries) /\ HasEachKeyOnce(w)
      /\ ToSet(w) = {e} \union ToSet(Without(lruOrder, e.key))
  BY <1>1, <1>2, Forgotten, InFront
<1>4. ToSet(w) = ToSet(lruOrder)
  BY <1>1, <1>3, Forgotten
<1>5. QED
  BY <1>3, <1>4, SameElements DEF IndexAgrees

\* A new entry adds its size.
LEMMA NewEntry ==
  ASSUME TypeOK, KeysOnce, IndexAgrees, NEW e \in Entries, e.key \notin lruOrderById,
         NEW w, w = <<e>> \o Without(lruOrder, e.key)
  PROVE  /\ w \in Seq(Entries) /\ HasEachKeyOnce(w)
         /\ ToSet(w) = {e} \union ToSet(lruOrder)
         /\ KeysOf(w) = lruOrderById \union {e.key}
         /\ TotalSize(w) = currentSize + e.size
<1>1. lruOrder \in Seq(Entries) /\ \A f \in Entries : f.size \in Nat
  BY DEF TypeOK, Entries
<1>2. Without(lruOrder, e.key) = lruOrder
  BY DEF Without, IndexAgrees
<1>3. \A f \in ToSet(lruOrder) : f.key # e.key
  BY SizeOfKey
<1>4. /\ w \in Seq(Entries) /\ HasEachKeyOnce(w)
      /\ ToSet(w) = {e} \union ToSet(lruOrder)
  BY <1>1, <1>2, <1>3, InFront DEF KeysOnce
<1>5. KeysOf(w) = lruOrderById \union {e.key}
  BY <1>4, KeysOfElements DEF IndexAgrees
<1>6. TotalSize(w) = TotalSize(lruOrder) + e.size
  BY <1>1, <1>3, <1>4, OneMoreElement
<1>7. QED
  BY <1>4, <1>5, <1>6 DEF IndexAgrees

\* A file less leaves the others.
LEMMA FileGone ==
  ASSUME TypeOK, KeysOnce, NEW k
  PROVE  /\ Without(files, k) \in Seq(ImageFiles)
         /\ HasEachKeyOnce(Without(files, k))
         /\ ToSet(Without(files, k)) = {f \in ToSet(files) : f.key # k}
BY WithoutKey DEF TypeOK, ImageFiles, KeysOnce

-----------------------------------------------------------------------------
(* The index and the files.                                                *)

\* The parts of the invariant about the files and the index.
IndexPart ==
  /\ files \in Seq(ImageFiles) /\ lruOrder \in Seq(Entries)
  /\ lruOrderById \subseteq Keys /\ currentSize \in Nat
  /\ KeysOnce /\ IndexAgrees /\ FilesIndexed

LEMMA IndexPartNow ==
  ASSUME TypeOK, KeysOnce, IndexAgrees, FilesIndexed
  PROVE  IndexPart
BY DEF TypeOK, IndexPart, Entries, ImageFiles

\* What is left to show of the next state's index.
LEMMA IndexPartNext ==
  ASSUME files' \in Seq(ImageFiles), HasEachKeyOnce(files'),
         lruOrder' \in Seq(Entries), HasEachKeyOnce(lruOrder'),
         lruOrderById' = KeysOf(lruOrder'), currentSize' = TotalSize(lruOrder'),
         FilesIndexed'
  PROVE  IndexPart'
<1>1. currentSize' \in Nat
  <2>1. \A e \in Entries : e.size \in Nat
    BY DEF Entries
  <2>2. QED
    BY <2>1, BytesFinite
<1>2. \A e \in ToSet(lruOrder') : e \in Entries
  BY LenProperties, ElementOfSeq DEF ToSet
<1>3. lruOrderById' \subseteq Keys
  BY <1>2, KeysOfElements DEF Entries
<1>4. QED
  BY <1>1, <1>3 DEF IndexPart, KeysOnce, IndexAgrees

\* get of a file that is whole.
LEMMA IndexPartGetHit ==
  ASSUME TypeOK, IndexPart, NEW k \in Keys, GetHit(k)
  PROVE  IndexPart' /\ currentSize' = currentSize
<1> USE DEF IndexPart
<1>1. CASE k \notin lruOrderById
  BY <1>1 DEF GetHit, diskVars, historyVars, KeysOnce, IndexAgrees, FilesIndexed
<1>2. CASE k \in lruOrderById
  <2>1. PICK e \in ToSet(lruOrder) : e.key = k
    BY <1>2, SizeOfKey
  <2>2. lruOrder' = <<e>> \o Without(lruOrder, e.key)
    BY <1>2, <2>1, EntryOfKey DEF GetHit
  <2>3. /\ lruOrder' \in Seq(Entries) /\ HasEachKeyOnce(lruOrder')
        /\ ToSet(lruOrder') = ToSet(lruOrder)
        /\ KeysOf(lruOrder') = lruOrderById /\ TotalSize(lruOrder') = currentSize
    BY <2>1, <2>2, MovedToFront
  <2>4. UNCHANGED <<files, overlooked, process, lruOrderById, currentSize>>
    BY DEF GetHit, diskVars, historyVars
  <2>5. FilesIndexed'
    BY <2>3, <2>4 DEF FilesIndexed
  <2>6. QED
    BY <2>3, <2>4, <2>5, IndexPartNext DEF KeysOnce
<1>3. QED
  BY <1>1, <1>2

\* A key leaves the index, its file being gone, going with it or overlooked.
LEMMA IndexPartForget ==
  ASSUME TypeOK, IndexPart, NEW k, process' = process,
         lruOrder' = Without(lruOrder, k), lruOrderById' = lruOrderById \ {k},
         currentSize' = currentSize - SizeInIndex(k),
         overlooked \subseteq overlooked',
         \/ files' = files /\ (k \notin KeysOf(files) \/ k \in overlooked')
         \/ files' = Without(files, k)
  PROVE  IndexPart' /\ currentSize' <= currentSize
<1> USE DEF IndexPart
<1>1. /\ files' \in Seq(ImageFiles) /\ HasEachKeyOnce(files')
      /\ \A f \in ToSet(files') : f \in ToSet(files) /\ (f.key # k \/ k \in overlooked')
  BY FileGone, KeysOfElements DEF KeysOnce
<1>2. FilesIndexed'
  BY <1>1, Forgotten DEF FilesIndexed
<1>3. QED
  BY <1>1, <1>2, Forgotten, IndexPartNext DEF TypeOK

LEMMA RemoveEntryForgets ==
  ASSUME TypeOK, KeysOnce, IndexAgrees, NEW k, RemoveEntry(k)
  PROVE  currentSize' = currentSize - SizeInIndex(k)
<1>1. SizeInIndex(k) \in 0..currentSize /\ currentSize \in Nat
  BY Forgotten DEF TypeOK
<1>2. AtMost(currentSize, SizeInIndex(k)) = SizeInIndex(k)
  BY <1>1 DEF AtMost
<1>3. QED
  BY <1>2 DEF RemoveEntry

\* A turn of the eviction loop.
LEMMA IndexPartEvict ==
  ASSUME TypeOK, IndexPart, EvictFile \/ SkipMissingFile
  PROVE  IndexPart' /\ currentSize' <= currentSize
<1> DEFINE e == lruOrder[Victim]
<1>1. e \in ToSet(lruOrder)
  <2>1. Victim \in 1..Len(lruOrder) /\ DOMAIN lruOrder = 1..Len(lruOrder)
    BY LenProperties DEF IndexPart, EvictFile, SkipMissingFile, Victim
  <2>2. QED
    BY <2>1 DEF ToSet
<1>2. CASE EvictFile
  <2>1. SizeInIndex(e.key) = e.size
    BY <1>1, EntryOfKey, KeysOfElements DEF IndexPart, IndexAgrees, SizeInIndex
  <2>2. /\ process' = process
        /\ lruOrder' = Without(lruOrder, e.key)
        /\ lruOrderById' = lruOrderById \ {e.key}
        /\ currentSize' = currentSize - e.size
        /\ files' = Without(files, e.key) /\ overlooked' = overlooked
    BY <1>2 DEF EvictFile, historyVars
  <2> HIDE DEF e
  <2>3. QED
    BY <2>1, <2>2, IndexPartForget
<1>3. CASE SkipMissingFile
  <2>1. /\ lruOrder' = <<e>> \o Without(lruOrder, e.key)
        /\ UNCHANGED <<files, overlooked, process, lruOrderById, currentSize>>
    BY <1>3 DEF SkipMissingFile, diskVars, historyVars
  <2> HIDE DEF e
  <2>2. /\ lruOrder' \in Seq(Entries) /\ HasEachKeyOnce(lruOrder')
        /\ ToSet(lruOrder') = ToSet(lruOrder)
        /\ KeysOf(lruOrder') = lruOrderById /\ TotalSize(lruOrder') = currentSize
    BY <1>1, <2>1, MovedToFront DEF IndexPart
  <2>3. FilesIndexed'
    BY <2>1, <2>2 DEF FilesIndexed, IndexPart
  <2>4. QED
    BY <2>1, <2>2, <2>3, IndexPartNext DEF IndexPart, KeysOnce
<1>4. QED
  BY <1>2, <1>3

\* The new file and its entry come in.
LEMMA IndexPartRename ==
  ASSUME TypeOK, IndexPart, Rename, request \in Keys, request \notin lruOrderById
  PROVE  IndexPart' /\ currentSize' = currentSize + FileSize[request]
<1> DEFINE f == [key |-> request, size |-> FileSize[request], whole |-> TRUE]
           e == [key |-> request, size |-> FileSize[request]]
<1>1. FileSize[request] \in Nat \ {0}
  BY DiskCacheAssumption
<1>2. /\ f \in ImageFiles /\ f.key = request /\ f.size = FileSize[request]
      /\ e \in Entries /\ e.key = request /\ e.size = FileSize[request]
  BY <1>1 DEF ImageFiles, Entries
<1>3. /\ files' = <<f>> \o Without(files, f.key)
      /\ lruOrder' = <<e>> \o Without(lruOrder, e.key)
      /\ lruOrderById' = lruOrderById \union {e.key}
      /\ currentSize' = currentSize + e.size
      /\ process' = process /\ overlooked' = overlooked \ {request}
  BY DEF Rename, SizeInIndex, IndexPart
<1> HIDE DEF f, e
<1>4. /\ files' \in Seq(ImageFiles) /\ HasEachKeyOnce(files')
      /\ ToSet(files') = {f} \union ToSet(Without(files, f.key))
  BY <1>2, <1>3, FileGone, InFront DEF IndexPart
<1>5. /\ lruOrder' \in Seq(Entries) /\ HasEachKeyOnce(lruOrder')
      /\ ToSet(lruOrder') = {e} \union ToSet(lruOrder)
      /\ KeysOf(lruOrder') = lruOrderById \union {e.key}
      /\ TotalSize(lruOrder') = currentSize + e.size
  BY <1>2, <1>3, NewEntry DEF IndexPart
<1>6. FilesIndexed'
  <2>1. e.key = f.key /\ e.size >= f.size
    BY <1>1, <1>2
  <2>2. \A g \in ToSet(files') : g = f \/ (g \in ToSet(files) /\ g.key # request)
    BY <1>2, <1>4, FileGone DEF IndexPart
  <2>3. QED
    BY <1>3, <1>5, <2>1, <2>2 DEF IndexPart, FilesIndexed
<1>7. QED
  BY <1>2, <1>3, <1>4, <1>5, <1>6, IndexPartNext

LEMMA EmptyList ==
  /\ \A S : <<>> \in Seq(S)
  /\ HasEachKeyOnce(<<>>) /\ ToSet(<<>>) = {} /\ KeysOf(<<>>) = {} /\ TotalSize(<<>>) = 0
<1>1. ToSet(<<>>) = {} /\ KeysOf(<<>>) = {} /\ Bytes(<<>>) = {}
  BY DEF ToSet, KeysOf, Bytes
<1>2. TotalSize(<<>>) = 0
  BY <1>1, FS_EmptySet DEF TotalSize
<1>3. QED
  BY <1>1, <1>2 DEF HasEachKeyOnce

\* The constructor's index has files that are there, and has each once.
LEMMA IndexPartConstruct ==
  ASSUME TypeOK, IndexPart, Construct
  PROVE  IndexPart' /\ files' = files
<1>1. /\ files \in Seq(ImageFiles) /\ HasEachKeyOnce(files) /\ files' = files
      /\ lruOrderById' = KeysOf(lruOrder') /\ currentSize' = TotalSize(lruOrder')
      /\ overlooked' = KeysOf(files) \ KeysOf(lruOrder')
  BY DEF IndexPart, KeysOnce, Construct, diskVars
<1>2. /\ Len(files) \in Nat /\ DOMAIN files = 1..Len(files)
      /\ \A i \in 1..Len(files) : files[i] \in ImageFiles
  BY <1>1, LenProperties, ElementOfSeq
<1>3. PICK n \in Nat : \E place \in [1..n -> DOMAIN files] :
        /\ \A i, j \in 1..n : i < j => place[i] < place[j]
        /\ Index(n, place)
  <2> DEFINE N == 0..Len(files)
  <2>1. N \subseteq Nat
    BY <1>2
  <2>2. \E n \in N : \E place \in [1..n -> DOMAIN files] :
          /\ \A i, j \in 1..n : i < j => place[i] < place[j]
          /\ Index(n, place)
    BY DEF Construct
  <2> HIDE DEF N
  <2>3. QED
    BY <2>1, <2>2
<1>4. PICK place \in [1..n -> DOMAIN files] :
        /\ \A i, j \in 1..n : i < j => place[i] < place[j]
        /\ Index(n, place)
  BY <1>3
<1>5. ASSUME NEW i \in 1..n
      PROVE  /\ place[i] \in DOMAIN files /\ place[i] \in Int /\ lruOrder'[i] \in Entries
             /\ lruOrder'[i].key = files[place[i]].key
             /\ lruOrder'[i].size = files[place[i]].size
  <2>1. place[i] \in DOMAIN files /\ place[i] \in Int /\ files[place[i]] \in ImageFiles
    BY <1>2
  <2>2. lruOrder'[i] = [key |-> files[place[i]].key, size |-> files[place[i]].size]
    BY <1>4 DEF Index
  <2>3. QED
    BY <2>1, <2>2 DEF ImageFiles, Entries
<1>6. DOMAIN lruOrder' = 1..n /\ lruOrder' \in Seq(Entries)
  <2>1. lruOrder' \in [1..n -> Entries]
    BY <1>4, <1>5 DEF Index
  <2>2. QED
    BY <2>1, SeqDef
<1>7. HasEachKeyOnce(lruOrder')
  <2> SUFFICES ASSUME NEW i \in 1..n, NEW j \in 1..n, lruOrder'[i].key = lruOrder'[j].key
               PROVE  i = j
    BY <1>6 DEF HasEachKeyOnce
  <2>1. place[i] = place[j]
    BY <1>1, <1>5 DEF HasEachKeyOnce
  <2>2. ~ (i < j) /\ ~ (j < i)
    BY <1>4, <1>5, <2>1
  <2>3. QED
    BY <2>2
<1>8. FilesIndexed'
  <2> SUFFICES ASSUME NEW f \in ToSet(files), f.key \in KeysOf(lruOrder')
               PROVE  \E e \in ToSet(lruOrder') : e.key = f.key /\ e.size >= f.size
    BY <1>1, KeysOfElements DEF FilesIndexed
  <2>1. PICK p \in DOMAIN files : f = files[p]
    BY DEF ToSet
  <2>2. PICK i \in 1..n : lruOrder'[i].key = f.key
    BY <1>6 DEF KeysOf
  <2>3. place[i] = p
    BY <1>1, <1>5, <2>1, <2>2 DEF HasEachKeyOnce
  <2>4. lruOrder'[i] \in ToSet(lruOrder') /\ f.size \in Nat
    BY <1>2, <1>6, <2>1 DEF ToSet, ImageFiles
  <2>5. QED
    BY <1>5, <2>1, <2>2, <2>3, <2>4
<1>9. QED
  BY <1>1, <1>6, <1>7, <1>8, IndexPartNext

LEMMA CutFile ==
  ASSUME NEW f \in ImageFiles
  PROVE  [f EXCEPT !.size = 1, !.whole = FALSE] \in ImageFiles
<1>1. [f EXCEPT !.size = 1] \in ImageFiles
  BY DEF ImageFiles
<1>2. \A g \in ImageFiles : [g EXCEPT !.whole = FALSE] \in ImageFiles
  BY DEF ImageFiles
<1>3. [f EXCEPT !.size = 1, !.whole = FALSE] = [[f EXCEPT !.size = 1] EXCEPT !.whole = FALSE]
  BY DEF ImageFiles
<1>4. QED
  BY <1>1, <1>2, <1>3

\* What a crash leaves of the files takes no more room than before.
LEMMA IndexPartCrash ==
  ASSUME TypeOK, IndexPart, Crash
  PROVE  IndexPart' /\ Bytes(files') \subseteq Bytes(files)
<1>1. PICK cut \in SUBSET KeysOf(files) :
        files' = [i \in DOMAIN files |->
                    IF files[i].key \in cut
                    THEN [files[i] EXCEPT !.size = 1, !.whole = FALSE] ELSE files[i]]
  BY DEF Crash
<1>2. /\ files \in Seq(ImageFiles) /\ Len(files) \in Nat /\ DOMAIN files = 1..Len(files)
      /\ \A i \in DOMAIN files : files[i] \in ImageFiles
  BY LenProperties, ElementOfSeq DEF IndexPart
<1>3. DOMAIN files' = DOMAIN files
  BY <1>1
<1>4. ASSUME NEW i \in DOMAIN files
      PROVE  /\ files'[i] \in ImageFiles /\ files'[i].key = files[i].key
             /\ files'[i].size \in Nat /\ files[i].size >= files'[i].size
  <2>1. files'[i] = IF files[i].key \in cut
                    THEN [files[i] EXCEPT !.size = 1, !.whole = FALSE] ELSE files[i]
    BY <1>1
  <2>2. files[i] \in ImageFiles
    BY <1>2
  <2>3. files[i].size \in Nat /\ files[i].size >= 1
    BY <2>2 DEF ImageFiles
  <2>4. CASE files[i].key \in cut
    <3>1. files'[i] = [files[i] EXCEPT !.size = 1, !.whole = FALSE]
      BY <2>1, <2>4
    <3>2. files'[i] \in ImageFiles
      BY <2>2, <3>1, CutFile
    <3>3. files'[i].key = files[i].key /\ files'[i].size = 1
      BY <2>2, <3>1 DEF ImageFiles
    <3>4. QED
      BY <2>3, <3>2, <3>3
  <2>5. CASE files[i].key \notin cut
    BY <2>1, <2>2, <2>3, <2>5
  <2>6. QED
    BY <2>4, <2>5
<1>5. files' \in Seq(ImageFiles)
  <2>1. files' \in [1..Len(files) -> ImageFiles]
    BY <1>1, <1>2, <1>3, <1>4
  <2>2. QED
    BY <1>2, <2>1, SeqDef
<1>6. HasEachKeyOnce(files')
  BY <1>3, <1>4 DEF HasEachKeyOnce, IndexPart, KeysOnce
<1>7. Bytes(files') \subseteq Bytes(files)
  <2>1. ASSUME NEW i \in DOMAIN files
        PROVE  {files'[i].key} \X (1..files'[i].size) \subseteq Bytes(files)
    <3>1. files[i].size \in Nat
      BY <1>2 DEF ImageFiles
    <3>2. 1..files'[i].size \subseteq 1..files[i].size
      BY <1>4, <3>1
    <3>3. {files'[i].key} \X (1..files'[i].size) \subseteq {files[i].key} \X (1..files[i].size)
      BY <1>4, <3>2
    <3>4. QED
      BY <3>3 DEF Bytes
  <2>2. QED
    BY <1>3, <2>1 DEF Bytes
<1>8. /\ process' = "down" /\ lruOrder' = <<>> /\ lruOrderById' = {} /\ currentSize' = 0
  BY DEF Crash, NothingKnown
<1>9. IndexPart'
  BY <1>5, <1>6, <1>8, EmptyList, IndexPartNext DEF FilesIndexed
<1>10. QED
  BY <1>7, <1>9

\* Each step keeps the index and the files in agreement.
LEMMA IndexPartStep ==
  ASSUME IInv, [Next]_vars
  PROVE  IndexPart'
<1>1. TypeOK /\ IndexPart
  BY IndexPartNow DEF IInv
<1>2. CASE UNCHANGED <<files, overlooked, process, indexVars>>
  BY <1>1, <1>2 DEF IndexPart, indexVars, KeysOnce, IndexAgrees, FilesIndexed
<1>3. ASSUME NEW k \in Keys, Enqueue(k) \/ GetHit(k) \/ GetMissing(k) \/ GetInvalid(k) \/ Vanish(k)
      PROVE  IndexPart'
  <2>1. CASE Enqueue(k)
    BY <1>2, <2>1 DEF Enqueue, diskVars, historyVars
  <2>2. CASE GetHit(k)
    BY <1>1, <2>2, IndexPartGetHit
  <2>3. CASE GetMissing(k) \/ GetInvalid(k)
    <3>1. RemoveEntry(k) /\ process' = process
      BY <2>3 DEF GetMissing, GetInvalid
    <3>2. currentSize' = currentSize - SizeInIndex(k)
      BY <1>1, <3>1, RemoveEntryForgets DEF IndexPart
    <3>3. /\ overlooked \subseteq overlooked'
          /\ \/ files' = files /\ (k \notin KeysOf(files) \/ k \in overlooked')
             \/ files' = Without(files, k)
      BY <2>3 DEF GetMissing, GetInvalid, diskVars, historyVars
    <3>4. QED
      BY <1>1, <3>1, <3>2, <3>3, IndexPartForget DEF RemoveEntry
  <2>4. CASE Vanish(k)
    <3>1. /\ files' \in Seq(ImageFiles) /\ HasEachKeyOnce(files')
          /\ ToSet(files') \subseteq ToSet(files)
      BY <1>1, <2>4, FileGone DEF Vanish, IndexPart
    <3>2. UNCHANGED <<overlooked, process, lruOrder, lruOrderById, currentSize>>
      BY <2>4 DEF Vanish, indexVars, historyVars
    <3>3. QED
      BY <1>1, <3>1, <3>2 DEF IndexPart, KeysOnce, IndexAgrees, FilesIndexed
  <2>5. QED
    BY <1>3, <2>1, <2>2, <2>3, <2>4
<1>4. CASE Dequeue \/ PutFails \/ WriteTemporary \/ EndEviction \/ RemoveQueuedId \/ Destruct
           \/ UNCHANGED vars
  BY <1>2, <1>4 DEF Dequeue, PutFails, WriteTemporary, EndEviction, RemoveQueuedId,
                    Destruct, vars, diskVars, historyVars
<1>5. CASE EvictFile \/ SkipMissingFile
  BY <1>1, <1>5, IndexPartEvict
<1>6. CASE Rename
  <2>1. request \in Keys /\ request \notin lruOrderById
    BY <1>6 DEF IInv, Rename, QueuedOnce, TypeOK, RequestOnce
  <2>2. QED
    BY <1>1, <1>6, <2>1, IndexPartRename
<1>7. CASE RenameFails
  <2>1. /\ files' \in Seq(ImageFiles) /\ HasEachKeyOnce(files')
        /\ ToSet(files') \subseteq ToSet(files)
    BY <1>1, <1>7, FileGone DEF RenameFails, IndexPart, KeysOnce
  <2>2. UNCHANGED <<overlooked, process, lruOrder, lruOrderById, currentSize>>
    BY <1>7 DEF RenameFails, indexVars, historyVars
  <2>3. QED
    BY <1>1, <2>1, <2>2 DEF IndexPart, KeysOnce, IndexAgrees, FilesIndexed
<1>8. CASE EndWorker
  <2>1. /\ process' = "down" /\ lruOrder' = <<>> /\ lruOrderById' = {} /\ currentSize' = 0
        /\ files' = files
    BY <1>8 DEF EndWorker, NothingKnown, diskVars
  <2>2. QED
    BY <1>1, <2>1, EmptyList, IndexPartNext DEF IndexPart, KeysOnce, FilesIndexed
<1>9. CASE Construct
  BY <1>1, <1>9, IndexPartConstruct
<1>10. CASE Crash
  BY <1>1, <1>10, IndexPartCrash
<1>11. QED
  BY <1>3, <1>4, <1>5, <1>6, <1>7, <1>8, <1>9, <1>10 DEF Next, WorkerStep

-----------------------------------------------------------------------------
(* The queue and its worker.                                               *)

QueuePart ==
  /\ writeQueue \in Seq(Keys) /\ queuedIds \subseteq Keys /\ stopping \in BOOLEAN
  /\ worker \in WorkerStates /\ request \in Keys \union {NoKey}
  /\ process \in {"running", "down"}
  /\ QueuedOnce /\ RequestOnce /\ DownIsBlank

\* A step that takes nothing up and adds nothing to the index.
LEMMA QueuePartFrame ==
  ASSUME QueuePart, process = "running", UNCHANGED <<queueVars, process, request>>,
         lruOrderById' \subseteq lruOrderById,
         \/ worker' = worker
         \/ worker # "idle" /\ worker' = "release"
         \/ worker \in {"put", "evicting"} /\ worker' \in {"evicting", "renaming"}
  PROVE  QueuePart'
BY DEF QueuePart, queueVars, QueuedOnce, RequestOnce, DownIsBlank, WorkerStates

LEMMA QueuePartEnqueue ==
  ASSUME QueuePart, NEW k \in Keys, Enqueue(k)
  PROVE  QueuePart'
<1> USE DEF QueuePart
<1>1. /\ writeQueue' = Append(writeQueue, k) /\ queuedIds' = queuedIds \union {k}
      /\ k \notin lruOrderById /\ k \notin queuedIds /\ process = "running"
      /\ UNCHANGED <<process, lruOrderById, stopping, worker, request>>
  BY DEF Enqueue, indexVars, workerVars
<1>2. Len(writeQueue) \in Nat /\ DOMAIN writeQueue = 1..Len(writeQueue)
  BY LenProperties
<1>3. /\ writeQueue' \in Seq(Keys) /\ DOMAIN writeQueue' = 1..(Len(writeQueue) + 1)
      /\ \A i \in 1..Len(writeQueue) : writeQueue'[i] = writeQueue[i]
      /\ writeQueue'[Len(writeQueue) + 1] = k
  BY <1>1, AppendProperties, LenProperties
<1>4. \A i \in DOMAIN writeQueue' :
        i \in DOMAIN writeQueue \/ i = Len(writeQueue) + 1
  BY <1>2, <1>3
<1>5. (\A i \in DOMAIN writeQueue : writeQueue[i] # k) /\ request # k
  BY <1>1, DiskCacheAssumption DEF QueuedOnce, ToSet
<1>6. ToSet(writeQueue') = ToSet(writeQueue) \union {k}
  BY <1>2, <1>3, <1>4 DEF ToSet
<1>7. QueuedOnce'
  <2>1. \A i \in DOMAIN writeQueue' : writeQueue'[i] \notin lruOrderById'
    BY <1>1, <1>2, <1>3, <1>4 DEF QueuedOnce
  <2>2. \A i, j \in DOMAIN writeQueue' : writeQueue'[i] = writeQueue'[j] => i = j
    BY <1>2, <1>3, <1>4, <1>5 DEF QueuedOnce
  <2>3. queuedIds' = ToSet(writeQueue') \union ({request'} \ {NoKey})
    BY <1>1, <1>6 DEF QueuedOnce
  <2>4. QED
    BY <1>1, <2>1, <2>2, <2>3 DEF QueuedOnce
<1>8. RequestOnce'
  <2>1. \A i \in DOMAIN writeQueue' : writeQueue'[i] # request'
    BY <1>1, <1>2, <1>3, <1>4, <1>5 DEF RequestOnce
  <2>2. QED
    BY <1>1, <2>1 DEF RequestOnce
<1>9. QED
  BY <1>1, <1>3, <1>7, <1>8 DEF DownIsBlank

LEMMA QueuePartDequeue ==
  ASSUME QueuePart, Dequeue
  PROVE  QueuePart'
<1> USE DEF QueuePart
<1>1. /\ writeQueue # <<>> /\ request' = Head(writeQueue) /\ writeQueue' = Tail(writeQueue)
      /\ worker = "idle" /\ worker' = "put" /\ process = "running"
      /\ UNCHANGED <<process, lruOrderById, queuedIds, stopping>>
  BY DEF Dequeue, indexVars
<1>2. Len(writeQueue) \in Nat \ {0} /\ DOMAIN writeQueue = 1..Len(writeQueue)
  BY <1>1, LenProperties, EmptySeq
<1>3. /\ request' = writeQueue[1] /\ request' \in Keys
      /\ writeQueue' \in Seq(Keys) /\ DOMAIN writeQueue' = 1..(Len(writeQueue) - 1)
      /\ \A i \in 1..(Len(writeQueue) - 1) : writeQueue'[i] = writeQueue[i + 1]
  BY <1>1, <1>2, HeadTailProperties, LenProperties
<1>4. \A i \in DOMAIN writeQueue' : i + 1 \in DOMAIN writeQueue /\ i + 1 # 1
  BY <1>2, <1>3
<1>5. \A i \in DOMAIN writeQueue : i # 1 => i - 1 \in DOMAIN writeQueue' /\ (i - 1) + 1 = i
  BY <1>2, <1>3
<1>6. ToSet(writeQueue) = ToSet(writeQueue') \union {request'}
  <2>1. \A i \in DOMAIN writeQueue : writeQueue[i] \in ToSet(writeQueue') \union {request'}
    BY <1>2, <1>3, <1>5 DEF ToSet
  <2>2. \A i \in DOMAIN writeQueue' : writeQueue'[i] \in ToSet(writeQueue)
    BY <1>3, <1>4 DEF ToSet
  <2>3. request' \in ToSet(writeQueue)
    BY <1>2, <1>3 DEF ToSet
  <2>4. QED
    BY <2>1, <2>2, <2>3 DEF ToSet
<1>7. QueuedOnce'
  <2>1. \A i \in DOMAIN writeQueue' : writeQueue'[i] \notin lruOrderById'
    BY <1>1, <1>3, <1>4 DEF QueuedOnce
  <2>2. \A i, j \in DOMAIN writeQueue' : writeQueue'[i] = writeQueue'[j] => i = j
    <3> SUFFICES ASSUME NEW i \in DOMAIN writeQueue', NEW j \in DOMAIN writeQueue',
                        writeQueue'[i] = writeQueue'[j]
                 PROVE  i = j
      OBVIOUS
    <3>1. i + 1 = j + 1
      BY <1>3, <1>4 DEF QueuedOnce
    <3>2. QED
      BY <1>2, <1>3, <3>1
  <2>3. request = NoKey
    BY <1>1 DEF RequestOnce
  <2>4. queuedIds' = ToSet(writeQueue') \union ({request'} \ {NoKey})
    BY <1>1, <1>3, <1>6, <2>3, DiskCacheAssumption DEF QueuedOnce
  <2>5. request' \notin lruOrderById'
    BY <1>1, <1>2, <1>3 DEF QueuedOnce
  <2>6. QED
    BY <2>1, <2>2, <2>4, <2>5 DEF QueuedOnce
<1>8. RequestOnce'
  <2>1. \A i \in DOMAIN writeQueue' : writeQueue'[i] # request'
    BY <1>2, <1>3, <1>4 DEF QueuedOnce
  <2>2. QED
    BY <1>1, <1>3, <2>1, DiskCacheAssumption DEF RequestOnce
<1>9. QED
  BY <1>1, <1>3, <1>7, <1>8 DEF DownIsBlank, WorkerStates

\* What the process knew is forgotten with it.
LEMMA QueuePartBlank ==
  ASSUME NothingKnown, process' = "down"
  PROVE  QueuePart'
<1>1. /\ writeQueue' = <<>> /\ queuedIds' = {} /\ stopping' = FALSE
      /\ worker' = "idle" /\ request' = NoKey /\ lruOrder' = <<>> /\ lruOrderById' = {}
      /\ currentSize' = 0
  BY DEF NothingKnown
<1>2. DOMAIN writeQueue' = {} /\ ToSet(writeQueue') = {}
  BY <1>1, EmptyList DEF ToSet
<1>3. QueuedOnce' /\ RequestOnce' /\ DownIsBlank'
  BY <1>1, <1>2 DEF QueuedOnce, RequestOnce, DownIsBlank
<1>4. writeQueue' \in Seq(Keys)
  BY <1>1, EmptySeq
<1>5. QED
  BY <1>1, <1>3, <1>4 DEF QueuePart, WorkerStates

LEMMA QueuePartStep ==
  ASSUME IInv, [Next]_vars
  PROVE  QueuePart'
<1>1. QueuePart
  BY DEF IInv, QueuePart, TypeOK
<1>2. worker # "idle" => process = "running"
  BY <1>1 DEF QueuePart, DownIsBlank
<1>3. ASSUME NEW k \in Keys, GetHit(k) \/ GetMissing(k) \/ GetInvalid(k) \/ Vanish(k)
      PROVE  QueuePart'
  <2>1. process = "running"
    BY <1>3 DEF GetHit, GetMissing, GetInvalid, Vanish, Getting
  <2>2. UNCHANGED <<queueVars, process, request, worker>>
    BY <1>3 DEF GetHit, GetMissing, GetInvalid, Vanish, RemoveEntry, workerVars
  <2>3. lruOrderById' \subseteq lruOrderById
    BY <1>3 DEF GetHit, GetMissing, GetInvalid, Vanish, RemoveEntry, indexVars
  <2>4. QED
    BY <1>1, <2>1, <2>2, <2>3, QueuePartFrame
<1>4. ASSUME NEW k \in Keys, Enqueue(k)
      PROVE  QueuePart'
  BY <1>1, <1>4, QueuePartEnqueue
<1>5. CASE Dequeue
  BY <1>1, <1>5, QueuePartDequeue
<1>6. CASE PutFails \/ WriteTemporary \/ EvictFile \/ SkipMissingFile \/ EndEviction
           \/ RenameFails
  <2>1. /\ process = "running"
        /\ UNCHANGED <<queueVars, process, request>>
    BY <1>2, <1>6 DEF PutFails, WriteTemporary, EvictFile, SkipMissingFile, EndEviction,
         RenameFails, workerVars
  <2>2. lruOrderById' \subseteq lruOrderById
    BY <1>6 DEF PutFails, WriteTemporary, EvictFile, SkipMissingFile, EndEviction,
         RenameFails, indexVars
  <2>3. \/ worker' = worker
        \/ worker # "idle" /\ worker' = "release"
        \/ worker \in {"put", "evicting"} /\ worker' \in {"evicting", "renaming"}
    BY <1>6 DEF PutFails, WriteTemporary, EvictFile, SkipMissingFile, EndEviction,
         RenameFails, workerVars
  <2>4. QED
    BY <1>1, <2>1, <2>2, <2>3, QueuePartFrame
<1>7. CASE Rename
  <2>1. /\ UNCHANGED <<writeQueue, queuedIds, stopping, process, request>>
        /\ worker' = "release" /\ worker = "renaming"
        /\ lruOrderById' = lruOrderById \union {request}
    BY <1>7 DEF Rename, queueVars
  <2>2. \A i \in DOMAIN writeQueue : writeQueue[i] \notin lruOrderById'
    BY <1>1, <2>1 DEF QueuePart, QueuedOnce, RequestOnce
  <2>3. QED
    BY <1>1, <1>2, <2>1, <2>2 DEF QueuePart, QueuedOnce, RequestOnce, DownIsBlank, WorkerStates
<1>8. CASE RemoveQueuedId
  <2>1. /\ UNCHANGED <<lruOrderById, process, writeQueue, stopping>>
        /\ queuedIds' = queuedIds \ {request} /\ worker' = "idle" /\ request' = NoKey
        /\ worker = "release"
    BY <1>8 DEF RemoveQueuedId, indexVars
  <2>2. \A i \in DOMAIN writeQueue : writeQueue[i] # NoKey
    BY <1>1, DiskCacheAssumption, LenProperties, ElementOfSeq DEF QueuePart
  <2>3. request \notin ToSet(writeQueue)
    BY <1>1 DEF QueuePart, RequestOnce, ToSet
  <2>4. queuedIds' = ToSet(writeQueue')
    BY <1>1, <2>1, <2>2, <2>3 DEF QueuePart, QueuedOnce, ToSet
  <2>5. QED
    BY <1>1, <1>2, <2>1, <2>2, <2>4 DEF QueuePart, QueuedOnce, RequestOnce, DownIsBlank,
         WorkerStates
<1>9. CASE EndWorker \/ Crash
  BY <1>9, QueuePartBlank DEF EndWorker, Crash
<1>10. CASE Construct
  <2>1. /\ process' = "running" /\ process = "down"
        /\ UNCHANGED <<writeQueue, queuedIds, stopping, worker, request>>
    BY <1>10 DEF Construct, queueVars, workerVars
  <2>2. DOMAIN writeQueue = {} /\ worker = "idle"
    BY <1>1, <2>1 DEF QueuePart, DownIsBlank
  <2>3. QED
    BY <1>1, <2>1, <2>2 DEF QueuePart, QueuedOnce, RequestOnce, DownIsBlank
<1>11. CASE Destruct
  BY <1>1, <1>11 DEF Destruct, QueuePart, QueuedOnce, RequestOnce, DownIsBlank, indexVars,
       workerVars
<1>12. CASE UNCHANGED vars
  BY <1>1, <1>12 DEF vars, indexVars, queueVars, workerVars, QueuePart, QueuedOnce,
       RequestOnce, DownIsBlank
<1>13. QED
  BY <1>3, <1>4, <1>5, <1>6, <1>7, <1>8, <1>9, <1>10, <1>11, <1>12 DEF Next, WorkerStep

-----------------------------------------------------------------------------
(* Temporary files.                                                        *)

\* put leaves no temporary file behind, unless the process dies in it.
LEMMA TemporariesStep ==
  ASSUME IInv, [Next]_vars
  PROVE  temporaries' \subseteq Keys /\ leftovers' \subseteq Keys /\ TemporariesKnown'
<1>1. /\ temporaries \subseteq Keys /\ leftovers \subseteq Keys
      /\ request \in Keys \union {NoKey} /\ TemporariesKnown
      /\ worker = "idle" <=> request = NoKey
  BY DEF IInv, TypeOK, RequestOnce
<1>2. CASE UNCHANGED <<temporaries, leftovers, worker, request>>
  BY <1>1, <1>2 DEF TemporariesKnown, MutexFree
<1>3. CASE /\ UNCHANGED <<temporaries, leftovers>>
           /\ worker \notin {"evicting", "renaming"} /\ worker' \notin {"evicting", "renaming"}
  BY <1>1, <1>3 DEF TemporariesKnown, MutexFree
<1>4. CASE /\ temporaries' \subseteq temporaries /\ leftovers' = leftovers
           /\ worker' = "release"
           /\ worker \in {"evicting", "renaming"} => temporaries' = temporaries \ {request}
  BY <1>1, <1>4 DEF TemporariesKnown, MutexFree
<1>5. ASSUME NEW k \in Keys, Enqueue(k) \/ GetHit(k) \/ GetMissing(k) \/ GetInvalid(k) \/ Vanish(k)
      PROVE  UNCHANGED <<temporaries, leftovers, worker, request>>
  BY <1>5 DEF Enqueue, GetHit, GetMissing, GetInvalid, Vanish, diskVars, workerVars
<1>6. CASE EvictFile \/ SkipMissingFile \/ Construct \/ Destruct \/ UNCHANGED vars
  BY <1>2, <1>6 DEF EvictFile, SkipMissingFile, Construct, Destruct, vars, diskVars, workerVars
<1>7. CASE Dequeue \/ RemoveQueuedId \/ EndWorker
  BY <1>3, <1>7 DEF Dequeue, RemoveQueuedId, EndWorker, NothingKnown, diskVars
<1>8. CASE PutFails \/ Rename \/ RenameFails
  BY <1>4, <1>8 DEF PutFails, Rename, RenameFails
<1>9. CASE EndEviction
  <2>1. CASE ReachedTarget
    BY <1>1, <1>9, <2>1 DEF EndEviction, TemporariesKnown, MutexFree
  <2>2. CASE ~ ReachedTarget
    BY <1>4, <1>9, <2>2 DEF EndEviction
  <2>3. QED
    BY <2>1, <2>2
<1>10. CASE WriteTemporary
  <2>1. /\ temporaries' = temporaries \union {request} /\ worker = "put"
        /\ UNCHANGED <<leftovers, request>>
        /\ worker' \in {"evicting", "renaming"}
    BY <1>10 DEF WriteTemporary
  <2>2. QED
    BY <1>1, <2>1 DEF TemporariesKnown, MutexFree
<1>11. CASE Crash
  BY <1>1, <1>11 DEF Crash, NothingKnown, TemporariesKnown, MutexFree
<1>12. QED
  BY <1>2, <1>5, <1>6, <1>7, <1>8, <1>9, <1>10, <1>11 DEF Next, WorkerStep

-----------------------------------------------------------------------------
(* The quota.                                                              *)

LEMMA QuotaTypes ==
  ASSUME TypeOK
  PROVE  /\ maxSizeBytes \in Nat /\ inherited \in Nat /\ currentSize \in Nat
         /\ AtLeast(maxSizeBytes, inherited) \in Nat
         /\ maxSizeBytes <= AtLeast(maxSizeBytes, inherited)
BY DiskCacheAssumption DEF TypeOK, AtLeast

\* A step that adds nothing and starts no renaming.
LEMMA RoomFrame ==
  ASSUME TypeOK, RoomInIndex, currentSize' \in Nat, currentSize' <= currentSize,
         UNCHANGED <<maxSizeBytes, inherited>>,
         worker = "renaming" => request \in Keys,
         \/ worker' \notin {"evicting", "renaming"}
         \/ UNCHANGED <<worker, request>>
  PROVE  RoomInIndex'
<1>1. currentSize' <= AtLeast(maxSizeBytes', inherited')
  BY QuotaTypes DEF RoomInIndex
<1>2. CASE worker' \notin {"evicting", "renaming"}
  BY <1>1, <1>2 DEF RoomInIndex
<1>3. CASE UNCHANGED <<worker, request>>
  <2>1. worker = "renaming" => currentSize' + FileSize[request] <= maxSizeBytes
    BY QuotaTypes, DiskCacheAssumption DEF RoomInIndex
  <2>2. QED
    BY <1>1, <1>3, <2>1 DEF RoomInIndex
<1>4. QED
  BY <1>2, <1>3

\* The file is in the quota, and there is room beside the others or there will be.
LEMMA RoomToWrite ==
  ASSUME TypeOK, RoomInIndex, WriteTemporary, request \in Keys, request \notin lruOrderById
  PROVE  RoomInIndex'
<1>1. maxSizeBytes \in Nat /\ currentSize \in Nat /\ FileSize[request] \in Nat \ {0}
  BY QuotaTypes, DiskCacheAssumption
<1>2. SizeInIndex(request) = 0
  BY DEF SizeInIndex
<1>3. AtMost(currentSize, 0) = 0
  BY <1>1 DEF AtMost
<1>4. AdditionalBytes = FileSize[request]
  BY <1>1, <1>2 DEF AdditionalBytes
<1>5. Fits => currentSize + FileSize[request] <= maxSizeBytes
  BY <1>1, <1>2, <1>3 DEF Fits
<1>6. /\ UNCHANGED <<maxSizeBytes, inherited, currentSize, request>>
      /\ FileSize[request] <= maxSizeBytes
      /\ worker' = IF Fits \/ AdditionalBytes = 0 THEN "renaming" ELSE "evicting"
  BY DEF WriteTemporary, indexVars, historyVars
<1>7. QED
  BY <1>1, <1>4, <1>5, <1>6 DEF RoomInIndex

\* Evicting ends in renaming only when there is room.
LEMMA RoomMade ==
  ASSUME TypeOK, RoomInIndex, EndEviction, request \in Keys, request \notin lruOrderById
  PROVE  RoomInIndex'
<1>1. maxSizeBytes \in Nat /\ currentSize \in Nat /\ FileSize[request] \in Nat \ {0}
  BY QuotaTypes, DiskCacheAssumption
<1>2. SizeInIndex(request) = 0
  BY DEF SizeInIndex
<1>3. AtMost(currentSize, 0) = 0
  BY <1>1 DEF AtMost
<1>4. AdditionalBytes = FileSize[request]
  BY <1>1, <1>2 DEF AdditionalBytes
<1>5. ReachedTarget => currentSize + FileSize[request] <= maxSizeBytes
  <2>1. maxSizeBytes \div 10 \in Int
    BY <1>1
  <2>2. TargetSize <= maxSizeBytes - FileSize[request] /\ TargetSize \in Int
    BY <1>1, <1>4, <2>1 DEF TargetSize
  <2>3. QED
    BY <1>1, <1>2, <1>3, <2>2 DEF ReachedTarget
<1>6. /\ UNCHANGED <<maxSizeBytes, inherited, currentSize, request>> /\ worker = "evicting"
      /\ worker' = IF ReachedTarget THEN "renaming" ELSE "release"
  BY DEF EndEviction, indexVars, historyVars
<1>7. QED
  BY <1>1, <1>5, <1>6 DEF RoomInIndex

\* The quota and what a start finds.
LEMMA NextQuotaTypes ==
  ASSUME IInv, [Next]_vars
  PROVE  /\ overlooked' \subseteq Keys /\ inherited' \in Nat /\ maxSizeBytes' \in Quotas
         /\ AtLeast(maxSizeBytes', inherited') \in Nat
<1>1. TypeOK /\ maxSizeBytes \in Nat /\ inherited \in Nat
  BY QuotaTypes DEF IInv
<1>2. CASE UNCHANGED <<maxSizeBytes, inherited>> /\ overlooked' \subseteq Keys
  BY <1>1, <1>2 DEF TypeOK, AtLeast
<1>3. ASSUME NEW k \in Keys, Enqueue(k) \/ GetHit(k) \/ GetMissing(k) \/ GetInvalid(k) \/ Vanish(k)
      PROVE  UNCHANGED <<maxSizeBytes, inherited>> /\ overlooked' \subseteq Keys
  BY <1>1, <1>3 DEF Enqueue, GetHit, GetMissing, GetInvalid, Vanish, indexVars, historyVars, TypeOK
<1>4. CASE Dequeue \/ PutFails \/ WriteTemporary \/ EvictFile \/ SkipMissingFile \/ EndEviction
           \/ RenameFails \/ RemoveQueuedId \/ EndWorker \/ Destruct \/ Crash \/ UNCHANGED vars
  BY <1>1, <1>2, <1>4 DEF Dequeue, PutFails, WriteTemporary, EvictFile, SkipMissingFile,
       EndEviction, RenameFails, RemoveQueuedId, EndWorker, Destruct, Crash, vars, indexVars,
       historyVars, TypeOK
<1>5. CASE Rename
  BY <1>1, <1>5 DEF Rename, TypeOK, AtLeast
<1>6. CASE Construct
  <2>1. files \in Seq(ImageFiles)
    BY <1>1 DEF TypeOK, ImageFiles
  <2>2. \A i \in DOMAIN files : files[i].key \in Keys
    <3> SUFFICES ASSUME NEW i \in DOMAIN files
                 PROVE  files[i] \in ImageFiles
      BY DEF ImageFiles
    <3>1. QED
      BY <2>1, LenProperties, ElementOfSeq
  <2>3. overlooked' \subseteq Keys
    BY <1>6, <2>2 DEF Construct, KeysOf
  <2>4. currentSize' \in Nat
    BY IndexPartStep DEF IndexPart
  <2>5. QED
    BY <1>6, <2>3, <2>4, DiskCacheAssumption DEF Construct, AtLeast
<1>7. QED
  BY <1>2, <1>3, <1>4, <1>5, <1>6 DEF Next, WorkerStep

\* The index stays within the quota.
LEMMA RoomStep ==
  ASSUME IInv, [Next]_vars
  PROVE  RoomInIndex'
<1>1. TypeOK /\ RoomInIndex /\ IndexPart /\ currentSize \in Nat /\ maxSizeBytes \in Nat
  BY IndexPartNow, QuotaTypes DEF IInv
<1>2. currentSize' \in Nat
  BY IndexPartStep DEF IndexPart
<1>3. worker \in {"put", "evicting", "renaming"} => request \in Keys /\ request \notin lruOrderById
  BY DEF IInv, TypeOK, RequestOnce, QueuedOnce
<1>4. ASSUME NEW k \in Keys, Enqueue(k) \/ GetHit(k) \/ GetMissing(k) \/ GetInvalid(k) \/ Vanish(k)
      PROVE  RoomInIndex'
  <2>1. UNCHANGED <<worker, request, maxSizeBytes, inherited>>
    BY <1>4 DEF Enqueue, GetHit, GetMissing, GetInvalid, Vanish, workerVars, indexVars, historyVars
  <2>2. currentSize' <= currentSize
    <3>1. CASE Enqueue(k) \/ GetHit(k) \/ Vanish(k)
      BY <1>1, <3>1 DEF Enqueue, GetHit, Vanish, indexVars
    <3>2. CASE GetMissing(k) \/ GetInvalid(k)
      <4>1. currentSize' = currentSize - SizeInIndex(k)
        BY <1>1, <3>2, RemoveEntryForgets DEF GetMissing, GetInvalid, IndexPart
      <4>2. SizeInIndex(k) \in Nat
        BY <1>1, Forgotten DEF IndexPart
      <4>3. QED
        BY <1>1, <4>1, <4>2
    <3>3. QED
      BY <1>4, <3>1, <3>2
  <2>3. QED
    BY <1>1, <1>2, <2>1, <2>2, <1>3, RoomFrame
<1>5. CASE EvictFile \/ SkipMissingFile
  <2>1. currentSize' <= currentSize
    BY <1>1, <1>5, IndexPartEvict
  <2>2. UNCHANGED <<worker, request, maxSizeBytes, inherited>>
    BY <1>5 DEF EvictFile, SkipMissingFile, workerVars, historyVars
  <2>3. QED
    BY <1>1, <1>2, <2>1, <2>2, <1>3, RoomFrame
<1>6. CASE Dequeue \/ PutFails \/ RenameFails \/ RemoveQueuedId \/ Destruct \/ UNCHANGED vars
  <2>1. UNCHANGED <<currentSize, maxSizeBytes, inherited>>
    BY <1>6 DEF Dequeue, PutFails, RenameFails, RemoveQueuedId, Destruct, vars, indexVars,
         historyVars
  <2>2. worker' \notin {"evicting", "renaming"} \/ UNCHANGED <<worker, request>>
    BY <1>6 DEF Dequeue, PutFails, RenameFails, RemoveQueuedId, Destruct, vars, workerVars
  <2>3. QED
    BY <1>1, <1>2, <2>1, <2>2, <1>3, RoomFrame
<1>7. CASE EndWorker \/ Crash
  <2>1. currentSize' = 0 /\ worker' = "idle" /\ UNCHANGED <<maxSizeBytes, inherited>>
    BY <1>7 DEF EndWorker, Crash, NothingKnown, historyVars
  <2>2. QED
    BY <1>1, <1>2, <2>1, <1>3, RoomFrame
<1>8. CASE WriteTemporary
  <2>1. worker = "put"
    BY <1>8 DEF WriteTemporary
  <2>2. QED
    BY <1>1, <1>3, <1>8, <2>1, RoomToWrite
<1>9. CASE EndEviction
  <2>1. worker = "evicting"
    BY <1>9 DEF EndEviction
  <2>2. QED
    BY <1>1, <1>3, <1>9, <2>1, RoomMade
<1>10. CASE Rename
  <2>1. /\ worker = "renaming" /\ worker' = "release"
        /\ maxSizeBytes' = maxSizeBytes /\ inherited' = 0
    BY <1>10 DEF Rename
  <2>2. currentSize' = currentSize + FileSize[request]
    BY <1>1, <1>3, <1>10, <2>1, IndexPartRename
  <2>3. QED
    BY <1>1, <2>1, <2>2 DEF RoomInIndex, AtLeast
<1>11. CASE Construct
  <2>1. /\ maxSizeBytes' \in Nat
        /\ inherited' = IF currentSize' > maxSizeBytes' THEN currentSize' ELSE 0
    BY <1>11, DiskCacheAssumption DEF Construct
  <2>2. worker' = "idle"
    BY <1>11 DEF Construct, workerVars, IInv, DownIsBlank
  <2>3. QED
    BY <1>2, <2>1, <2>2 DEF RoomInIndex, AtLeast
<1>12. QED
  BY <1>4, <1>5, <1>6, <1>7, <1>8, <1>9, <1>10, <1>11 DEF Next, WorkerStep

\* The bytes of files that were not overlooked.
Counted == {b \in Bytes(files) : b[1] \notin overlooked}

\* They are in an index that has the files.
LEMMA CountedInIndex ==
  ASSUME NEW s \in Seq(ImageFiles), NEW t \in Seq(Entries), NEW O,
         \A f \in ToSet(s) :
           f.key \in O \/ \E e \in ToSet(t) : e.key = f.key /\ e.size >= f.size
  PROVE  {b \in Bytes(s) : b[1] \notin O} \subseteq Bytes(t)
<1> SUFFICES ASSUME NEW f \in ToSet(s), NEW b \in BytesOf(f), b[1] \notin O
             PROVE  b \in Bytes(t)
  BY BytesOfElements
<1>1. b[1] = f.key
  BY DEF BytesOf
<1>2. PICK e \in ToSet(t) : e.key = f.key /\ e.size >= f.size
  BY <1>1
<1>3. f \in ImageFiles
  <2>1. PICK i \in DOMAIN s : f = s[i]
    BY DEF ToSet
  <2>2. QED
    BY <2>1, LenProperties, ElementOfSeq
<1>4. e \in Entries
  <2>1. PICK i \in DOMAIN t : e = t[i]
    BY DEF ToSet
  <2>2. QED
    BY <2>1, LenProperties, ElementOfSeq
<1>5. f.size \in Nat /\ e.size \in Nat
  BY <1>3, <1>4 DEF ImageFiles, Entries
<1>6. QED
  BY <1>2, <1>5, BytesIndexed

\* The files stay in the quota: a running process has them in its index, and a
\* crash does not make them larger.
LEMMA QuotaStep ==
  ASSUME IInv, [Next]_vars
  PROVE  DiskWithinQuota'
<1>1. TypeOK /\ IndexPart /\ DiskWithinQuota
  BY IndexPartNow DEF IInv
<1>2. IndexPart' /\ RoomInIndex'
  BY IndexPartStep, RoomStep
<1>3. CASE process' = "running"
  <2>1. \A e \in Entries : e.size \in Nat
    BY DEF Entries
  <2>2. IsFiniteSet(Bytes(lruOrder')) /\ TotalSize(lruOrder') \in Nat
    BY <1>2, <2>1, BytesFinite DEF IndexPart
  <2>3. Counted' \subseteq Bytes(lruOrder')
    <3>1. /\ files' \in Seq(ImageFiles) /\ lruOrder' \in Seq(Entries)
          /\ \A f \in ToSet(files') :
               f.key \in overlooked' \/ \E e \in ToSet(lruOrder') : e.key = f.key /\ e.size >= f.size
      BY <1>2, <1>3 DEF IndexPart, FilesIndexed
    <3>2. QED
      BY <3>1, CountedInIndex DEF Counted
  <2>4. /\ Cardinality(Counted') <= Cardinality(Bytes(lruOrder'))
        /\ IsFiniteSet(Counted')
    BY <2>2, <2>3, FS_Subset
  <2>5. Cardinality(Counted') \in Nat
    BY <2>4, FS_CardinalityType
  <2>6. TotalSize(lruOrder') <= AtLeast(maxSizeBytes', inherited')
    BY <1>2 DEF IndexPart, IndexAgrees, RoomInIndex
  <2>7. AtLeast(maxSizeBytes', inherited') \in Int
    BY <1>1, NextQuotaTypes
  <2>8. QED
    BY <2>2, <2>4, <2>5, <2>6, <2>7 DEF DiskWithinQuota, Counted, TotalSize
<1>4. CASE UNCHANGED <<maxSizeBytes, historyVars>> /\ Bytes(files') \subseteq Bytes(files)
  <2>1. \A f \in ImageFiles : f.size \in Nat
    BY DEF ImageFiles
  <2>2. IsFiniteSet(Bytes(files))
    BY <1>1, <2>1, BytesFinite DEF IndexPart
  <2>3. Counted \subseteq Bytes(files) /\ Counted' \subseteq Counted
    BY <1>4 DEF Counted, historyVars
  <2>4. IsFiniteSet(Counted)
    BY <2>2, <2>3, FS_Subset
  <2>5. Cardinality(Counted') <= Cardinality(Counted) /\ IsFiniteSet(Counted')
    BY <2>3, <2>4, FS_Subset
  <2>6. Cardinality(Counted') \in Nat /\ Cardinality(Counted) \in Nat
    BY <2>4, <2>5, FS_CardinalityType
  <2>7. QED
    BY <1>1, <1>4, <2>5, <2>6, QuotaTypes DEF DiskWithinQuota, Counted, historyVars
<1>5. process' # "running" => UNCHANGED <<maxSizeBytes, historyVars>> /\ (Crash \/ files' = files)
  <2>1. process \in {"running", "down"}
    BY <1>1 DEF TypeOK
  <2>2. worker # "idle" => process = "running"
    BY <2>1 DEF IInv, DownIsBlank
  <2>3. ASSUME NEW k \in Keys, Enqueue(k) \/ GetHit(k) \/ GetMissing(k) \/ GetInvalid(k) \/ Vanish(k)
        PROVE  process' = "running"
    BY <2>3 DEF Enqueue, GetHit, GetMissing, GetInvalid, Vanish, Getting
  <2>4. CASE PutFails \/ WriteTemporary \/ EvictFile \/ SkipMissingFile \/ EndEviction
             \/ Rename \/ RenameFails \/ RemoveQueuedId
    BY <2>2, <2>4 DEF PutFails, WriteTemporary, EvictFile, SkipMissingFile, EndEviction,
         Rename, RenameFails, RemoveQueuedId
  <2>5. CASE Construct \/ Crash
    BY <2>5 DEF Construct, Crash
  <2>6. CASE Dequeue \/ Destruct \/ EndWorker \/ UNCHANGED vars
    BY <2>6 DEF Dequeue, Destruct, EndWorker, vars, diskVars, indexVars, historyVars
  <2>7. QED
    BY <2>3, <2>4, <2>5, <2>6 DEF Next, WorkerStep
<1>6. QED
  BY <1>1, <1>3, <1>4, <1>5, IndexPartCrash

-----------------------------------------------------------------------------
(* The invariant, and what follows from it.                                *)

LEMMA IInvInit == Init => IInv
<1> SUFFICES ASSUME Init
             PROVE  IInv
  OBVIOUS
<1>1. /\ files = <<>> /\ lruOrder = <<>> /\ writeQueue = <<>>
      /\ temporaries = {} /\ leftovers = {} /\ process = "running"
      /\ overlooked = {} /\ inherited = 0 /\ maxSizeBytes \in Quotas
      /\ lruOrderById = {} /\ currentSize = 0 /\ queuedIds = {} /\ stopping = FALSE
      /\ worker = "idle" /\ request = NoKey
  BY DEF Init
<1>2. TypeOK
  BY <1>1, EmptySeq DEF TypeOK, WorkerStates
<1>3. DOMAIN <<>> = {} /\ ToSet(<<>>) = {} /\ KeysOf(<<>>) = {} /\ TotalSize(<<>>) = 0
  BY EmptyList DEF ToSet
<1>4. KeysOnce /\ IndexAgrees /\ FilesIndexed
  BY <1>1, <1>3 DEF KeysOnce, HasEachKeyOnce, IndexAgrees, FilesIndexed
<1>5. QueuedOnce /\ RequestOnce /\ DownIsBlank /\ TemporariesKnown
  BY <1>1, <1>3 DEF QueuedOnce, RequestOnce, DownIsBlank, TemporariesKnown
<1>6. RoomInIndex
  BY <1>1, <1>2, <1>3, QuotaTypes DEF RoomInIndex
<1>7. DiskWithinQuota
  <2>1. Counted = {}
    BY <1>1 DEF Counted, Bytes
  <2>2. QED
    BY <1>2, <2>1, QuotaTypes, FS_EmptySet DEF DiskWithinQuota, Counted
<1>8. QED
  BY <1>2, <1>4, <1>5, <1>6, <1>7 DEF IInv

LEMMA IInvStep == IInv /\ [Next]_vars => IInv'
<1> SUFFICES ASSUME IInv, [Next]_vars
             PROVE  IInv'
  OBVIOUS
<1>1. IndexPart' /\ QueuePart'
  BY IndexPartStep, QueuePartStep
<1>2. temporaries' \subseteq Keys /\ leftovers' \subseteq Keys /\ TemporariesKnown'
  BY TemporariesStep
<1>3. RoomInIndex' /\ DiskWithinQuota'
  BY RoomStep, QuotaStep
<1>4. TypeOK'
  BY <1>1, <1>2, NextQuotaTypes DEF IInv, TypeOK, IndexPart, QueuePart, Entries, ImageFiles
<1>5. QED
  BY <1>1, <1>2, <1>3, <1>4 DEF IInv, IndexPart, QueuePart

LEMMA InductiveInvariant == Spec => []IInv
<1>1. Init => IInv
  BY IInvInit
<1>2. IInv /\ [Next]_vars => IInv'
  BY IInvStep
<1>3. QED
  BY <1>1, <1>2, PTL DEF Spec

\* m_lruOrder, m_lruOrderById and m_currentCacheSize stay one index, and no image
\* is queued twice or queued while it is on disk.
THEOREM IndexSound == Spec => []IndexIsSound
<1>1. IInv => IndexIsSound
  <2> SUFFICES ASSUME IInv
               PROVE  IndexIsSound
    OBVIOUS
  <2>1. lruOrder \in Seq(Entries) /\ HasEachKeyOnce(lruOrder)
    BY DEF IInv, TypeOK, KeysOnce, Entries
  <2>2. Cardinality(KeysOf(lruOrder)) = Len(lruOrder)
    BY <2>1, AsManyKeys
  <2>3. QED
    BY <2>2 DEF IInv, IndexIsSound, IndexConsistent, IndexAgrees
<1>2. QED
  BY InductiveInvariant, <1>1, PTL

\* The image files of the cache directory that the cache learnt of never take more
\* than maxSizeBytes, whatever put is doing and through crashes and restarts; or, if
\* they did when the cache was made, no more than then until a file is written.
THEOREM QuotaKept == Spec => []DiskWithinQuota
<1>1. IInv => DiskWithinQuota
  BY DEF IInv
<1>2. QED
  BY InductiveInvariant, <1>1, PTL

\* Between two puts every image file that was not overlooked is in the index with
\* its size at least, and a .tmp file is there only if an earlier process died while it wrote it.
THEOREM FilesSound == Spec => []FilesAreSound
<1>1. IInv => FilesAreSound
  <2> SUFFICES ASSUME IInv
               PROVE  FilesAreSound
    OBVIOUS
  <2>1. FilesAccounted
    <3> SUFFICES ASSUME process = "running", NEW i \in DOMAIN files,
                        files[i].key \notin overlooked
                 PROVE  \E j \in DOMAIN lruOrder :
                          lruOrder[j].key = files[i].key /\ lruOrder[j].size >= files[i].size
      BY DEF FilesAccounted
    <3>1. files[i] \in ToSet(files)
      BY DEF ToSet
    <3>2. PICK e \in ToSet(lruOrder) : e.key = files[i].key /\ e.size >= files[i].size
      BY <3>1 DEF IInv, FilesIndexed
    <3>3. QED
      BY <3>2 DEF ToSet
  <2>2. NoTemporaryLeft
    BY DEF IInv, TemporariesKnown, NoTemporaryLeft
  <2>3. QED
    BY <2>1, <2>2 DEF FilesAreSound
<1>2. QED
  BY InductiveInvariant, <1>1, PTL

=============================================================================
