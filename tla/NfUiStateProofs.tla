-------------------------- MODULE NfUiStateProofs --------------------------
(***************************************************************************)
(* Proofs about NfBrowserModel and NfUiState for any photos, sources,      *)
(* filters and values to sort by, and any settings files.                  *)
(***************************************************************************)
EXTENDS NfUiState, FiniteSetTheorems, SequenceTheorems, WellFoundedInduction, TLAPS

-----------------------------------------------------------------------------
(* The inductive invariant of the browser.                                 *)

\* No photo is in the model twice, or in it and still to come.
PhotosOnce ==
  /\ IsFiniteSet(arriving)
  /\ IsInjective(allPhotos)
  /\ ToSet(allPhotos) \intersect arriving = {}

\* The rows stand for the photos that pass the filter, one for each.
Positions ==
  /\ IsInjective(visibleIndexes)
  /\ ToSet(visibleIndexes) = Passing(formatFilter, allPhotos)

\* The current index is one of the view's rows.
CurrentIsARow == currentRow \in Rows \union {NoRow}

RowsInv ==
  /\ TypeOK /\ PhotosOnce /\ Positions
  /\ itemsMap = RowMap(allPhotos, visibleIndexes)
  /\ RowsAreSorted /\ CurrentIsARow

-----------------------------------------------------------------------------
(* Enumerations of positions.                                              *)

LEMMA EnumerationOf ==
  ASSUME NEW P, IsFiniteSet(P), NEW t \in SetToSeqs(P)
  PROVE  /\ t \in Seq(P) /\ ToSet(t) = P /\ IsInjective(t)
         /\ DOMAIN t = 1..Cardinality(P) /\ Len(t) = Cardinality(P)
<1> DEFINE n == Cardinality(P)
<1>1. n \in Nat
  BY FS_CardinalityType
<1>2. /\ t \in [1..n -> P]
      /\ \A i, j \in 1..n : i # j => t[i] # t[j]
  BY DEF SetToSeqs
<1>3. t \in Seq(P) /\ DOMAIN t = 1..n /\ Len(t) = n
  BY <1>1, <1>2
<1>4. IsFiniteSet(1..n) /\ Cardinality(1..n) = n
  BY <1>1, FS_Interval
<1>5. t \in Injection(1..n, P)
  BY <1>2 DEF Injection, IsInjective
<1>6. t \in Surjection(1..n, P)
  BY <1>4, <1>5, FS_Injection
<1>7. ToSet(t) = P
  BY <1>3, <1>6, <1>2 DEF Surjection, ToSet
<1>8. IsInjective(t)
  BY <1>2, <1>3 DEF IsInjective
<1>9. QED
  BY <1>3, <1>7, <1>8

Ascending(t) == \A i, j \in DOMAIN t : i < j => t[i] < t[j]

\* Positions can be put in order.
LEMMA OrderExists ==
  ASSUME NEW N \in Nat, NEW P \in SUBSET (1..N)
  PROVE  \E t \in SetToSeqs(P) : Ascending(t)
<1> DEFINE Below(n) == P \intersect 1..n
           Ordered(n) == \E t \in SetToSeqs(Below(n)) : Ascending(t)
           Bad == {n \in 0..N : ~ Ordered(n)}
           S == {1..n : n \in Bad}
<1>1. \A n \in 0..N : IsFiniteSet(1..n) /\ IsFiniteSet(Below(n)) /\ Cardinality(1..n) = n
  BY FS_Interval, FS_Subset
<1>2. SUFFICES Bad = {}
  <2>1. N \notin Bad /\ Below(N) = P
    BY <1>2
  <2>2. QED
    BY <2>1
<1>3. Ordered(0)
  <2>1. Below(0) = {} /\ Cardinality({}) = 0
    BY FS_EmptySet
  <2>2. <<>> \in SetToSeqs({}) /\ Ascending(<<>>)
    BY <2>1 DEF SetToSeqs, Ascending
  <2>3. QED
    BY <2>1, <2>2
<1>4. ASSUME NEW n \in 1..N, Ordered(n - 1)
      PROVE  Ordered(n)
  <2>1. PICK t \in SetToSeqs(Below(n - 1)) : Ascending(t)
    BY <1>4
  <2>2. CASE n \notin P
    <3>1. Below(n) = Below(n - 1)
      BY <2>2
    <3>2. QED
      BY <1>4, <3>1
  <2>3. CASE n \in P
    <3> DEFINE c == Cardinality(Below(n - 1))
               u == [i \in 1..(c + 1) |-> IF i = c + 1 THEN n ELSE t[i]]
    <3>1. Below(n) = Below(n - 1) \union {n} /\ n \notin Below(n - 1)
      BY <2>3
    <3>2. IsFiniteSet(Below(n - 1))
      BY <1>1
    <3>3. Cardinality(Below(n)) = c + 1 /\ c \in Nat
      BY <3>1, <3>2, FS_AddElement, FS_CardinalityType
    <3>4. DOMAIN t = 1..c /\ t \in [1..c -> Below(n - 1)] /\ \A i, j \in 1..c : i # j => t[i] # t[j]
      BY <3>3 DEF SetToSeqs
    <3>5. \A x \in Below(n - 1) : x \in Int /\ x < n
      OBVIOUS
    <3>6. u \in SetToSeqs(Below(n)) /\ Ascending(u)
      <4> HIDE DEF Below, Bad, S
      <4>1. /\ DOMAIN u = 1..(c + 1) /\ u[c + 1] = n
            /\ \A i \in 1..c : u[i] = t[i] /\ t[i] \in Below(n - 1) /\ i # c + 1
        BY <3>3, <3>4
      <4>2. \A i \in 1..(c + 1) : i \in 1..c \/ i = c + 1
        BY <3>3
      <4>3. u \in [1..(c + 1) -> Below(n)]
        BY <4>1, <4>2, <3>1
      <4>4. \A i, j \in 1..(c + 1) : i # j => u[i] # u[j]
        BY <4>1, <4>2, <3>1, <3>4
      <4>5. u \in SetToSeqs(Below(n))
        BY <3>3, <4>3, <4>4 DEF SetToSeqs
      <4>6. \A i, j \in 1..(c + 1) : i < j => i \in 1..c /\ (j \in 1..c \/ j = c + 1)
        BY <3>3
      <4>7. Ascending(u)
        BY <2>1, <3>4, <3>5, <4>1, <4>6 DEF Ascending
      <4>8. QED
        BY <4>5, <4>7
    <3>7. QED
      BY <3>6
  <2>4. QED
    BY <2>2, <2>3
<1>5. ASSUME Bad # {}
      PROVE  FALSE
  <2> HIDE DEF Ordered
  <2>1. ASSUME NEW n \in 0..N
        PROVE  1..n \in SUBSET (1..N) /\ IsFiniteSet(1..n)
    BY FS_Interval
  <2>2. S \subseteq FiniteSubsetsOf(1..N) /\ S # {}
    BY <2>1, <1>5 DEF FiniteSubsetsOf
  <2>3. IsFiniteSet(1..N)
    BY FS_Interval
  <2>4. PICK x \in S : \A y \in S : <<y, x>> \notin StrictSubsetOrdering(1..N)
    BY <2>2, <2>3, FS_StrictSubsetOrderingWellFounded, WFMin
  <2>5. PICK n \in Bad : x = 1..n
    OBVIOUS
  <2>6. n \in 1..N /\ n - 1 \in 0..N
    <3>1. n \in 0..N /\ n # 0
      BY <1>3
    <3>2. QED
      BY <3>1
  <2>7. n - 1 \notin Bad
    <3>1. <<1..(n - 1), 1..n>> \in StrictSubsetOrdering(1..N)
      BY <2>1, <2>6 DEF StrictSubsetOrdering
    <3>2. QED
      BY <3>1, <2>4, <2>5
  <2>8. QED
    BY <1>4, <2>6, <2>7
<1>6. QED
  BY <1>5

\* The positions rebuildVisiblePhotos finds.
LEMMA AcceptedPositions ==
  ASSUME NEW formats, NEW S, NEW s \in Seq(S)
  PROVE  /\ Accepted(formats, s) \in Seq(DOMAIN s)
         /\ ToSet(Accepted(formats, s)) = Passing(formats, s)
         /\ IsInjective(Accepted(formats, s))
<1> DEFINE P == Passing(formats, s)
           t == Accepted(formats, s)
<1>1. Len(s) \in Nat /\ DOMAIN s = 1..Len(s) /\ P \in SUBSET (1..Len(s))
  BY DEF Passing
<1>2. IsFiniteSet(P)
  <2> HIDE DEF P
  <2>1. IsFiniteSet(1..Len(s))
    BY <1>1, FS_Interval
  <2>2. QED
    BY <1>1, <2>1, FS_Subset
<1>3. \E u \in SetToSeqs(P) : \A i, j \in DOMAIN u : i < j => u[i] < u[j]
  BY <1>1, OrderExists DEF Ascending
<1>4. t \in SetToSeqs(P)
  BY <1>3 DEF Accepted
<1>5. t \in Seq(P) /\ ToSet(t) = P /\ IsInjective(t)
  BY <1>2, <1>4, EnumerationOf
<1>6. t \in Seq(DOMAIN s)
  BY <1>1, <1>5
<1>7. QED
  BY <1>5, <1>6

\* A list of what is there once is an enumeration of it.
LEMMA ElementsOfList ==
  ASSUME NEW S, NEW s \in Seq(S)
  PROVE  /\ IsFiniteSet(ToSet(s)) /\ s \in Seq(ToSet(s))
         /\ IsInjective(s) => Cardinality(ToSet(s)) = Len(s)
<1>1. Len(s) \in Nat /\ DOMAIN s = 1..Len(s)
  OBVIOUS
<1>2. s \in [1..Len(s) -> ToSet(s)] /\ s \in Seq(ToSet(s))
  BY <1>1 DEF ToSet
<1>3. s \in Surjection(1..Len(s), ToSet(s))
  BY <1>1, <1>2 DEF Surjection, ToSet
<1>4. IsFiniteSet(1..Len(s)) /\ Cardinality(1..Len(s)) = Len(s)
  BY <1>1, FS_Interval
<1>5. IsInjective(s) => s \in Injection(1..Len(s), ToSet(s))
  BY <1>1, <1>2 DEF Injection, IsInjective
<1>6. QED
  BY <1>2, <1>3, <1>4, <1>5, FS_Surjection

\* The rows sortPhotos makes.
LEMMA SortedRows ==
  ASSUME NEW fields, NEW order, NEW photos, NEW S, NEW s \in Seq(S),
         NEW t \in Sorted(fields, order, photos, s)
  PROVE  /\ t \in Seq(S) /\ ToSet(t) = ToSet(s) /\ IsInjective(t)
         /\ DOMAIN t = 1..Cardinality(ToSet(s))
         /\ \A i, j \in DOMAIN t : i < j =>
              ~ Precedes(fields, order, photos[t[j]], photos[t[i]])
<1>1. IsFiniteSet(ToSet(s)) /\ ToSet(s) \subseteq S
  <2>1. \A i \in DOMAIN s : s[i] \in S
    OBVIOUS
  <2>2. ToSet(s) \subseteq S
    BY <2>1 DEF ToSet
  <2>3. QED
    BY <2>2, ElementsOfList
<1>2. t \in SetToSeqs(ToSet(s))
  BY DEF Sorted
<1>3. /\ t \in Seq(ToSet(s)) /\ ToSet(t) = ToSet(s) /\ IsInjective(t)
      /\ DOMAIN t = 1..Cardinality(ToSet(s))
  BY <1>1, <1>2, EnumerationOf
<1>4. t \in Seq(S)
  BY <1>1, <1>3
<1>5. QED
  BY <1>3, <1>4 DEF Sorted

\* The map rebuildPersistentIndexMap makes.
LEMMA MapOfRows ==
  ASSUME NEW photos \in Seq(Photos), NEW t \in Seq(DOMAIN photos)
  PROVE  /\ RowMap(photos, t) \in [Photos -> DOMAIN t \union {NoRow}]
         /\ \A p \in Photos :
              IF RowMap(photos, t)[p] = NoRow THEN \A row \in DOMAIN t : photos[t[row]] # p
              ELSE /\ RowMap(photos, t)[p] \in DOMAIN t
                   /\ photos[t[RowMap(photos, t)[p]]] = p
<1>1. \A i \in DOMAIN t : i # NoRow
  BY DEF NoRow
<1>2. ASSUME NEW p \in Photos
      PROVE  IF RowMap(photos, t)[p] = NoRow THEN \A row \in DOMAIN t : photos[t[row]] # p
             ELSE /\ RowMap(photos, t)[p] \in DOMAIN t
                  /\ photos[t[RowMap(photos, t)[p]]] = p
  BY <1>1 DEF RowMap
<1>3. RowMap(photos, t) = [p \in Photos |-> RowMap(photos, t)[p]]
  BY DEF RowMap
<1>4. QED
  BY <1>2, <1>3

\* Two lists, one after the other.
LEMMA Joined ==
  ASSUME NEW S, NEW a \in Seq(S), NEW b \in Seq(S)
  PROVE  /\ a \o b \in Seq(S) /\ ToSet(a \o b) = ToSet(a) \union ToSet(b)
         /\ Len(a) \in Nat /\ DOMAIN a \subseteq DOMAIN (a \o b)
         /\ \A i \in DOMAIN a : (a \o b)[i] = a[i]
         /\ \A j \in DOMAIN b : Len(a) + j \in DOMAIN (a \o b) /\ (a \o b)[Len(a) + j] = b[j]
         /\ \A k \in DOMAIN (a \o b) : k \in DOMAIN a \/ k - Len(a) \in DOMAIN b
<1> DEFINE c == a \o b
<1>1. /\ c \in Seq(S) /\ Len(c) = Len(a) + Len(b)
      /\ \A i \in 1..(Len(a) + Len(b)) :
           c[i] = IF i <= Len(a) THEN a[i] ELSE b[i - Len(a)]
  BY ConcatProperties, Zenon
<1> HIDE DEF c
<1>2. /\ Len(a) \in Nat /\ Len(b) \in Nat
      /\ DOMAIN a = 1..Len(a) /\ DOMAIN b = 1..Len(b) /\ DOMAIN c = 1..(Len(a) + Len(b))
  BY <1>1
<1>3. /\ DOMAIN a \subseteq DOMAIN c
      /\ \A i \in DOMAIN a : c[i] = a[i]
      /\ \A j \in DOMAIN b : Len(a) + j \in DOMAIN c /\ c[Len(a) + j] = b[j]
      /\ \A k \in DOMAIN c : k \in DOMAIN a \/ (k - Len(a) \in DOMAIN b /\ c[k] = b[k - Len(a)])
  BY <1>1, <1>2
<1>4. ToSet(c) \subseteq ToSet(a) \union ToSet(b)
  BY <1>3 DEF ToSet
<1>5. ToSet(a) \union ToSet(b) \subseteq ToSet(c)
  BY <1>3 DEF ToSet
<1>6. QED
  BY <1>1, <1>2, <1>3, <1>4, <1>5 DEF c

\* Constants.
LEMMA PhotosOfSource ==
  ASSUME NEW s \in Sources
  PROVE  Content[s] \subseteq Photos /\ IsFiniteSet(Content[s])
BY BrowserAssumption DEF Photos

LEMMA RowIsNat ==
  ASSUME TypeOK
  PROVE  /\ Rows \subseteq Nat \ {NoRow} /\ Rows = 1..Len(visibleIndexes)
         /\ Len(visibleIndexes) \in Nat
         /\ \A row \in Rows : visibleIndexes[row] \in DOMAIN allPhotos /\ PhotoAt(row) \in Photos
<1>1. visibleIndexes \in Seq(DOMAIN allPhotos) /\ allPhotos \in Seq(Photos)
  BY DEF TypeOK
<1>2. \A i \in DOMAIN allPhotos : allPhotos[i] \in Photos
  BY <1>1
<1>3. \A row \in DOMAIN visibleIndexes : visibleIndexes[row] \in DOMAIN allPhotos
  BY <1>1
<1>4. QED
  BY <1>1, <1>2, <1>3 DEF Rows, NoRow, PhotoAt

-----------------------------------------------------------------------------
(* The steps of the browser keep the invariant.                            *)

LEMMA RowsInit == Init => RowsInv
<1> SUFFICES ASSUME Init
             PROVE  RowsInv
  OBVIOUS
<1>1. \A S : <<>> \in Seq(S) /\ ToSet(<<>>) = {} /\ IsInjective(<<>>)
  BY EmptySeq DEF ToSet, IsInjective
<1>2. allPhotos = <<>> /\ visibleIndexes = <<>> /\ arriving = {} /\ Rows = {}
  BY DEF Init, Rows
<1>3. itemsMap = RowMap(allPhotos, visibleIndexes) /\ itemsMap \in [Photos -> Rows \union {NoRow}]
  BY <1>2 DEF Init, RowMap
<1>4. TypeOK
  BY <1>1, <1>2, <1>3 DEF Init, TypeOK, NoRow, SortOrders, ViewModes
<1>5. PhotosOnce
  BY <1>1, <1>2, FS_EmptySet DEF PhotosOnce
<1>6. Positions
  BY <1>1, <1>2 DEF Positions, Passing
<1>7. RowsAreSorted /\ CurrentIsARow
  BY <1>2 DEF RowsAreSorted, CurrentIsARow, Init
<1>8. QED
  BY <1>3, <1>4, <1>5, <1>6, <1>7 DEF RowsInv

\* A model without photos, for a source that has some.
LEMMA EmptyModel ==
  ASSUME allPhotos' = <<>>, visibleIndexes' = <<>>, itemsMap' = [p \in Photos |-> NoRow],
         currentRow' = NoRow, previewRow' \in Nat, previewPhoto' \in Photos \union {NoPhoto},
         arriving' \subseteq Photos, IsFiniteSet(arriving'),
         formatFilter' \in Filters, sortFields' \subseteq ToSet(SortFields),
         sortOrder' \in SortOrders, viewMode' \in ViewModes,
         currentPhoto' \in Photos \union {NoPhoto}
  PROVE  RowsInv'
<1>1. \A S : <<>> \in Seq(S) /\ ToSet(<<>>) = {} /\ IsInjective(<<>>)
  BY EmptySeq DEF ToSet, IsInjective
<1>2. Rows' = {}
  BY DEF Rows
<1>3. itemsMap' = RowMap(allPhotos', visibleIndexes') /\ itemsMap' \in [Photos -> Rows' \union {NoRow}]
  BY <1>2 DEF RowMap
<1>4. TypeOK'
  BY <1>1, <1>2, <1>3 DEF TypeOK, NoRow
<1>5. PhotosOnce'
  BY <1>1 DEF PhotosOnce
<1>6. Positions'
  BY <1>1 DEF Positions, Passing
<1>7. RowsAreSorted' /\ CurrentIsARow'
  BY <1>2 DEF RowsAreSorted, CurrentIsARow
<1>8. QED
  BY <1>3, <1>4, <1>5, <1>6, <1>7 DEF RowsInv

LEMMA SetSourceKeeps ==
  ASSUME RowsInv, NEW s \in Sources, SetSource(s)
  PROVE  RowsInv'
<1>1. arriving' \subseteq Photos /\ IsFiniteSet(arriving')
  BY PhotosOfSource DEF SetSource
<1>2. QED
  BY <1>1, EmptyModel DEF SetSource, RowsInv, TypeOK, settingVars, previewVars

\* A batch is some of the photos that are to come, each once.
LEMMA BatchOf ==
  ASSUME RowsInv, NEW batch \in Batches
  PROVE  /\ batch \in Seq(Photos) /\ IsInjective(batch)
         /\ ToSet(batch) \subseteq arriving /\ ToSet(batch) \intersect ToSet(allPhotos) = {}
<1>1. PICK S \in SUBSET arriving : batch \in SetToSeqs(S)
  BY DEF Batches
<1>2. IsFiniteSet(S)
  BY FS_Subset DEF RowsInv, PhotosOnce
<1>3. batch \in Seq(S) /\ IsInjective(batch) /\ ToSet(batch) = S
  BY <1>1, <1>2, EnumerationOf
<1>4. S \subseteq Photos
  BY DEF RowsInv, TypeOK
<1>5. batch \in Seq(Photos)
  BY <1>3, <1>4
<1>6. QED
  BY <1>3, <1>5 DEF RowsInv, PhotosOnce

\* What the preview is given, when it is given something, is a photo.
LEMMA PhotoForPreview ==
  ASSUME TypeOK, SetPhotoIndex, currentRow' \in DOMAIN visibleIndexes',
         visibleIndexes' \in Seq(DOMAIN allPhotos'), allPhotos' \in Seq(Photos)
  PROVE  /\ previewRow' \in Nat /\ previewPhoto' \in Photos \union {NoPhoto}
         /\ viewMode' = viewMode
<1>1. currentRow' \in Nat /\ visibleIndexes'[currentRow'] \in DOMAIN allPhotos'
  OBVIOUS
<1>2. allPhotos'[visibleIndexes'[currentRow']] \in Photos
  BY <1>1
<1>3. QED
  BY <1>1, <1>2 DEF SetPhotoIndex, TypeOK

LEMMA RestoreKeeps ==
  ASSUME RowsInv, RestoreCurrentPhoto,
         allPhotos' \in Seq(Photos), visibleIndexes' \in Seq(DOMAIN allPhotos'),
         itemsMap' \in [Photos -> Rows' \union {NoRow}], Rows \subseteq Rows'
  PROVE  /\ currentRow' \in Rows' \union {NoRow} /\ currentRow' \in Nat
         /\ previewRow' \in Nat /\ previewPhoto' \in Photos \union {NoPhoto}
         /\ viewMode' = viewMode /\ currentPhoto' = currentPhoto
<1>1. currentRow \in Rows \union {NoRow} /\ currentPhoto \in Photos \union {NoPhoto}
  BY DEF RowsInv, CurrentIsARow, TypeOK
<1>2. currentRow' \in Rows' \union {NoRow} /\ currentRow' \in {currentRow} \union Rows'
  BY <1>1 DEF RestoreCurrentPhoto
<1>3. Rows' \subseteq Nat /\ NoRow \in Nat
  BY DEF Rows, NoRow
<1>4. CASE currentRow' = currentRow
  BY <1>2, <1>3, <1>4 DEF RestoreCurrentPhoto, previewVars, RowsInv, TypeOK
<1>5. CASE currentRow' # currentRow
  <2>1. currentRow' \in DOMAIN visibleIndexes' /\ SetPhotoIndex
    BY <1>2, <1>5 DEF RestoreCurrentPhoto, Rows
  <2>2. QED
    BY <1>2, <1>3, <2>1, PhotoForPreview DEF RestoreCurrentPhoto, RowsInv
<1>6. QED
  BY <1>4, <1>5

\* The positions that pass the filter when photos have come.
NewPositions(batch) ==
  [i \in DOMAIN Accepted(formatFilter, batch) |->
     Len(allPhotos) + Accepted(formatFilter, batch)[i]]

LEMMA PassingJoined ==
  ASSUME RowsInv, NEW batch \in Batches
  PROVE  /\ allPhotos \o batch \in Seq(Photos)
         /\ IsInjective(allPhotos \o batch)
         /\ ToSet(allPhotos \o batch) = ToSet(allPhotos) \union ToSet(batch)
         /\ visibleIndexes \o NewPositions(batch) \in Seq(DOMAIN (allPhotos \o batch))
         /\ ToSet(visibleIndexes \o NewPositions(batch))
              = Passing(formatFilter, allPhotos \o batch)
         /\ ToSet(visibleIndexes) \subseteq ToSet(visibleIndexes \o NewPositions(batch))
<1> DEFINE photos == allPhotos \o batch
           acc == Accepted(formatFilter, batch)
           new == NewPositions(batch)
<1>1. /\ batch \in Seq(Photos) /\ IsInjective(batch)
      /\ ToSet(batch) \intersect ToSet(allPhotos) = {}
  BY BatchOf
<1>2. allPhotos \in Seq(Photos) /\ visibleIndexes \in Seq(DOMAIN allPhotos)
  BY DEF RowsInv, TypeOK
<1>3. /\ photos \in Seq(Photos) /\ ToSet(photos) = ToSet(allPhotos) \union ToSet(batch)
      /\ Len(allPhotos) \in Nat /\ DOMAIN allPhotos \subseteq DOMAIN photos
      /\ \A i \in DOMAIN allPhotos : photos[i] = allPhotos[i]
      /\ \A j \in DOMAIN batch :
           Len(allPhotos) + j \in DOMAIN photos /\ photos[Len(allPhotos) + j] = batch[j]
      /\ \A k \in DOMAIN photos : k \in DOMAIN allPhotos \/ k - Len(allPhotos) \in DOMAIN batch
  BY <1>1, <1>2, Joined
<1>4. /\ DOMAIN batch \subseteq Nat /\ DOMAIN photos \subseteq Nat
      /\ \A k \in DOMAIN photos : Len(allPhotos) + (k - Len(allPhotos)) = k
  BY <1>1, <1>2, <1>3
<1>5. acc \in Seq(DOMAIN batch) /\ ToSet(acc) = Passing(formatFilter, batch)
  BY <1>1, AcceptedPositions
<1>6. DOMAIN new = DOMAIN acc /\ \A i \in DOMAIN acc : new[i] = Len(allPhotos) + acc[i]
  BY DEF NewPositions
<1> HIDE DEF photos, acc, new
<1>7. ASSUME NEW i \in DOMAIN photos, NEW j \in DOMAIN photos, photos[i] = photos[j]
      PROVE  i = j
  <2>1. \A k \in DOMAIN allPhotos : allPhotos[k] \in ToSet(allPhotos)
    BY DEF ToSet
  <2>2. \A k \in DOMAIN batch : batch[k] \in ToSet(batch)
    BY DEF ToSet
  <2>3. CASE i \in DOMAIN allPhotos /\ j \in DOMAIN allPhotos
    BY <1>3, <1>7, <2>3 DEF RowsInv, PhotosOnce, IsInjective
  <2>4. CASE i \in DOMAIN allPhotos /\ j - Len(allPhotos) \in DOMAIN batch
    BY <1>1, <1>3, <1>4, <1>7, <2>1, <2>2, <2>4
  <2>5. CASE j \in DOMAIN allPhotos /\ i - Len(allPhotos) \in DOMAIN batch
    BY <1>1, <1>3, <1>4, <1>7, <2>1, <2>2, <2>5
  <2>6. CASE i - Len(allPhotos) \in DOMAIN batch /\ j - Len(allPhotos) \in DOMAIN batch
    <3>1. batch[i - Len(allPhotos)] = batch[j - Len(allPhotos)]
      BY <1>3, <1>4, <1>7, <2>6
    <3>2. i - Len(allPhotos) = j - Len(allPhotos)
      BY <1>1, <2>6, <3>1 DEF IsInjective
    <3>3. QED
      BY <1>4, <3>2
  <2>7. QED
    BY <1>3, <2>3, <2>4, <2>5, <2>6
<1>8. IsInjective(photos)
  BY <1>7 DEF IsInjective
<1>9. visibleIndexes \in Seq(DOMAIN photos) /\ new \in Seq(DOMAIN photos)
  <2>1. visibleIndexes \in Seq(DOMAIN photos)
    BY <1>2, <1>3
  <2>2. Len(acc) \in Nat /\ DOMAIN acc = 1..Len(acc) /\ \A i \in DOMAIN acc : acc[i] \in DOMAIN batch
    BY <1>5
  <2>3. \A i \in 1..Len(acc) : new[i] \in DOMAIN photos
    BY <1>3, <1>6, <2>2
  <2>4. new = [i \in 1..Len(acc) |-> new[i]]
    BY <1>6, <2>2 DEF new, NewPositions, acc
  <2>5. new \in [1..Len(acc) -> DOMAIN photos]
    BY <2>3, <2>4
  <2>6. QED
    BY <2>1, <2>2, <2>5
<1>10. /\ visibleIndexes \o new \in Seq(DOMAIN photos)
       /\ ToSet(visibleIndexes \o new) = ToSet(visibleIndexes) \union ToSet(new)
  BY <1>9, Joined
<1>11. ToSet(new) = {Len(allPhotos) + j : j \in Passing(formatFilter, batch)}
  <2>1. ToSet(new) = {Len(allPhotos) + acc[i] : i \in DOMAIN acc}
    BY <1>6 DEF ToSet
  <2>2. Passing(formatFilter, batch) = {acc[i] : i \in DOMAIN acc}
    BY <1>5 DEF ToSet
  <2>3. QED
    BY <2>1, <2>2
<1>12. ToSet(visibleIndexes) \union ToSet(new) \subseteq Passing(formatFilter, photos)
  BY <1>3, <1>11 DEF Passing, RowsInv, Positions
<1>13. Passing(formatFilter, photos) \subseteq ToSet(visibleIndexes) \union ToSet(new)
  <2>1. ASSUME NEW k \in DOMAIN photos, Accepts(formatFilter, photos[k])
        PROVE  k \in ToSet(visibleIndexes) \union ToSet(new)
    <3>1. CASE k \in DOMAIN allPhotos
      BY <1>3, <2>1, <3>1 DEF Passing, RowsInv, Positions
    <3>2. CASE k - Len(allPhotos) \in DOMAIN batch
      <4>1. k - Len(allPhotos) \in Passing(formatFilter, batch)
        BY <1>3, <1>4, <2>1, <3>2 DEF Passing
      <4>2. QED
        BY <1>4, <1>11, <4>1
    <3>3. QED
      BY <1>3, <3>1, <3>2
  <2>2. QED
    BY <2>1 DEF Passing
<1>14. QED
  BY <1>3, <1>8, <1>10, <1>12, <1>13 DEF photos, new

LEMMA LoadedKeeps ==
  ASSUME RowsInv, NEW batch \in Batches, PhotosLoaded(batch)
  PROVE  RowsInv'
<1> DEFINE photos == allPhotos \o batch
           s == visibleIndexes \o NewPositions(batch)
<1>1. /\ allPhotos' = photos /\ Show(photos, s) /\ RestoreCurrentPhoto
      /\ arriving' = arriving \ ToSet(batch) /\ UNCHANGED settingVars
  BY DEF PhotosLoaded, NewPositions
<1>2. /\ photos \in Seq(Photos) /\ IsInjective(photos)
      /\ ToSet(photos) = ToSet(allPhotos) \union ToSet(batch)
      /\ s \in Seq(DOMAIN photos) /\ ToSet(s) = Passing(formatFilter, photos)
      /\ ToSet(visibleIndexes) \subseteq ToSet(s)
  BY PassingJoined
<1> HIDE DEF photos, s
<1>3. /\ visibleIndexes' \in Sorted(sortFields, sortOrder, photos, s)
      /\ itemsMap' = RowMap(photos, visibleIndexes')
  BY <1>1 DEF Show
<1>4. /\ visibleIndexes' \in Seq(DOMAIN photos) /\ ToSet(visibleIndexes') = ToSet(s)
      /\ IsInjective(visibleIndexes') /\ DOMAIN visibleIndexes' = 1..Cardinality(ToSet(s))
      /\ \A i, j \in DOMAIN visibleIndexes' : i < j =>
           ~ Precedes(sortFields, sortOrder, photos[visibleIndexes'[j]], photos[visibleIndexes'[i]])
  BY <1>2, <1>3, SortedRows
<1>5. UNCHANGED <<formatFilter, sortFields, sortOrder>>
  BY <1>1 DEF settingVars
<1>6. RowsAreSorted'
  BY <1>1, <1>4, <1>5 DEF RowsAreSorted, Rows, PhotoAt
<1>7. Rows \subseteq Rows'
  <2>1. visibleIndexes \in Seq(DOMAIN allPhotos) /\ IsInjective(visibleIndexes)
    BY DEF RowsInv, TypeOK, Positions
  <2>2. /\ Rows = 1..Cardinality(ToSet(visibleIndexes))
        /\ IsFiniteSet(ToSet(visibleIndexes))
    BY <2>1, ElementsOfList DEF Rows
  <2>3. IsFiniteSet(ToSet(s))
    BY <1>2, ElementsOfList
  <2>4. Cardinality(ToSet(visibleIndexes)) <= Cardinality(ToSet(s))
    BY <1>2, <2>3, FS_Subset
  <2>5. Cardinality(ToSet(visibleIndexes)) \in Nat /\ Cardinality(ToSet(s)) \in Nat
    BY <2>2, <2>3, FS_CardinalityType
  <2>6. QED
    BY <1>4, <2>2, <2>4, <2>5 DEF Rows
<1>8. itemsMap' \in [Photos -> Rows' \union {NoRow}]
  BY <1>2, <1>3, <1>4, MapOfRows DEF Rows
<1>9. /\ currentRow' \in Rows' \union {NoRow} /\ currentRow' \in Nat
      /\ previewRow' \in Nat /\ previewPhoto' \in Photos \union {NoPhoto}
      /\ viewMode' = viewMode /\ currentPhoto' = currentPhoto
  BY <1>1, <1>2, <1>4, <1>7, <1>8, RestoreKeeps
<1>10. TypeOK'
  BY <1>1, <1>2, <1>4, <1>5, <1>8, <1>9 DEF TypeOK, RowsInv
<1>11. PhotosOnce'
  <2>1. IsFiniteSet(arriving')
    BY <1>1, FS_Subset DEF RowsInv, PhotosOnce
  <2>2. ToSet(allPhotos') \intersect arriving' = {}
    BY <1>1, <1>2 DEF RowsInv, PhotosOnce
  <2>3. QED
    BY <1>1, <1>2, <2>1, <2>2 DEF PhotosOnce
<1>12. Positions' /\ CurrentIsARow'
  BY <1>1, <1>2, <1>4, <1>5, <1>9 DEF Positions, CurrentIsARow
<1>13. QED
  BY <1>1, <1>3, <1>6, <1>10, <1>11, <1>12 DEF RowsInv

LEMMA IgnoredKeeps ==
  ASSUME RowsInv, NEW batch \in Batches, PhotosIgnored(batch)
  PROVE  RowsInv'
<1>1. /\ arriving' = arriving \ ToSet(batch)
      /\ UNCHANGED <<allPhotos, visibleIndexes, itemsMap, formatFilter, sortFields, sortOrder,
                     currentPhoto, currentRow, viewMode, previewRow, previewPhoto>>
  BY DEF PhotosIgnored, settingVars, viewVars, previewVars
<1>2. TypeOK'
  BY <1>1 DEF RowsInv, TypeOK, Rows
<1>3. PhotosOnce'
  <2>1. IsFiniteSet(arriving')
    BY <1>1, FS_Subset DEF RowsInv, PhotosOnce
  <2>2. QED
    BY <1>1, <2>1 DEF RowsInv, PhotosOnce
<1>4. Positions' /\ RowsAreSorted' /\ CurrentIsARow' /\ itemsMap' = RowMap(allPhotos', visibleIndexes')
  BY <1>1 DEF RowsInv, Positions, RowsAreSorted, CurrentIsARow, Rows, PhotoAt
<1>5. QED
  BY <1>2, <1>3, <1>4 DEF RowsInv

\* No photo precedes another when the user has not asked for an order.
LEMMA Unordered ==
  ASSUME NEW order, NEW p, NEW q
  PROVE  ~ Precedes({}, order, p, q)
BY DEF Precedes

LEMMA FilterKeeps ==
  ASSUME RowsInv, NEW formats \in Filters, SetFormatFilter(formats)
  PROVE  RowsInv'
<1> DEFINE s == Refiltered(formats)
<1>1. /\ allPhotos \in Seq(Photos) /\ sortFields \subseteq ToSet(SortFields)
      /\ currentPhoto \in Photos \union {NoPhoto}
  BY DEF RowsInv, TypeOK
<1>2. /\ s \in Seq(DOMAIN allPhotos) /\ ToSet(s) = Passing(formats, allPhotos) /\ IsInjective(s)
  BY <1>1, AcceptedPositions DEF Refiltered
<1> HIDE DEF s
<1>3. /\ UNCHANGED <<arriving, allPhotos, sortFields, sortOrder>>
      /\ formatFilter' = formats /\ itemsMap' = RowMap(allPhotos, visibleIndexes')
      /\ visibleIndexes' \in IF sortFields # {} THEN Sorted(sortFields, sortOrder, allPhotos, s)
                             ELSE {s}
  BY DEF SetFormatFilter, s
<1>4. /\ visibleIndexes' \in Seq(DOMAIN allPhotos) /\ IsInjective(visibleIndexes')
      /\ ToSet(visibleIndexes') = Passing(formats, allPhotos)
      /\ \A i, j \in DOMAIN visibleIndexes' : i < j =>
           ~ Precedes(sortFields, sortOrder,
                      allPhotos[visibleIndexes'[j]], allPhotos[visibleIndexes'[i]])
  <2>1. CASE sortFields # {}
    BY <1>2, <1>3, <2>1, SortedRows
  <2>2. CASE sortFields = {}
    BY <1>2, <1>3, <2>2, Unordered
  <2>3. QED
    BY <2>1, <2>2
<1>5. itemsMap' \in [Photos -> Rows' \union {NoRow}]
  BY <1>1, <1>3, <1>4, MapOfRows DEF Rows
<1>6. currentRow' \in Rows' \union {NoRow}
  <2>1. visibleIndexes' # <<>> => 1 \in DOMAIN visibleIndexes'
    BY <1>4, EmptySeq
  <2>2. currentPhoto # NoPhoto => itemsMap'[currentPhoto] \in Rows' \union {NoRow}
    BY <1>1, <1>5
  <2>3. currentRow' =
          IF currentPhoto # NoPhoto /\ itemsMap'[currentPhoto] # NoRow
          THEN itemsMap'[currentPhoto]
          ELSE IF visibleIndexes' # <<>> THEN 1 ELSE NoRow
    BY DEF SetFormatFilter
  <2>4. QED
    BY <2>1, <2>2, <2>3 DEF Rows
<1>7. currentRow' \in Nat
  BY <1>4, <1>6 DEF Rows, NoRow
<1>8. /\ currentPhoto' \in Photos \union {NoPhoto} /\ viewMode' = viewMode
      /\ previewRow' \in Nat /\ previewPhoto' \in Photos \union {NoPhoto}
  <2>1. CASE currentRow' = NoRow
    BY <2>1 DEF SetFormatFilter, previewVars, RowsInv, TypeOK
  <2>2. CASE currentRow' # NoRow
    <3>1. currentRow' \in DOMAIN visibleIndexes' /\ SetPhotoIndex
      BY <1>6, <2>2 DEF SetFormatFilter, Rows
    <3>2. allPhotos[visibleIndexes'[currentRow']] \in Photos
      BY <1>1, <1>4, <3>1
    <3>3. currentPhoto' \in Photos
      BY <2>2, <3>2 DEF SetFormatFilter
    <3>4. QED
      BY <1>1, <1>3, <1>4, <3>1, <3>3, PhotoForPreview DEF RowsInv
  <2>3. QED
    BY <2>1, <2>2
<1>9. TypeOK'
  BY <1>3, <1>4, <1>5, <1>7, <1>8 DEF RowsInv, TypeOK
<1>10. PhotosOnce' /\ Positions' /\ RowsAreSorted' /\ CurrentIsARow'
  BY <1>3, <1>4, <1>6
     DEF RowsInv, PhotosOnce, Positions, RowsAreSorted, CurrentIsARow, Rows, PhotoAt
<1>11. QED
  BY <1>3, <1>9, <1>10 DEF RowsInv

LEMMA ResortKeeps ==
  ASSUME RowsInv, NEW fields \in SUBSET ToSet(SortFields), NEW order \in SortOrders,
         Resort(fields, order)
  PROVE  RowsInv'
<1>1. /\ allPhotos \in Seq(Photos) /\ visibleIndexes \in Seq(DOMAIN allPhotos)
      /\ IsInjective(visibleIndexes)
  BY DEF RowsInv, TypeOK, Positions
<1>2. /\ sortFields' = fields /\ sortOrder' = order
      /\ UNCHANGED <<arriving, allPhotos, formatFilter,
                     currentPhoto, currentRow, viewMode, previewRow, previewPhoto>>
  BY DEF Resort, viewVars, previewVars
<1>3. /\ visibleIndexes' \in Seq(DOMAIN allPhotos) /\ IsInjective(visibleIndexes')
      /\ ToSet(visibleIndexes') = ToSet(visibleIndexes) /\ Rows' = Rows
      /\ itemsMap' = RowMap(allPhotos, visibleIndexes')
      /\ \A i, j \in DOMAIN visibleIndexes' : i < j =>
           ~ Precedes(fields, order, allPhotos[visibleIndexes'[j]], allPhotos[visibleIndexes'[i]])
  <2>1. CASE fields # {}
    <3>1. /\ visibleIndexes' \in Sorted(fields, order, allPhotos, visibleIndexes)
          /\ itemsMap' = RowMap(allPhotos, visibleIndexes')
      BY <2>1 DEF Resort
    <3>2. /\ visibleIndexes' \in Seq(DOMAIN allPhotos) /\ IsInjective(visibleIndexes')
          /\ ToSet(visibleIndexes') = ToSet(visibleIndexes)
          /\ DOMAIN visibleIndexes' = 1..Cardinality(ToSet(visibleIndexes))
          /\ \A i, j \in DOMAIN visibleIndexes' : i < j =>
               ~ Precedes(fields, order, allPhotos[visibleIndexes'[j]],
                          allPhotos[visibleIndexes'[i]])
      BY <1>1, <3>1, SortedRows
    <3>3. DOMAIN visibleIndexes = 1..Cardinality(ToSet(visibleIndexes))
      BY <1>1, ElementsOfList
    <3>4. QED
      BY <3>1, <3>2, <3>3 DEF Rows
  <2>2. CASE fields = {}
    <3>1. visibleIndexes' = visibleIndexes /\ itemsMap' = itemsMap
      BY <2>2 DEF Resort
    <3>2. QED
      BY <1>1, <2>2, <3>1, Unordered DEF RowsInv, Rows
  <2>3. QED
    BY <2>1, <2>2
<1>4. itemsMap' \in [Photos -> Rows' \union {NoRow}]
  BY <1>1, <1>3, MapOfRows DEF Rows
<1>5. TypeOK'
  BY <1>2, <1>3, <1>4 DEF RowsInv, TypeOK
<1>6. PhotosOnce' /\ Positions' /\ RowsAreSorted' /\ CurrentIsARow'
  BY <1>2, <1>3
     DEF RowsInv, PhotosOnce, Positions, RowsAreSorted, CurrentIsARow, Rows, PhotoAt
<1>7. QED
  BY <1>2, <1>3, <1>5, <1>6 DEF RowsInv

\* The invariant says nothing else of the view than its types and its row.
LEMMA ViewChanges ==
  ASSUME RowsInv,
         UNCHANGED <<arriving, allPhotos, visibleIndexes, itemsMap,
                     formatFilter, sortFields, sortOrder>>,
         currentRow' \in Rows \union {NoRow}, currentPhoto' \in Photos \union {NoPhoto},
         viewMode' \in ViewModes, previewRow' \in Nat, previewPhoto' \in Photos \union {NoPhoto}
  PROVE  RowsInv'
<1>1. currentRow' \in Nat
  BY RowIsNat DEF RowsInv, NoRow
<1>2. TypeOK'
  BY <1>1 DEF RowsInv, TypeOK, Rows
<1>3. PhotosOnce' /\ Positions' /\ RowsAreSorted' /\ CurrentIsARow'
  BY DEF RowsInv, PhotosOnce, Positions, RowsAreSorted, CurrentIsARow, Rows, PhotoAt
<1>4. QED
  BY <1>2, <1>3 DEF RowsInv

LEMMA SelectKeeps ==
  ASSUME RowsInv, NEW row \in Rows, Select(row)
  PROVE  RowsInv'
<1>1. /\ UNCHANGED <<arriving, allPhotos, visibleIndexes, itemsMap,
                     formatFilter, sortFields, sortOrder>>
      /\ currentRow' = row /\ currentPhoto' = PhotoAt(row) /\ SetPhotoIndex
  BY DEF Select, settingVars
<1>2. TypeOK /\ PhotoAt(row) \in Photos
  BY RowIsNat DEF RowsInv
<1>3. /\ previewRow' \in Nat /\ previewPhoto' \in Photos \union {NoPhoto}
      /\ viewMode' = viewMode
  BY <1>1, <1>2, PhotoForPreview DEF TypeOK, Rows
<1>4. QED
  BY <1>1, <1>2, <1>3, ViewChanges DEF TypeOK

LEMMA ViewModeKeeps ==
  ASSUME RowsInv, NEW mode \in ViewModes, SetViewMode(mode)
  PROVE  RowsInv'
<1>1. /\ UNCHANGED <<arriving, allPhotos, visibleIndexes, itemsMap,
                     formatFilter, sortFields, sortOrder, currentPhoto, currentRow>>
      /\ viewMode' = mode
      /\ previewRow' = IF mode = "Preview" THEN currentRow ELSE NoRow
      /\ previewPhoto' = IF mode = "Preview" /\ currentRow # NoRow
                         THEN PhotoAt(currentRow) ELSE NoPhoto
  BY DEF SetViewMode, settingVars
<1>2. TypeOK /\ currentRow \in Rows \union {NoRow} /\ \A row \in Rows : PhotoAt(row) \in Photos
  BY RowIsNat DEF RowsInv, CurrentIsARow
<1>3. previewRow' \in Nat /\ previewPhoto' \in Photos \union {NoPhoto}
  BY <1>1, <1>2 DEF TypeOK, NoRow
<1>4. QED
  BY <1>1, <1>2, <1>3, ViewChanges DEF TypeOK

LEMMA PreviewKeeps ==
  ASSUME RowsInv, NEW p \in Photos, PreviewLoaded(p)
  PROVE  RowsInv'
<1>1. /\ UNCHANGED <<arriving, allPhotos, visibleIndexes, itemsMap, formatFilter, sortFields,
                     sortOrder, currentPhoto, currentRow, viewMode, previewRow>>
      /\ previewPhoto' = p
  BY DEF PreviewLoaded, settingVars
<1>2. QED
  BY <1>1, ViewChanges DEF RowsInv, TypeOK, CurrentIsARow

LEMMA RowsStep == RowsInv /\ [Next]_vars => RowsInv'
<1> SUFFICES ASSUME RowsInv, [Next]_vars
             PROVE  RowsInv'
  OBVIOUS
<1>1. CASE UNCHANGED vars
  BY <1>1, ViewChanges
     DEF vars, settingVars, viewVars, previewVars, RowsInv, TypeOK, CurrentIsARow
<1>2. CASE \E s \in Sources : SetSource(s)
  BY <1>2, SetSourceKeeps
<1>3. CASE \E batch \in Batches : PhotosLoaded(batch) \/ PhotosIgnored(batch)
  BY <1>3, LoadedKeeps, IgnoredKeeps
<1>4. CASE \E formats \in Filters : SetFormatFilter(formats)
  BY <1>4, FilterKeeps
<1>5. CASE \E i \in DOMAIN SortFields : SetSortFields(SortFields[i])
  <2>1. PICK i \in DOMAIN SortFields : Resort({SortFields[i]}, sortOrder)
    BY <1>5 DEF SetSortFields
  <2>2. {SortFields[i]} \in SUBSET ToSet(SortFields) /\ sortOrder \in SortOrders
    BY DEF ToSet, RowsInv, TypeOK
  <2>3. QED
    BY <2>1, <2>2, ResortKeeps
<1>6. CASE \E order \in SortOrders : SetSortOrder(order)
  BY <1>6, ResortKeeps DEF SetSortOrder, RowsInv, TypeOK
<1>7. CASE \E row \in Rows : Select(row)
  BY <1>7, SelectKeeps
<1>8. CASE \E mode \in ViewModes : SetViewMode(mode)
  BY <1>8, ViewModeKeeps
<1>9. CASE \E p \in Photos : PreviewLoaded(p)
  BY <1>9, PreviewKeeps
<1>10. QED
  BY <1>1, <1>2, <1>3, <1>4, <1>5, <1>6, <1>7, <1>8, <1>9 DEF Next

-----------------------------------------------------------------------------
(* What the rows say.                                                      *)

LEMMA MinOfTwo ==
  ASSUME NEW a \in Int, NEW b \in Int
  PROVE  Min({a, b}) = IF a <= b THEN a ELSE b
<1> DEFINE m == IF a <= b THEN a ELSE b
<1>1. m \in {a, b} /\ \A y \in {a, b} : m <= y
  OBVIOUS
<1>2. Min({a, b}) \in {a, b} /\ \A y \in {a, b} : Min({a, b}) <= y
  BY <1>1 DEF Min
<1>3. QED
  BY <1>1, <1>2

LEMMA PagesAround ==
  ASSUME NEW count \in Nat, NEW first \in Nat, NEW last \in Nat, first <= last,
         NEW pages \in {1, 4}
  PROVE  LET rows == PrefetchPage(first, last - first + 1, pages, count)
         IN /\ rows \subseteq 0..(count - 1)
            /\ rows \intersect first..last = {}
            /\ (last + 1)..(2 * last - first + 1) \intersect 0..(count - 1) \subseteq rows
<1> DEFINE size == last - first + 1
           ahead == pages * size
           from == Min({first, count})
           start == from - Min({from, ahead})
           next == Min({count, from + size})
           end == next + Min({count - next, ahead})
<1>1. size \in Nat \ {0} /\ ahead \in Nat /\ ahead >= size
  OBVIOUS
<1>2. from = IF first <= count THEN first ELSE count
  BY MinOfTwo
<1> HIDE DEF ahead, from
<1>3. from \in Nat /\ from <= count
  BY <1>2
<1>4. start = from - (IF from <= ahead THEN from ELSE ahead)
  BY <1>1, <1>3, MinOfTwo
<1>5. next = IF count <= from + size THEN count ELSE from + size
  BY <1>1, <1>3, MinOfTwo
<1> HIDE DEF start, next
<1>6. next \in Nat /\ next <= count
  BY <1>1, <1>3, <1>5
<1>7. end = next + (IF count - next <= ahead THEN count - next ELSE ahead)
  BY <1>1, <1>6, MinOfTwo
<1> HIDE DEF end
<1>8. PrefetchPage(first, size, pages, count) = (start..(end - 1)) \ (from..(next - 1))
  BY DEF PrefetchPage, start, end, from, next, ahead
<1>9. start \in Nat /\ start <= from /\ end \in Nat /\ end <= count /\ next <= end
  BY <1>1, <1>3, <1>4, <1>6, <1>7
<1>10. (start..(end - 1)) \ (from..(next - 1)) \subseteq 0..(count - 1)
  BY <1>9
<1>11. ASSUME NEW x \in (start..(end - 1)) \ (from..(next - 1)), x \in first..last
       PROVE  FALSE
  BY <1>2, <1>5, <1>9, <1>11
<1>12. ASSUME NEW x \in (last + 1)..(2 * last - first + 1), x \in 0..(count - 1)
       PROVE  x \in (start..(end - 1)) \ (from..(next - 1))
  <2>1. from = first /\ next = last + 1
    BY <1>2, <1>5, <1>12
  <2>2. x <= end - 1
    BY <1>1, <1>7, <1>12, <2>1
  <2>3. QED
    BY <1>9, <1>12, <2>1, <2>2
<1>13. QED
  BY <1>8, <1>10, <1>11, <1>12

LEMMA RowsSoundNow == RowsInv => RowsAreSound
<1> SUFFICES ASSUME RowsInv
             PROVE  RowsAreSound
  OBVIOUS
<1>1. /\ TypeOK /\ allPhotos \in Seq(Photos) /\ visibleIndexes \in Seq(DOMAIN allPhotos)
      /\ itemsMap = RowMap(allPhotos, visibleIndexes)
  BY DEF RowsInv, TypeOK
<1>2. MapLeadsToRow
  BY <1>1, MapOfRows DEF MapLeadsToRow, Rows, PhotoAt
<1>3. RowsAreAccepted
  <2>1. ToSet(visibleIndexes) = {i \in DOMAIN allPhotos : Accepts(formatFilter, allPhotos[i])}
    BY DEF RowsInv, Positions, Passing
  <2>2. {PhotoAt(row) : row \in Rows} = {allPhotos[i] : i \in ToSet(visibleIndexes)}
    BY DEF ToSet, Rows, PhotoAt
  <2>3. {PhotoAt(row) : row \in Rows} = {p \in ToSet(allPhotos) : Accepts(formatFilter, p)}
    BY <2>1, <2>2 DEF ToSet
  <2>4. Cardinality(ToSet(visibleIndexes)) = Len(visibleIndexes)
    BY <1>1, ElementsOfList DEF RowsInv, Positions
  <2>5. QED
    BY <2>3, <2>4 DEF RowsAreAccepted
<1>4. PrefetchInRows
  <2>1. Len(visibleIndexes) \in Nat
    BY <1>1
  <2>2. SUFFICES ASSUME NEW first \in 0..(Len(visibleIndexes) + 1),
                        NEW last \in 0..(Len(visibleIndexes) + 2), NEW layout \in ViewModes,
                        first <= last
                 PROVE  LET rows == PrefetchInView(first, last, layout, Len(visibleIndexes))
                        IN /\ rows \subseteq 0..(Len(visibleIndexes) - 1)
                           /\ rows \intersect first..last = {}
                           /\ (last + 1)..(2 * last - first + 1)
                                \intersect 0..(Len(visibleIndexes) - 1) \subseteq rows
    BY DEF PrefetchInRows
  <2>3. first \in Nat /\ last \in Nat
    BY <2>1
  <2>4. PICK pages \in {1, 4} :
          PrefetchInView(first, last, layout, Len(visibleIndexes))
            = PrefetchPage(first, last - first + 1, pages, Len(visibleIndexes))
    BY DEF PrefetchInView
  <2> DEFINE rows == PrefetchPage(first, last - first + 1, pages, Len(visibleIndexes))
             around == (last + 1)..(2 * last - first + 1)
  <2>5. /\ rows \subseteq 0..(Len(visibleIndexes) - 1)
        /\ rows \intersect first..last = {}
        /\ around \intersect 0..(Len(visibleIndexes) - 1) \subseteq rows
    BY <2>1, <2>2, <2>3, PagesAround
  <2>6. rows = PrefetchInView(first, last, layout, Len(visibleIndexes))
    BY <2>4
  <2> HIDE DEF rows
  <2>7. QED
    BY <2>2, <2>5, <2>6
<1>5. QED
  BY <1>1, <1>2, <1>3, <1>4 DEF RowsAreSound, RowsInv

\* The rows of the browser are the photos that pass the filter, each once and in
\* the order asked for, each id leads to its row, and scrolling asks for rows
\* there are: after any batches, filters, orders, switches and clicks.
THEOREM RowsSound == Spec => []RowsAreSound
BY RowsInit, RowsStep, RowsSoundNow, PTL DEF Spec

\* One row shows a photo, and it is the one the map says.
EachRowOnce ==
  \A row \in Rows :
    itemsMap[PhotoAt(row)] = row /\ PhotoAt(row) \in Photos /\ row # NoRow

LEMMA OneRow == RowsInv => EachRowOnce
<1> SUFFICES ASSUME RowsInv, NEW row \in Rows
             PROVE  itemsMap[PhotoAt(row)] = row /\ PhotoAt(row) \in Photos /\ row # NoRow
  BY DEF EachRowOnce
<1>1. /\ allPhotos \in Seq(Photos) /\ visibleIndexes \in Seq(DOMAIN allPhotos)
      /\ itemsMap = RowMap(allPhotos, visibleIndexes)
  BY DEF RowsInv, TypeOK
<1>2. PhotoAt(row) \in Photos /\ row # NoRow
  BY RowIsNat DEF RowsInv
<1>3. /\ itemsMap[PhotoAt(row)] \in Rows
      /\ allPhotos[visibleIndexes[itemsMap[PhotoAt(row)]]] = allPhotos[visibleIndexes[row]]
  BY <1>1, <1>2, MapOfRows DEF Rows, PhotoAt
<1>4. visibleIndexes[itemsMap[PhotoAt(row)]] = visibleIndexes[row]
  BY <1>1, <1>3 DEF RowsInv, PhotosOnce, IsInjective, Rows
<1>5. itemsMap[PhotoAt(row)] = row
  BY <1>3, <1>4 DEF RowsInv, Positions, IsInjective, Rows
<1>6. QED
  BY <1>2, <1>5

\* When photos come or the filter changes, the current index is where the
\* current photo is, if there is such a row.
THEOREM IndexFollows == Spec => CurrentIndexFollows
<1> DEFINE Follows ==
      allPhotos' # allPhotos \/ formatFilter' # formatFilter
      => \A row \in DOMAIN visibleIndexes' :
           allPhotos'[visibleIndexes'[row]] = currentPhoto' => currentRow' = row
<1>1. RowsInv' /\ EachRowOnce' /\ [Next]_vars => Follows
  <2> SUFFICES ASSUME RowsInv', EachRowOnce', [Next]_vars,
                      allPhotos' # allPhotos \/ formatFilter' # formatFilter,
                      NEW row \in DOMAIN visibleIndexes',
                      allPhotos'[visibleIndexes'[row]] = currentPhoto'
               PROVE  currentRow' = row
    OBVIOUS
  <2>1. itemsMap'[currentPhoto'] = row /\ currentPhoto' \in Photos /\ row # NoRow
    BY DEF EachRowOnce, Rows, PhotoAt
  <2>2. currentPhoto' # NoPhoto
    BY <2>1, BrowserAssumption
  <2>3. CASE \E s \in Sources : SetSource(s)
    BY <2>3 DEF SetSource
  <2>4. CASE \E batch \in Batches : PhotosLoaded(batch)
    BY <2>1, <2>2, <2>4 DEF PhotosLoaded, RestoreCurrentPhoto
  <2>5. CASE \E formats \in Filters : SetFormatFilter(formats)
    <3>1. PICK formats \in Filters : SetFormatFilter(formats)
      BY <2>5
    <3>2. currentRow' # NoRow
      BY <2>2, <3>1 DEF SetFormatFilter
    <3>3. currentRow' \in Rows'
      BY <3>2 DEF RowsInv, CurrentIsARow
    <3>4. allPhotos'[visibleIndexes'[currentRow']] = currentPhoto'
      BY <3>1, <3>2 DEF SetFormatFilter
    <3>5. itemsMap'[currentPhoto'] = currentRow'
      BY <3>3, <3>4 DEF EachRowOnce, Rows, PhotoAt
    <3>6. QED
      BY <2>1, <3>5
  <2>6. CASE UNCHANGED <<allPhotos, formatFilter>>
    BY <2>6
  <2>7. QED
    BY <2>3, <2>4, <2>5, <2>6
       DEF Next, vars, settingVars, PhotosIgnored, SetSortFields, SetSortOrder, Resort, Select,
           SetViewMode, PreviewLoaded
<1>2. CurrentIndexFollows <=> [][Follows]_vars
  BY DEF CurrentIndexFollows
<1> HIDE DEF Follows
<1>3. QED
  BY RowsInit, RowsStep, OneRow, <1>1, <1>2, PTL DEF Spec

\* A photo that becomes current is shown large at once, and otherwise only the
\* preview of the row that is shown: whatever previews are reported when.
THEOREM PreviewFollowsRow == Spec => PreviewFollows
<1> DEFINE Follows ==
      /\ viewMode' = "Preview" /\ currentPhoto' \notin {currentPhoto, NoPhoto}
           => previewPhoto' = currentPhoto'
      /\ viewMode' = "Preview" /\ previewPhoto' \notin {previewPhoto, NoPhoto}
           => \/ previewPhoto' = currentPhoto'
              \/ previewPhoto' = allPhotos'[visibleIndexes'[previewRow']]
<1>1. RowsInv /\ [Next]_vars => Follows
  <2> SUFFICES ASSUME RowsInv, [Next]_vars
               PROVE  Follows
    OBVIOUS
  <2>1. CASE UNCHANGED <<currentPhoto, previewPhoto>>
    BY <2>1
  <2>2. CASE \E batch \in Batches : PhotosLoaded(batch)
    BY <2>2 DEF PhotosLoaded, RestoreCurrentPhoto, SetPhotoIndex, previewVars
  <2>3. CASE \E formats \in Filters : SetFormatFilter(formats)
    BY <2>3 DEF SetFormatFilter, SetPhotoIndex, previewVars
  <2>4. CASE \E row \in Rows : Select(row)
    BY <2>4 DEF Select, SetPhotoIndex, PhotoAt
  <2>5. CASE \E mode \in ViewModes : SetViewMode(mode)
    BY <2>5 DEF SetViewMode, PhotoAt
  <2>6. CASE \E p \in Photos : PreviewLoaded(p)
    <3>1. PICK p \in Photos : PreviewLoaded(p)
      BY <2>6
    <3>2. MapLeadsToRow
      BY RowsSoundNow DEF RowsAreSound
    <3>3. PhotoAt(previewRow) = p
      BY <3>1, <3>2 DEF MapLeadsToRow, PreviewLoaded
    <3>4. QED
      BY <3>1, <3>3 DEF PreviewLoaded, PhotoAt
  <2>7. QED
    BY <2>1, <2>2, <2>3, <2>4, <2>5, <2>6
       DEF Next, vars, settingVars, viewVars, previewVars, SetSource, PhotosIgnored,
           SetSortFields, SetSortOrder, Resort
<1>2. PreviewFollows <=> [][Follows]_vars
  BY DEF PreviewFollows
<1> HIDE DEF Follows
<1>3. QED
  BY RowsInit, RowsStep, <1>1, <1>2, PTL DEF Spec

-----------------------------------------------------------------------------
(* The settings file.                                                      *)

\* A file gives what was put in under a key, if nothing else was.
LEMMA FileOfPairs ==
  ASSUME NEW pairs, NEW key, NEW v, <<key, v>> \in pairs,
         \A e \in pairs : e[1] = key => e[2] = v
  PROVE  key \in DOMAIN File(pairs) /\ File(pairs)[key] = v
<1>1. \E e \in pairs : e[1] = key
  OBVIOUS
<1>2. (CHOOSE e \in pairs : e[1] = key)[2] = v
  BY <1>1
<1>3. QED
  BY <1>1, <1>2 DEF File

LEMMA KeysOfFile ==
  ASSUME NEW pairs
  PROVE  DOMAIN File(pairs) = {e[1] : e \in pairs}
BY DEF File

\* The states the user interface can be in.
BrowserStates ==
  [viewMode : ViewModes, photo : Photos \union {NoPhoto}, filter : Filters,
   fields : SUBSET ToSet(SortFields), order : SortOrders]

StateType ==
  /\ uiMode \in UiModes \union {"Off"}
  /\ path \in Paths \union {NoPath} /\ query \in Queries \union {NoQuery}
  /\ browser \in [BrowserModes -> BrowserStates]
  /\ DOMAIN sections \subseteq Sections /\ sections = [s \in DOMAIN sections |-> sections[s]]
  /\ libraryPanel => uiMode # "Off"

\* What saveState writes.
Pairs(mode, p, q, library, browsers, states) ==
  {<<<<"ui", "mode">>, IntValue(ModeNumber[mode])>>,
   <<<<"ui", "path">>, Text(Utf8(p))>>,
   <<<<"ui", "currentId">>, IntValue(library)>>}
  \union SavedQuery(q)
  \union SavedBrowser("folders", browsers["Folders"])
  \union SavedBrowser("library", browsers["Library"])
  \union {<<<<"section", s>>, <<"bool", states[s]>>>> : s \in DOMAIN states}

\* The groups of keys.
LEMMA Groups ==
  ASSUME NEW mode, NEW p, NEW q, NEW library, NEW browsers, NEW states
  PROVE  /\ \A e \in Pairs(mode, p, q, library, browsers, states) :
              \/ e \in {<<<<"ui", "mode">>, IntValue(ModeNumber[mode])>>,
                        <<<<"ui", "path">>, Text(Utf8(p))>>,
                        <<<<"ui", "currentId">>, IntValue(library)>>}
              \/ e \in SavedQuery(q) /\ e[1][1] = "query"
              \/ e \in SavedBrowser("folders", browsers["Folders"]) /\ e[1][1] = "folders"
              \/ e \in SavedBrowser("library", browsers["Library"]) /\ e[1][1] = "library"
              \/ \E s \in DOMAIN states : e = <<<<"section", s>>, <<"bool", states[s]>>>>
<1>1. \A e \in SavedQuery(q) : e[1][1] = "query"
  BY DEF SavedQuery
<1>2. \A group, b : \A e \in SavedBrowser(group, b) : e[1][1] = group
  BY DEF SavedBrowser
<1>3. QED
  BY <1>1, <1>2 DEF Pairs

LEMMA ShortLists ==
  ASSUME NEW a, NEW b, NEW c
  PROVE  <<a>> \o <<b>> = <<a, b>> /\ <<a>> \o <<b, c>> = <<a, b, c>>
<1> DEFINE S == {a, b, c}
<1>1. ASSUME NEW s \in Seq(S), NEW t \in Seq(S)
      PROVE  /\ s \o t \in Seq(S) /\ Len(s \o t) = Len(s) + Len(t)
             /\ \A i \in 1..(Len(s) + Len(t)) :
                  (s \o t)[i] = IF i <= Len(s) THEN s[i] ELSE t[i - Len(s)]
  BY ConcatProperties, Zenon
<1>2. <<a>> \in Seq(S) /\ <<b>> \in Seq(S) /\ <<b, c>> \in Seq(S)
  OBVIOUS
<1>3. <<a>> \o <<b>> = <<a, b>>
  <2>1. /\ <<a>> \o <<b>> \in Seq(S) /\ Len(<<a>> \o <<b>>) = 2
        /\ (<<a>> \o <<b>>)[1] = a /\ (<<a>> \o <<b>>)[2] = b
    BY <1>1, <1>2
  <2> DEFINE s == <<a>> \o <<b>>
             t == <<a, b>>
  <2>2. t \in Seq(S) /\ Len(t) = 2 /\ t[1] = a /\ t[2] = b
    OBVIOUS
  <2> HIDE DEF s, t
  <2>3. \A i \in 1..Len(s) : s[i] = t[i]
    BY <2>1, <2>2 DEF s
  <2>4. s = t
    BY <2>1, <2>2, <2>3, SeqEqual DEF s
  <2>5. QED
    BY <2>4 DEF s, t
<1>4. <<a>> \o <<b, c>> = <<a, b, c>>
  <2>1. /\ <<a>> \o <<b, c>> \in Seq(S) /\ Len(<<a>> \o <<b, c>>) = 3
        /\ (<<a>> \o <<b, c>>)[1] = a /\ (<<a>> \o <<b, c>>)[2] = b
        /\ (<<a>> \o <<b, c>>)[3] = c
    BY <1>1, <1>2
  <2> DEFINE s == <<a>> \o <<b, c>>
             t == <<a, b, c>>
  <2>2. t \in Seq(S) /\ Len(t) = 3 /\ t[1] = a /\ t[2] = b /\ t[3] = c
    OBVIOUS
  <2> HIDE DEF s, t
  <2>3. \A i \in 1..Len(s) : s[i] = t[i]
    BY <2>1, <2>2 DEF s
  <2>4. s = t
    BY <2>1, <2>2, <2>3, SeqEqual DEF s
  <2>5. QED
    BY <2>4 DEF s, t
<1>5. QED
  BY <1>3, <1>4

LEMMA SavedBrowserOnce ==
  ASSUME NEW group, NEW b, NEW d \in SavedBrowser(group, b), NEW e \in SavedBrowser(group, b),
         d[1] = e[1]
  PROVE  d[2] = e[2]
<1> DEFINE mode == IntValue(ViewModeNumber[b.viewMode])
           photo == Text(Utf8(b.photo))
           filter == <<"list", b.filter \intersect SavedFormats>>
           D == {<<<<group, "viewMode">>, mode>>, <<<<group, "currentPhoto">>, photo>>,
                 <<<<group, "formatFilter">>, filter>>}
<1>1. d \in D /\ e \in D
  BY DEF SavedBrowser
<1> HIDE DEF mode, photo, filter
<1>2. QED
  BY <1>1

\* No key is written twice, and each is read as it was written.
LEMMA KeysOnce ==
  ASSUME NEW mode, NEW p, NEW q \in LibraryQueries, NEW library, NEW browsers, NEW states,
         NEW d \in Pairs(mode, p, q, library, browsers, states),
         NEW e \in Pairs(mode, p, q, library, browsers, states), d[1] = e[1]
  PROVE  d[2] = e[2]
<1>1. CASE d[1][1] = "ui"
  BY <1>1, Groups
<1>2. CASE d[1][1] = "query"
  <2>1. d \in SavedQuery(q) /\ e \in SavedQuery(q)
    BY <1>2, Groups
  <2> DEFINE v == q.value
  <2>2. v[1] \in {"none", "int", "int64", "string", "dateRange", "equipment"}
    BY DEF LibraryQueries
  <2> HIDE DEF v
  <2>3. CASE v[1] = "none"
    BY <2>1, <2>3 DEF SavedQuery, v
  <2>4. CASE v[1] = "dateRange"
    BY <2>1, <2>4 DEF SavedQuery, v
  <2>5. CASE v[1] = "equipment"
    BY <2>1, <2>5 DEF SavedQuery, v
  <2>6. CASE v[1] = "string"
    BY <2>1, <2>6 DEF SavedQuery, v
  <2>7. CASE v[1] \in {"int", "int64"}
    BY <2>1, <2>7 DEF SavedQuery, v
  <2>8. QED
    BY <2>2, <2>3, <2>4, <2>5, <2>6, <2>7
<1>3. CASE d[1][1] \in {"folders", "library"}
  <2>1. \/ /\ d \in SavedBrowser("folders", browsers["Folders"])
           /\ e \in SavedBrowser("folders", browsers["Folders"])
        \/ /\ d \in SavedBrowser("library", browsers["Library"])
           /\ e \in SavedBrowser("library", browsers["Library"])
    BY <1>3, Groups
  <2>2. QED
    BY <2>1, SavedBrowserOnce
<1>4. CASE d[1][1] = "section"
  <2>1. PICK s \in DOMAIN states : d = <<<<"section", s>>, <<"bool", states[s]>>>>
    BY <1>4, Groups
  <2>2. PICK t \in DOMAIN states : e = <<<<"section", t>>, <<"bool", states[t]>>>>
    BY <1>4, Groups
  <2>3. QED
    BY <2>1, <2>2
<1>5. QED
  BY <1>1, <1>2, <1>3, <1>4, Groups

LEMMA WrittenIsRead ==
  ASSUME NEW mode, NEW p, NEW q \in LibraryQueries, NEW library, NEW browsers, NEW states,
         NEW e \in Pairs(mode, p, q, library, browsers, states)
  PROVE  LET f == Saved(mode, p, q, library, browsers, states)
         IN e[1] \in DOMAIN f /\ f[e[1]] = e[2]
<1> DEFINE pairs == Pairs(mode, p, q, library, browsers, states)
<1>1. Saved(mode, p, q, library, browsers, states) = File(pairs)
  BY DEF Saved, Pairs
<1>2. \A d \in pairs : d[1] = e[1] => d[2] = e[2]
  BY KeysOnce
<1>3. e = <<e[1], e[2]>>
  BY Groups DEF SavedQuery, SavedBrowser
<1> HIDE DEF pairs
<1>4. QED
  BY <1>1, <1>2, <1>3, FileOfPairs DEF pairs

\* Of a query only a text is respelled.
LEMMA RespelledParts ==
  ASSUME NEW q \in LibraryQueries
  PROVE  /\ Respelled(q) = [library |-> q.library, representation |-> q.representation,
                            value |-> Respelled(q).value]
         /\ q.value[1] = "string" => Respelled(q).value = <<"string", Utf8(q.value[2])>>
         /\ q.value[1] # "string" => Respelled(q).value = q.value
<1>1. q = [library |-> q.library, representation |-> q.representation, value |-> q.value]
  BY DEF LibraryQueries
<1>2. CASE q.value[1] = "string"
  BY <1>1, <1>2 DEF Respelled
<1>3. CASE q.value[1] # "string"
  BY <1>1, <1>3 DEF Respelled
<1>4. QED
  BY <1>2, <1>3

\* Every form a query may have.
LEMMA QueryReadsBack ==
  ASSUME NEW mode, NEW p, NEW q \in LibraryQueries, NEW library, NEW browsers, NEW states
  PROVE  ReadQuery(Saved(mode, p, q, library, browsers, states)) = Respelled(q)
<1> DEFINE f == Saved(mode, p, q, library, browsers, states)
           v == q.value
           w == Respelled(q).value
           key(name) == <<"query", name>>
<1>1. ASSUME NEW k, NEW x, <<k, x>> \in SavedQuery(q)
      PROVE  k \in DOMAIN f /\ f[k] = x
  <2>1. <<k, x>> \in Pairs(mode, p, q, library, browsers, states)
    BY <1>1 DEF Pairs
  <2>2. QED
    BY <2>1, WrittenIsRead
<1> HIDE DEF f
<1>2. /\ key("libraryId") \in DOMAIN f /\ f[key("libraryId")] = <<"int", q.library>>
      /\ key("representationType") \in DOMAIN f
      /\ f[key("representationType")] = <<"int", q.representation>>
      /\ key("valueType") \in DOMAIN f /\ f[key("valueType")] = <<"text", v[1]>>
  <2>1. /\ <<key("libraryId"), <<"int", q.library>>>> \in SavedQuery(q)
        /\ <<key("representationType"), <<"int", q.representation>>>> \in SavedQuery(q)
        /\ <<key("valueType"), <<"text", v[1]>>>> \in SavedQuery(q)
    BY DEF SavedQuery, IntValue, Text
  <2>2. QED
    BY <1>1, <2>1
<1>3. Read(f, key("valueType"), "text", "") = v[1]
  BY <1>2 DEF Read, Has
<1> HIDE DEF w
<1>a. /\ v[1] = "string" => w = <<"string", Utf8(v[2])>>
      /\ v[1] # "string" => w = v
  BY RespelledParts DEF w
<1>4. ReadValue(f) = w /\ 1 \in DOMAIN w
  <2>1. CASE v = <<"none">>
    <3>1. v[1] = "none" /\ 1 \in DOMAIN v
      BY <2>1
    <3> HIDE DEF v
    <3>2. ReadValue(f) = <<"none">>
      BY <1>3, <3>1 DEF ReadValue
    <3>3. QED
      BY <1>a, <2>1, <3>1, <3>2
  <2>2. CASE v \in {"int", "int64"} \X Int
    <3>1. v = <<v[1], v[2]>> /\ v[1] \in {"int", "int64"} /\ 1 \in DOMAIN v
      BY <2>2
    <3>2. <<key("value"), <<"int", v[2]>>>> \in SavedQuery(q)
      BY <3>1 DEF SavedQuery, IntValue
    <3>3. key("value") \in DOMAIN f /\ f[key("value")] = <<"int", v[2]>>
      BY <1>1, <3>2
    <3> HIDE DEF v
    <3>4. [i \in DOMAIN <<"value">> |-> f[key(<<"value">>[i])][2]] = <<v[2]>>
      BY <3>3
    <3>5. \A i \in DOMAIN <<"value">> : Has(f, key(<<"value">>[i]), "int")
      BY <3>3 DEF Has
    <3>6. ReadValue(f) = <<v[1]>> \o <<v[2]>>
      BY <1>3, <3>1, <3>4, <3>5 DEF ReadValue
    <3>7. w = v
      BY <1>a, <3>1
    <3>8. QED
      BY <3>1, <3>6, <3>7, ShortLists
  <2>3. CASE v \in {"string"} \X STRING
    <3>1. v = <<"string", v[2]>> /\ v[1] = "string" /\ 1 \in DOMAIN v
      BY <2>3
    <3>2. <<key("value"), <<"text", Utf8(v[2])>>>> \in SavedQuery(q)
      BY <3>1 DEF SavedQuery, Text
    <3>3. key("value") \in DOMAIN f /\ f[key("value")] = <<"text", Utf8(v[2])>>
      BY <1>1, <3>2
    <3>4. Read(f, key("value"), "text", "") = Utf8(v[2])
      BY <3>3 DEF Read, Has
    <3> HIDE DEF v
    <3>5. ReadValue(f) = <<"string", Utf8(v[2])>>
      BY <1>3, <3>1, <3>4 DEF ReadValue
    <3>6. w = <<"string", Utf8(v[2])>> /\ 1 \in DOMAIN <<"string", Utf8(v[2])>>
      BY <1>a, <3>1
    <3>7. QED
      BY <3>5, <3>6
  <2>4. CASE v \in {"dateRange"} \X Int \X Int
    <3>1. v = <<v[1], v[2], v[3]>> /\ v[1] = "dateRange" /\ 1 \in DOMAIN v
      BY <2>4
    <3>2. /\ <<key("startTicks"), <<"int", v[2]>>>> \in SavedQuery(q)
          /\ <<key("endTicks"), <<"int", v[3]>>>> \in SavedQuery(q)
      BY <3>1 DEF SavedQuery, IntValue
    <3>3. /\ key("startTicks") \in DOMAIN f /\ f[key("startTicks")] = <<"int", v[2]>>
          /\ key("endTicks") \in DOMAIN f /\ f[key("endTicks")] = <<"int", v[3]>>
      BY <1>1, <3>2
    <3> DEFINE names == <<"startTicks", "endTicks">>
    <3> HIDE DEF v
    <3>4. [i \in DOMAIN names |-> f[key(names[i])][2]] = <<v[2], v[3]>>
      BY <3>3
    <3>5. \A i \in DOMAIN names : Has(f, key(names[i]), "int")
      BY <3>3 DEF Has
    <3>6. ReadValue(f) = <<v[1]>> \o <<v[2], v[3]>>
      BY <1>3, <3>1, <3>4, <3>5 DEF ReadValue
    <3>7. w = v
      BY <1>a, <3>1
    <3>8. QED
      BY <3>1, <3>6, <3>7, ShortLists
  <2>5. CASE v \in {"equipment"} \X (0..1) \X Int
    <3>1. v = <<v[1], v[2], v[3]>> /\ v[1] = "equipment" /\ v[2] \in 0..1 /\ 1 \in DOMAIN v
      BY <2>5
    <3>2. /\ <<key("equipmentKind"), <<"int", v[2]>>>> \in SavedQuery(q)
          /\ <<key("value"), <<"int", v[3]>>>> \in SavedQuery(q)
      BY <3>1 DEF SavedQuery, IntValue
    <3>3. /\ key("equipmentKind") \in DOMAIN f /\ f[key("equipmentKind")] = <<"int", v[2]>>
          /\ key("value") \in DOMAIN f /\ f[key("value")] = <<"int", v[3]>>
      BY <1>1, <3>2
    <3> DEFINE names == <<"equipmentKind", "value">>
    <3> HIDE DEF v
    <3>4. [i \in DOMAIN names |-> f[key(names[i])][2]] = <<v[2], v[3]>>
      BY <3>3
    <3>5. /\ \A i \in DOMAIN <<"value">> : Has(f, key(<<"value">>[i]), "int")
          /\ Read(f, key("equipmentKind"), "int", -1) = v[2]
      BY <3>3 DEF Has, Read
    <3>6. ReadValue(f) = <<v[1]>> \o <<v[2], v[3]>>
      BY <1>3, <3>1, <3>4, <3>5 DEF ReadValue
    <3>7. w = v
      BY <1>a, <3>1
    <3>8. QED
      BY <3>1, <3>6, <3>7, ShortLists
  <2>6. QED
    BY <2>1, <2>2, <2>3, <2>4, <2>5 DEF LibraryQueries
<1>5. /\ q.representation \in 0..4
      /\ Respelled(q) = [library |-> q.library, representation |-> q.representation, value |-> w]
  BY RespelledParts DEF LibraryQueries, w
<1> HIDE DEF v
<1>6. w # <<>>
  BY <1>4
<1>7. /\ Has(f, key("libraryId"), "int")
      /\ Read(f, key("representationType"), "int", -1) = q.representation
  BY <1>2 DEF Has, Read
<1>8. QED
  BY <1>2, <1>4, <1>5, <1>6, <1>7 DEF ReadQuery, f

LEMMA BrowserReadsBack ==
  ASSUME NEW mode, NEW p, NEW q \in LibraryQueries, NEW library,
         NEW browsers \in [BrowserModes -> BrowserStates], NEW states,
         NEW m \in BrowserModes
  PROVE  ReadBrowsers(Saved(mode, p, q, library, browsers, states))[m]
           = [viewMode |-> browsers[m].viewMode, photo |-> Utf8(browsers[m].photo),
              filter |-> browsers[m].filter, fields |-> {}, order |-> "Ascending"]
<1> DEFINE f == Saved(mode, p, q, library, browsers, states)
           group == IF m = "Folders" THEN "folders" ELSE "library"
           b == browsers[m]
<1>1. \A e \in SavedBrowser(group, b) : e[1] \in DOMAIN f /\ f[e[1]] = e[2]
  <2>1. SavedBrowser(group, b) \subseteq Pairs(mode, p, q, library, browsers, states)
    BY DEF Pairs, BrowserModes
  <2>2. QED
    BY <2>1, WrittenIsRead
<1>2. b \in BrowserStates /\ b.filter \in SUBSET SavedFormats
  BY UiAssumption DEF BrowserStates
<1> HIDE DEF f, b, group
<1>3. /\ <<group, "viewMode">> \in DOMAIN f
      /\ f[<<group, "viewMode">>] = <<"int", ViewModeNumber[b.viewMode]>>
      /\ <<group, "currentPhoto">> \in DOMAIN f
      /\ f[<<group, "currentPhoto">>] = <<"text", Utf8(b.photo)>>
      /\ <<group, "formatFilter">> \in DOMAIN f
      /\ f[<<group, "formatFilter">>] = <<"list", b.filter \intersect SavedFormats>>
  BY <1>1 DEF SavedBrowser, IntValue, Text
<1>4. /\ Read(f, <<group, "viewMode">>, "int", 0) = ViewModeNumber[b.viewMode]
      /\ Read(f, <<group, "currentPhoto">>, "text", NoPhoto) = Utf8(b.photo)
      /\ Read(f, <<group, "formatFilter">>, "list", {}) = b.filter \intersect SavedFormats
  BY <1>3 DEF Read, Has
<1>5. b.viewMode \in {"Grid", "Preview"}
  BY <1>2 DEF BrowserStates, ViewModes
<1>6. (IF ViewModeNumber[b.viewMode] = ViewModeNumber["Preview"] THEN "Preview" ELSE "Grid")
        = b.viewMode
  BY <1>5 DEF ViewModeNumber, ViewModes
<1>7. (b.filter \intersect SavedFormats) \intersect SavedFormats = b.filter
  BY <1>2
<1>8. ReadBrowser(f, group) =
        [viewMode |-> b.viewMode, photo |-> Utf8(b.photo), filter |-> b.filter,
         fields |-> {}, order |-> "Ascending"]
  BY <1>4, <1>6, <1>7 DEF ReadBrowser
<1>9. QED
  BY <1>8 DEF ReadBrowsers, f, b, group

LEMMA ModeReadsBack ==
  ASSUME NEW mode \in UiModes, NEW p, NEW q \in LibraryQueries, NEW library,
         NEW browsers, NEW states
  PROVE  LET f == Saved(mode, p, q, library, browsers, states)
         IN ReadMode(f) = mode /\ ReadPath(f) = Utf8(p) /\ ReadLibrary(f) = library
<1> DEFINE f == Saved(mode, p, q, library, browsers, states)
           E == {<<<<"ui", "mode">>, IntValue(ModeNumber[mode])>>,
                 <<<<"ui", "path">>, Text(Utf8(p))>>,
                 <<<<"ui", "currentId">>, IntValue(library)>>}
<1>1. \A e \in E : e[1] \in DOMAIN f /\ f[e[1]] = e[2]
  <2>1. E \subseteq Pairs(mode, p, q, library, browsers, states)
    BY DEF Pairs
  <2>2. QED
    BY <2>1, WrittenIsRead
<1> HIDE DEF f
<1>2. /\ <<"ui", "mode">> \in DOMAIN f /\ f[<<"ui", "mode">>] = <<"int", ModeNumber[mode]>>
      /\ <<"ui", "path">> \in DOMAIN f /\ f[<<"ui", "path">>] = <<"text", Utf8(p)>>
      /\ <<"ui", "currentId">> \in DOMAIN f /\ f[<<"ui", "currentId">>] = <<"int", library>>
  BY <1>1 DEF IntValue, Text
<1>3. Read(f, <<"ui", "mode">>, "int", 0) = ModeNumber[mode]
  BY <1>2 DEF Read, Has
<1>4. \A m \in UiModes : ModeNumber[m] = ModeNumber[mode] => m = mode
  BY DEF ModeNumber, UiModes, BrowserModes
<1>5. ReadMode(f) = mode
  BY <1>3, <1>4 DEF ReadMode
<1>6. ReadPath(f) = Utf8(p) /\ ReadLibrary(f) = library
  BY <1>2 DEF ReadPath, ReadLibrary, Read, Has
<1>7. QED
  BY <1>5, <1>6 DEF f

LEMMA SectionsReadBack ==
  ASSUME NEW mode, NEW p, NEW q \in LibraryQueries, NEW library, NEW browsers, NEW states,
         DOMAIN states \subseteq Sections, states = [s \in DOMAIN states |-> states[s]]
  PROVE  ReadSections(Saved(mode, p, q, library, browsers, states)) = states
<1> DEFINE f == Saved(mode, p, q, library, browsers, states)
           pairs == Pairs(mode, p, q, library, browsers, states)
<1>1. ASSUME NEW s \in DOMAIN states
      PROVE  <<"section", s>> \in DOMAIN f /\ f[<<"section", s>>][2] = states[s]
  <2>1. <<<<"section", s>>, <<"bool", states[s]>>>> \in pairs
    BY DEF Pairs
  <2>2. QED
    BY <2>1, WrittenIsRead
<1>2. ASSUME NEW s, <<"section", s>> \in DOMAIN f
      PROVE  s \in DOMAIN states
  <2>1. DOMAIN f = {e[1] : e \in pairs}
    BY KeysOfFile DEF Saved, Pairs
  <2>2. PICK e \in pairs : e[1] = <<"section", s>>
    BY <1>2, <2>1
  <2>3. QED
    BY <2>2, Groups
<1> HIDE DEF f
<1>3. {s \in Sections : <<"section", s>> \in DOMAIN f} = DOMAIN states
  BY <1>1, <1>2
<1>4. QED
  BY <1>1, <1>3 DEF ReadSections, f

-----------------------------------------------------------------------------
(* The inductive invariant of the user interface.                          *)

\* What a file names can be shown, and is spelled as it will be written again.
NamesShown(f) ==
  /\ ReadPath(f) \in Paths \union {NoPath} /\ Utf8(ReadPath(f)) = ReadPath(f)
  /\ ReadQuery(f) \in Queries \union {NoQuery} /\ Respelled(ReadQuery(f)) = ReadQuery(f)
  /\ \A mode \in BrowserModes :
       /\ ReadBrowsers(f)[mode].photo \in Photos \union {NoPhoto}
       /\ Utf8(ReadBrowsers(f)[mode].photo) = ReadBrowsers(f)[mode].photo
       /\ ReadBrowsers(f)[mode].filter \in Filters

\* The mode's state is what the view shows.
ViewIsOfMode ==
  uiMode \in BrowserModes =>
    /\ browser[uiMode].viewMode = viewMode
    /\ browser[uiMode].photo = currentPhoto
    /\ browser[uiMode].filter = formatFilter

\* What the view has and what is to come is of its source.
SourceKept ==
  uiMode \in BrowserModes =>
    \A s \in ViewSources(uiMode, path, query) : ToSet(allPhotos) \union arriving \subseteq Content[s]

\* The file is right where the last save did not fail, and can be read always.
FileKept == unsaved \in Nat /\ RestartKeepsState /\ NamesShown(file)

UiInv ==
  /\ RowsInv /\ StateType
  /\ ViewIsOfMode /\ SortAgrees /\ SourceKept
  /\ FileKept

LEMMA QueriesTyped == Queries \union {NoQuery} \subseteq LibraryQueries
BY UiAssumption DEF NoQuery, LibraryQueries

\* What has been respelled stays.
LEMMA RespelledNames ==
  /\ \A p \in Paths \union {NoPath} : Utf8(p) \in Paths \union {NoPath} /\ Utf8(Utf8(p)) = Utf8(p)
  /\ \A p \in Photos \union {NoPhoto} :
       Utf8(p) \in Photos \union {NoPhoto} /\ Utf8(Utf8(p)) = Utf8(p)
  /\ \A q \in Queries \union {NoQuery} :
       Respelled(q) \in Queries \union {NoQuery} /\ Respelled(Respelled(q)) = Respelled(q)
<1>1. Respelled(NoQuery) = NoQuery
  BY DEF Respelled, NoQuery
<1>2. QED
  BY <1>1, Utf8Assumption

\* What is saved reads back.
LEMMA SavedReadsBack ==
  ASSUME StateType', uiMode' # "Off",
         file' = Saved(uiMode', path', query', currentLibrary', browser', sections')
  PROVE  RestartKeepsState' /\ NamesShown(file)'
<1>1. /\ uiMode' \in UiModes /\ query' \in LibraryQueries
      /\ path' \in Paths \union {NoPath} /\ query' \in Queries \union {NoQuery}
      /\ browser' \in [BrowserModes -> BrowserStates]
      /\ DOMAIN sections' \subseteq Sections /\ sections' = [s \in DOMAIN sections' |-> sections'[s]]
  BY QueriesTyped DEF StateType
<1>2. /\ ReadMode(file') = uiMode' /\ ReadPath(file') = Utf8(path')
      /\ ReadLibrary(file') = currentLibrary'
  BY <1>1, ModeReadsBack
<1>3. ReadQuery(file') = Respelled(query')
  BY <1>1, QueryReadsBack
<1>4. ReadSections(file') = sections'
  BY <1>1, SectionsReadBack
<1>5. ASSUME NEW m \in BrowserModes
      PROVE  /\ ReadBrowsers(file')[m].viewMode = browser'[m].viewMode
             /\ ReadBrowsers(file')[m].photo = Utf8(browser'[m].photo)
             /\ ReadBrowsers(file')[m].filter = browser'[m].filter
  <2> DEFINE b == browser'[m]
             r == ReadBrowsers(file')[m]
  <2>1. r = [viewMode |-> b.viewMode, photo |-> Utf8(b.photo),
             filter |-> b.filter, fields |-> {}, order |-> "Ascending"]
    BY <1>1, BrowserReadsBack
  <2> HIDE DEF b, r
  <2>2. r.viewMode = b.viewMode /\ r.photo = Utf8(b.photo) /\ r.filter = b.filter
    BY <2>1
  <2>3. QED
    BY <2>2 DEF b, r
<1>6. RestartKeepsState'
  BY <1>2, <1>3, <1>4, <1>5 DEF RestartKeepsState
<1>7. NamesShown(file)'
  <2>1. ASSUME NEW m \in BrowserModes
        PROVE  /\ ReadBrowsers(file')[m].photo \in Photos \union {NoPhoto}
               /\ Utf8(ReadBrowsers(file')[m].photo) = ReadBrowsers(file')[m].photo
               /\ ReadBrowsers(file')[m].filter \in Filters
    <3>1. browser'[m].photo \in Photos \union {NoPhoto} /\ browser'[m].filter \in Filters
      BY <1>1 DEF BrowserStates
    <3>2. QED
      BY <1>5, <3>1, RespelledNames
  <2>2. /\ ReadPath(file') \in Paths \union {NoPath} /\ Utf8(ReadPath(file')) = ReadPath(file')
        /\ ReadQuery(file') \in Queries \union {NoQuery}
        /\ Respelled(ReadQuery(file')) = ReadQuery(file')
    BY <1>1, <1>2, <1>3, RespelledNames
  <2>3. QED
    BY <2>1, <2>2 DEF NamesShown
<1>8. QED
  BY <1>6, <1>7

\* A save writes the file right, or leaves it as it was, and that is counted.
LEMMA SaveReads ==
  ASSUME FileKept, StateType', uiMode' # "Off", Save
  PROVE  FileKept'
<1>1. CASE /\ file' = Saved(uiMode', path', query', currentLibrary', browser', sections')
           /\ unsaved' = 0
  BY <1>1, SavedReadsBack DEF FileKept
<1>2. CASE unsaved' = unsaved + 1 /\ UNCHANGED file
  <2>1. unsaved' \in Nat /\ unsaved' # 0
    BY <1>2 DEF FileKept
  <2>2. NamesShown(file)'
    BY <1>2 DEF FileKept, NamesShown
  <2>3. QED
    BY <2>1, <2>2 DEF FileKept, RestartKeepsState
<1>3. QED
  BY <1>1, <1>2 DEF Save

\* What a file gives when the program starts is a state.
LEMMA FileGivesState ==
  ASSUME NEW f, NamesShown(f)
  PROVE  /\ ReadMode(f) \in UiModes /\ ReadBrowsers(f) \in [BrowserModes -> BrowserStates]
         /\ DOMAIN ReadSections(f) \subseteq Sections
         /\ ReadSections(f) = [s \in DOMAIN ReadSections(f) |-> ReadSections(f)[s]]
<1>1. ReadMode(f) \in UiModes
  BY DEF ReadMode, UiModes
<1>2. ASSUME NEW m \in BrowserModes
      PROVE  ReadBrowsers(f)[m] \in BrowserStates
  <2>1. ReadBrowsers(f)[m].photo \in Photos \union {NoPhoto} /\ ReadBrowsers(f)[m].filter \in Filters
    BY DEF NamesShown
  <2>2. /\ ReadBrowsers(f)[m] = [viewMode |-> ReadBrowsers(f)[m].viewMode,
                                 photo |-> ReadBrowsers(f)[m].photo,
                                 filter |-> ReadBrowsers(f)[m].filter,
                                 fields |-> {}, order |-> "Ascending"]
        /\ ReadBrowsers(f)[m].viewMode \in ViewModes
    BY DEF ReadBrowsers, ReadBrowser, ViewModes
  <2>3. QED
    BY <2>1, <2>2 DEF BrowserStates, SortOrders
<1>3. ReadBrowsers(f) = [m \in BrowserModes |-> ReadBrowsers(f)[m]]
  BY DEF ReadBrowsers
<1>4. DOMAIN ReadSections(f) \subseteq Sections
      /\ ReadSections(f) = [s \in DOMAIN ReadSections(f) |-> ReadSections(f)[s]]
  BY DEF ReadSections
<1>5. QED
  BY <1>1, <1>2, <1>3, <1>4

-----------------------------------------------------------------------------
(* The steps of the user interface keep the invariant.                     *)

LEMMA EmptyStates ==
  /\ NoBrowserState \in BrowserStates
  /\ [mode \in BrowserModes |-> NoBrowserState] \in [BrowserModes -> BrowserStates]
<1>1. {} \in Filters /\ {} \in SUBSET ToSet(SortFields)
  BY BrowserAssumption
<1>2. NoBrowserState \in BrowserStates
  BY <1>1 DEF NoBrowserState, BrowserStates, ViewModes, SortOrders
<1>3. QED
  BY <1>2

\* A view that is made.
LEMMA NewView ==
  ASSUME NEW b \in BrowserStates, EmptyView(b), arriving' \subseteq Photos, IsFiniteSet(arriving')
  PROVE  /\ RowsInv' /\ allPhotos' = <<>> /\ sortFields' = {} /\ sortOrder' = "Ascending"
         /\ viewMode' = b.viewMode /\ currentPhoto' = b.photo /\ formatFilter' = b.filter
<1>1. /\ b.viewMode \in ViewModes /\ b.photo \in Photos \union {NoPhoto} /\ b.filter \in Filters
  BY DEF BrowserStates
<1>2. /\ allPhotos' = <<>> /\ visibleIndexes' = <<>> /\ itemsMap' = [p \in Photos |-> NoRow]
      /\ currentRow' = NoRow /\ previewRow' \in Nat /\ previewPhoto' \in Photos \union {NoPhoto}
      /\ formatFilter' = b.filter /\ sortFields' = {} /\ sortOrder' = "Ascending"
      /\ viewMode' = b.viewMode /\ currentPhoto' = b.photo
  BY DEF EmptyView, NoRow
<1>3. sortFields' \subseteq ToSet(SortFields) /\ sortOrder' \in SortOrders
  BY <1>2 DEF SortOrders
<1>4. QED
  BY <1>1, <1>2, <1>3, EmptyModel

\* What feeds it.
LEMMA Fed ==
  ASSUME NEW mode, NEW p \in Paths \union {NoPath}, NEW q \in Queries \union {NoQuery},
         arriving \subseteq Photos, IsFiniteSet(arriving), Feed(ViewSources(mode, p, q))
  PROVE  /\ arriving' \subseteq Photos /\ IsFiniteSet(arriving')
         /\ \A s \in ViewSources(mode, p, q) : arriving' = Content[s]
<1>1. \A s \in ViewSources(mode, p, q) : s \in Sources
  BY UiAssumption DEF ViewSources
<1>2. \A s, t \in ViewSources(mode, p, q) : s = t
  BY DEF ViewSources
<1>3. QED
  BY <1>1, <1>2, PhotosOfSource DEF Feed

LEMMA UiInitInv == UiInit => UiInv
<1> SUFFICES ASSUME UiInit
             PROVE  UiInv
  OBVIOUS
<1>1. /\ allPhotos = <<>> /\ visibleIndexes = <<>> /\ arriving = {} /\ Rows = {}
      /\ itemsMap = [p \in Photos |-> NoRow] /\ currentRow = NoRow
      /\ formatFilter = {} /\ sortFields = {} /\ sortOrder = "Ascending"
      /\ currentPhoto = NoPhoto /\ viewMode = "Grid" /\ previewRow = NoRow /\ previewPhoto = NoPhoto
  BY DEF UiInit, Rows
<1>2. RowsInv
  <2>1. \A S : <<>> \in Seq(S) /\ ToSet(<<>>) = {} /\ IsInjective(<<>>)
    BY EmptySeq DEF ToSet, IsInjective
  <2>2. itemsMap = RowMap(allPhotos, visibleIndexes) /\ itemsMap \in [Photos -> Rows \union {NoRow}]
    BY <1>1 DEF RowMap
  <2>3. TypeOK
    BY <1>1, <2>1, <2>2, BrowserAssumption DEF TypeOK, NoRow, SortOrders, ViewModes
  <2>4. PhotosOnce
    BY <1>1, <2>1, FS_EmptySet DEF PhotosOnce
  <2>5. Positions
    BY <1>1, <2>1 DEF Positions, Passing
  <2>6. RowsAreSorted /\ CurrentIsARow
    BY <1>1 DEF RowsAreSorted, CurrentIsARow
  <2>7. QED
    BY <2>2, <2>3, <2>4, <2>5, <2>6 DEF RowsInv
<1>3. /\ uiMode = "Off" /\ path = NoPath /\ query = NoQuery
      /\ browser = [mode \in BrowserModes |-> NoBrowserState] /\ sections = <<>> /\ file \in OldFiles
      /\ ~ libraryPanel /\ unsaved = 0
  BY DEF UiInit
<1>4. DOMAIN sections = {} /\ sections = [s \in {} |-> sections[s]]
  BY <1>3
<1>5. StateType
  BY <1>3, <1>4, EmptyStates DEF StateType
<1>6. ViewIsOfMode /\ SortAgrees /\ SourceKept /\ RestartKeepsState
  BY <1>3 DEF ViewIsOfMode, SortAgrees, SourceKept, RestartKeepsState, BrowserModes
<1>7. NamesShown(file)
  BY <1>3, FilesAssumption, RespelledNames DEF NamesShown
<1>8. QED
  BY <1>2, <1>3, <1>5, <1>6, <1>7 DEF UiInv, FileKept

LEMMA LaunchKeeps ==
  ASSUME UiInv, Launch
  PROVE  UiInv'
<1>1. /\ uiMode' = ReadMode(file) /\ path' = ReadPath(file) /\ query' = ReadQuery(file)
      /\ currentLibrary' = ReadLibrary(file) /\ browser' = ReadBrowsers(file)
      /\ sections' = ReadSections(file) /\ file' = file /\ unsaved' = 0
      /\ EmptyView(IF uiMode' \in BrowserModes THEN browser'[uiMode'] ELSE NoBrowserState)
      /\ Feed(ViewSources(uiMode', path', query'))
  BY DEF Launch
<1>2. NamesShown(file) /\ arriving \subseteq Photos /\ IsFiniteSet(arriving)
  BY DEF UiInv, FileKept, RowsInv, TypeOK, PhotosOnce
<1>3. StateType'
  BY <1>1, <1>2, FileGivesState DEF StateType, NamesShown, UiModes, BrowserModes
<1>4. /\ arriving' \subseteq Photos /\ IsFiniteSet(arriving')
      /\ \A s \in ViewSources(uiMode', path', query') : arriving' = Content[s]
  BY <1>1, <1>2, <1>3, Fed DEF StateType
<1> DEFINE b == IF uiMode' \in BrowserModes THEN browser'[uiMode'] ELSE NoBrowserState
<1>5. b \in BrowserStates
  BY <1>3, EmptyStates DEF StateType
<1>6. /\ RowsInv' /\ allPhotos' = <<>> /\ sortFields' = {} /\ sortOrder' = "Ascending"
      /\ viewMode' = b.viewMode /\ currentPhoto' = b.photo /\ formatFilter' = b.filter
  <2> HIDE DEF b
  <2>1. EmptyView(b)
    BY <1>1 DEF b
  <2>2. QED
    BY <1>4, <1>5, <2>1, NewView
<1>7. ViewIsOfMode' /\ SortAgrees'
  BY <1>6 DEF ViewIsOfMode, SortAgrees
<1>8. SourceKept'
  <2>1. ToSet(allPhotos') = {}
    BY <1>6 DEF ToSet
  <2>2. QED
    BY <1>4, <2>1 DEF SourceKept
<1>9. FileKept'
  BY <1>1, <1>2 DEF FileKept, RestartKeepsState, NamesShown
<1>10. QED
  BY <1>3, <1>6, <1>7, <1>8, <1>9 DEF UiInv

LEMMA StopKeeps ==
  ASSUME UiInv, Stop
  PROVE  UiInv'
<1>1. /\ uiMode' = "Off" /\ path' = NoPath /\ query' = NoQuery /\ sections' = <<>>
      /\ browser' = [mode \in BrowserModes |-> NoBrowserState]
      /\ EmptyView(NoBrowserState) /\ arriving' = {} /\ file' = file /\ unsaved' = 0
      /\ libraryPanel' = FALSE
  BY DEF Stop
<1>2. DOMAIN sections' = {} /\ sections' = [s \in {} |-> sections'[s]]
  BY <1>1
<1>3. StateType'
  BY <1>1, <1>2, EmptyStates DEF StateType
<1>4. RowsInv'
  BY <1>1, EmptyStates, NewView, FS_EmptySet
<1>5. ViewIsOfMode' /\ SortAgrees' /\ SourceKept' /\ RestartKeepsState'
  BY <1>1 DEF ViewIsOfMode, SortAgrees, SourceKept, RestartKeepsState, BrowserModes
<1>6. FileKept'
  BY <1>1, <1>5 DEF UiInv, FileKept, NamesShown
<1>7. QED
  BY <1>3, <1>4, <1>5, <1>6 DEF UiInv

LEMMA SetModeKeeps ==
  ASSUME UiInv, NEW mode \in BrowserModes, SetMode(mode)
  PROVE  UiInv'
<1>1. /\ uiMode' = mode /\ UNCHANGED <<path, query, currentLibrary, browser, sections>>
      /\ EmptyView(browser[mode]) /\ Feed(ViewSources(mode, path, query)) /\ Save
  BY DEF SetMode
<1>2. StateType /\ arriving \subseteq Photos /\ IsFiniteSet(arriving)
  BY DEF UiInv, RowsInv, TypeOK, PhotosOnce
<1>3. StateType'
  BY <1>1, <1>2 DEF StateType, UiModes, BrowserModes
<1>4. /\ arriving' \subseteq Photos /\ IsFiniteSet(arriving')
      /\ \A s \in ViewSources(mode, path, query) : arriving' = Content[s]
  BY <1>1, <1>2, Fed DEF StateType
<1>5. browser[mode] \in BrowserStates
  BY <1>2 DEF StateType
<1>6. /\ RowsInv' /\ allPhotos' = <<>> /\ sortFields' = {} /\ sortOrder' = "Ascending"
      /\ viewMode' = browser[mode].viewMode /\ currentPhoto' = browser[mode].photo
      /\ formatFilter' = browser[mode].filter
  BY <1>1, <1>4, <1>5, NewView
<1>7. ViewIsOfMode' /\ SortAgrees'
  BY <1>1, <1>6 DEF ViewIsOfMode, SortAgrees
<1>8. SourceKept'
  <2>1. ToSet(allPhotos') = {}
    BY <1>6 DEF ToSet
  <2>2. QED
    BY <1>1, <1>4, <2>1 DEF SourceKept
<1>9. FileKept'
  BY <1>1, <1>3, SaveReads DEF UiInv, BrowserModes
<1>10. QED
  BY <1>3, <1>6, <1>7, <1>8, <1>9 DEF UiInv

LEMMA RowsUnchanged ==
  ASSUME RowsInv, UNCHANGED browserModelVars
  PROVE  RowsInv'
BY RowsStep DEF browserModelVars, vars

LEMMA SetPathKeeps ==
  ASSUME UiInv, NEW p \in Paths, SetPath(p)
  PROVE  UiInv'
<1>1. /\ uiMode \in {"Shoots", "Folders"} /\ path' = p
      /\ UNCHANGED <<uiMode, query, currentLibrary, browser, sections, libraryPanel>>
      /\ IF uiMode = "Folders" THEN SetSource(p) ELSE UNCHANGED browserModelVars
      /\ Save
  BY DEF SetPath
<1>2. StateType' /\ uiMode' # "Off"
  BY <1>1 DEF UiInv, StateType
<1>3. CASE uiMode = "Folders"
  <2>1. SetSource(p) /\ p \in Sources /\ p # NoPath
    BY <1>1, <1>3, UiAssumption
  <2>2. RowsInv'
    BY <2>1, SetSourceKeeps DEF UiInv
  <2>3. ViewIsOfMode' /\ SortAgrees'
    BY <1>1, <2>1
       DEF UiInv, ViewIsOfMode, SortAgrees, SetSource, settingVars, previewVars
  <2>4. SourceKept'
    BY <1>1, <1>3, <2>1 DEF SourceKept, ViewSources, SetSource, ToSet
  <2>5. QED
    BY <1>1, <1>2, <2>2, <2>3, <2>4, SaveReads DEF UiInv
<1>4. CASE uiMode = "Shoots"
  <2>1. UNCHANGED browserModelVars /\ uiMode' \notin BrowserModes
    BY <1>1, <1>4 DEF BrowserModes
  <2>2. RowsInv'
    BY <2>1, RowsUnchanged DEF UiInv
  <2>3. ViewIsOfMode' /\ SortAgrees' /\ SourceKept'
    BY <2>1 DEF ViewIsOfMode, SortAgrees, SourceKept
  <2>4. QED
    BY <1>1, <1>2, <2>2, <2>3, SaveReads DEF UiInv
<1>5. QED
  BY <1>1, <1>3, <1>4

LEMMA SetQueryKeeps ==
  ASSUME UiInv, NEW q \in Queries, SetQuery(q)
  PROVE  UiInv'
<1>1. /\ libraryPanel /\ query' = q
      /\ UNCHANGED <<uiMode, path, currentLibrary, browser, sections, libraryPanel>>
      /\ IF uiMode = "Library" THEN SetSource(q) ELSE UNCHANGED browserModelVars
      /\ Save
  BY DEF SetQuery
<1>2. StateType' /\ uiMode' # "Off"
  BY <1>1 DEF UiInv, StateType
<1>3. CASE uiMode = "Library"
  <2>1. SetSource(q) /\ q \in Sources
    BY <1>1, <1>3, UiAssumption
  <2>2. RowsInv'
    BY <2>1, SetSourceKeeps DEF UiInv
  <2>3. ViewIsOfMode' /\ SortAgrees'
    BY <1>1, <2>1
       DEF UiInv, ViewIsOfMode, SortAgrees, SetSource, settingVars, previewVars
  <2>4. SourceKept'
    BY <1>1, <1>3, <2>1 DEF SourceKept, ViewSources, SetSource, ToSet
  <2>5. QED
    BY <1>1, <1>2, <2>2, <2>3, <2>4, SaveReads DEF UiInv
<1>4. CASE uiMode # "Library"
  <2>1. UNCHANGED browserModelVars
    BY <1>1, <1>4
  <2>2. RowsInv'
    BY <2>1, RowsUnchanged DEF UiInv
  <2>3. ViewIsOfMode' /\ SortAgrees'
    BY <1>1, <2>1
       DEF UiInv, ViewIsOfMode, SortAgrees, browserModelVars, settingVars, viewVars, previewVars
  <2>4. SourceKept'
    BY <1>1, <1>4, <2>1 DEF UiInv, SourceKept, ViewSources, BrowserModes, browserModelVars
  <2>5. QED
    BY <1>1, <1>2, <2>2, <2>3, <2>4, SaveReads DEF UiInv
<1>5. QED
  BY <1>3, <1>4

\* What is saved beside the view.
LEMMA BesideTheView ==
  ASSUME UiInv, StateType', uiMode' # "Off", Save,
         UNCHANGED <<uiMode, path, query, browser, browserModelVars>>
  PROVE  UiInv'
<1>1. RowsInv'
  BY RowsUnchanged DEF UiInv
<1>2. ViewIsOfMode' /\ SortAgrees' /\ SourceKept'
  BY DEF UiInv, ViewIsOfMode, SortAgrees, SourceKept, browserModelVars, settingVars, viewVars,
         previewVars
<1>3. QED
  BY <1>1, <1>2, SaveReads DEF UiInv

LEMMA SetCurrentLibraryKeeps ==
  ASSUME UiInv, NEW id \in Libraries, SetCurrentLibrary(id)
  PROVE  UiInv'
<1>1. /\ libraryPanel /\ Save
      /\ UNCHANGED <<uiMode, path, query, browser, sections, libraryPanel, browserModelVars>>
  BY DEF SetCurrentLibrary
<1>2. StateType' /\ uiMode' # "Off"
  BY <1>1 DEF UiInv, StateType
<1>3. QED
  BY <1>1, <1>2, BesideTheView

LEMMA SectionExpandedKeeps ==
  ASSUME UiInv, NEW section \in Sections, NEW expanded \in BOOLEAN,
         SetMetadataSectionExpanded(section, expanded)
  PROVE  UiInv'
<1>1. /\ uiMode # "Off" /\ Save
      /\ sections' = [s \in DOMAIN sections \union {section} |->
                        IF s = section THEN expanded ELSE sections[s]]
      /\ UNCHANGED <<uiMode, path, query, browser, libraryPanel, browserModelVars>>
  BY DEF SetMetadataSectionExpanded
<1>2. DOMAIN sections' = DOMAIN sections \union {section}
      /\ sections' = [s \in DOMAIN sections' |-> sections'[s]]
  BY <1>1
<1>3. StateType' /\ uiMode' # "Off"
  BY <1>1, <1>2 DEF UiInv, StateType
<1>4. QED
  BY <1>1, <1>3, BesideTheView

\* What the mode's state keeps of the view, and what of the sort bar.
WithView(states, m, mode, photo, filter) ==
  [states EXCEPT ![m].viewMode = mode, ![m].photo = photo, ![m].filter = filter]

WithSorting(states, m, fields, order) ==
  [states EXCEPT ![m].fields = fields, ![m].order = order]

LEMMA StateReplaced ==
  ASSUME NEW states \in [BrowserModes -> BrowserStates], NEW m \in BrowserModes,
         NEW b \in BrowserStates, NEW new, new = [states EXCEPT ![m] = b]
  PROVE  /\ new \in [BrowserModes -> BrowserStates] /\ new[m] = b
         /\ \A other \in BrowserModes \ {m} : new[other] = states[other]
OBVIOUS

LEMMA StateOfView ==
  ASSUME NEW states \in [BrowserModes -> BrowserStates], NEW m \in BrowserModes,
         NEW mode \in ViewModes, NEW photo \in Photos \union {NoPhoto}, NEW filter \in Filters,
         NEW new, new = WithView(states, m, mode, photo, filter)
  PROVE  /\ new \in [BrowserModes -> BrowserStates]
         /\ new[m].viewMode = mode /\ new[m].photo = photo /\ new[m].filter = filter
         /\ new[m].fields = states[m].fields /\ new[m].order = states[m].order
         /\ \A other \in BrowserModes \ {m} : new[other] = states[other]
<1> DEFINE b == states[m]
           b1 == [b EXCEPT !.viewMode = mode]
           b2 == [b1 EXCEPT !.photo = photo]
           b3 == [b2 EXCEPT !.filter = filter]
<1>1. b \in BrowserStates
  OBVIOUS
<1>2. new = [states EXCEPT ![m] = b3]
  BY DEF WithView
<1> HIDE DEF b
<1>3. /\ b1 \in BrowserStates /\ b1.viewMode = mode
      /\ b1.fields = b.fields /\ b1.order = b.order
  BY <1>1 DEF BrowserStates
<1> HIDE DEF b1
<1>4. /\ b2 \in BrowserStates /\ b2.viewMode = mode /\ b2.photo = photo
      /\ b2.fields = b.fields /\ b2.order = b.order
  BY <1>3 DEF BrowserStates
<1> HIDE DEF b2
<1>5. /\ b3 \in BrowserStates /\ b3.viewMode = mode /\ b3.photo = photo /\ b3.filter = filter
      /\ b3.fields = b.fields /\ b3.order = b.order
  BY <1>4 DEF BrowserStates
<1> HIDE DEF b3
<1>6. /\ new \in [BrowserModes -> BrowserStates] /\ new[m] = b3
      /\ \A other \in BrowserModes \ {m} : new[other] = states[other]
  BY <1>2, <1>5, StateReplaced
<1>7. QED
  BY <1>5, <1>6 DEF b

LEMMA StateOfSorting ==
  ASSUME NEW states \in [BrowserModes -> BrowserStates], NEW m \in BrowserModes,
         NEW fields \in SUBSET ToSet(SortFields), NEW order \in SortOrders,
         NEW new, new = WithSorting(states, m, fields, order)
  PROVE  /\ new \in [BrowserModes -> BrowserStates]
         /\ new[m].fields = fields /\ new[m].order = order
         /\ new[m].viewMode = states[m].viewMode /\ new[m].photo = states[m].photo
         /\ new[m].filter = states[m].filter
         /\ \A other \in BrowserModes \ {m} : new[other] = states[other]
<1> DEFINE b == states[m]
           b1 == [b EXCEPT !.fields = fields]
           b2 == [b1 EXCEPT !.order = order]
<1>1. b \in BrowserStates
  OBVIOUS
<1>2. new = [states EXCEPT ![m] = b2]
  BY DEF WithSorting
<1> HIDE DEF b
<1>3. /\ b1 \in BrowserStates /\ b1.fields = fields
      /\ b1.viewMode = b.viewMode /\ b1.photo = b.photo /\ b1.filter = b.filter
  BY <1>1 DEF BrowserStates
<1> HIDE DEF b1
<1>4. /\ b2 \in BrowserStates /\ b2.fields = fields /\ b2.order = order
      /\ b2.viewMode = b.viewMode /\ b2.photo = b.photo /\ b2.filter = b.filter
  BY <1>3 DEF BrowserStates
<1> HIDE DEF b2
<1>5. /\ new \in [BrowserModes -> BrowserStates] /\ new[m] = b2
      /\ \A other \in BrowserModes \ {m} : new[other] = states[other]
  BY <1>2, <1>4, StateReplaced
<1>6. QED
  BY <1>4, <1>5 DEF b

\* A file that is not written stays right if no saved field changes.
LEMMA FileStays ==
  ASSUME FileKept,
         UNCHANGED <<uiMode, path, query, currentLibrary, sections, file, unsaved>>,
         \A m \in BrowserModes : /\ browser'[m].viewMode = browser[m].viewMode
                                 /\ browser'[m].photo = browser[m].photo
                                 /\ browser'[m].filter = browser[m].filter
  PROVE  FileKept'
<1>1. NamesShown(file)' /\ unsaved' \in Nat
  BY DEF FileKept, NamesShown
<1>2. RestartKeepsState'
  BY DEF FileKept, RestartKeepsState
<1>3. QED
  BY <1>1, <1>2 DEF FileKept

\* A step of the view that keeps the sorting and takes no other photos, and
\* that is saved or changes nothing that is.
LEMMA ViewStep ==
  ASSUME UiInv, RowsInv', uiMode \in BrowserModes,
         browser' = WithView(browser, uiMode, viewMode', currentPhoto', formatFilter'),
         UNCHANGED <<uiMode, path, query, currentLibrary, sections, libraryPanel>>,
         UNCHANGED <<sortFields, sortOrder>>,
         ToSet(allPhotos') \union arriving' \subseteq ToSet(allPhotos) \union arriving,
         Save \/ UNCHANGED <<file, unsaved, viewMode, currentPhoto, formatFilter>>
  PROVE  UiInv'
<1>1. viewMode' \in ViewModes /\ currentPhoto' \in Photos \union {NoPhoto} /\ formatFilter' \in Filters
  BY DEF RowsInv, TypeOK
<1>2. browser \in [BrowserModes -> BrowserStates]
  BY DEF UiInv, StateType
<1>3. /\ browser' \in [BrowserModes -> BrowserStates]
      /\ browser'[uiMode].viewMode = viewMode' /\ browser'[uiMode].photo = currentPhoto'
      /\ browser'[uiMode].filter = formatFilter'
      /\ browser'[uiMode].fields = browser[uiMode].fields
      /\ browser'[uiMode].order = browser[uiMode].order
      /\ \A other \in BrowserModes \ {uiMode} : browser'[other] = browser[other]
  BY <1>1, <1>2, StateOfView
<1>4. StateType'
  BY <1>3 DEF UiInv, StateType
<1>5. ViewIsOfMode'
  BY <1>3 DEF ViewIsOfMode
<1>6. SortAgrees'
  BY <1>3 DEF UiInv, SortAgrees
<1>7. SourceKept'
  BY DEF UiInv, SourceKept
<1>8. FileKept'
  <2>1. CASE Save
    BY <1>4, <2>1, SaveReads DEF UiInv, BrowserModes
  <2>2. CASE UNCHANGED <<file, unsaved, viewMode, currentPhoto, formatFilter>>
    <3>1. \A m \in BrowserModes : /\ browser'[m].viewMode = browser[m].viewMode
                                  /\ browser'[m].photo = browser[m].photo
                                  /\ browser'[m].filter = browser[m].filter
      BY <1>3, <2>2 DEF UiInv, ViewIsOfMode
    <3>2. QED
      BY <2>2, <3>1, FileStays DEF UiInv
  <2>3. QED
    BY <2>1, <2>2
<1>9. QED
  BY <1>4, <1>5, <1>6, <1>7, <1>8 DEF UiInv

LEMMA PhotosArriveKeeps ==
  ASSUME UiInv, NEW batch \in Batches, PhotosArrive(batch)
  PROVE  UiInv'
<1>1. /\ uiMode \in BrowserModes /\ (PhotosLoaded(batch) \/ PhotosIgnored(batch))
      /\ browser' = WithView(browser, uiMode, viewMode', currentPhoto', formatFilter')
      /\ UNCHANGED <<uiMode, path, query, currentLibrary, sections, libraryPanel>>
      /\ Save \/ UNCHANGED <<file, unsaved>>
  BY DEF PhotosArrive, InView, WithView, fileVars
<1>2. RowsInv /\ RowsInv'
  BY <1>1, LoadedKeeps, IgnoredKeeps DEF UiInv
<1>3. UNCHANGED <<sortFields, sortOrder, viewMode, currentPhoto, formatFilter>>
  BY <1>1 DEF PhotosLoaded, PhotosIgnored, RestoreCurrentPhoto, SetPhotoIndex, settingVars,
              viewVars, previewVars
<1>4. ToSet(allPhotos') \union arriving' \subseteq ToSet(allPhotos) \union arriving
  <2>1. CASE PhotosLoaded(batch)
    <3>1. allPhotos' = allPhotos \o batch /\ arriving' = arriving \ ToSet(batch)
      BY <2>1 DEF PhotosLoaded
    <3>2. /\ batch \in Seq(Photos) /\ ToSet(batch) \subseteq arriving /\ allPhotos \in Seq(Photos)
      BY <1>2, BatchOf DEF RowsInv, TypeOK
    <3>3. ToSet(allPhotos \o batch) = ToSet(allPhotos) \union ToSet(batch)
      BY <3>2, Joined
    <3>4. QED
      BY <3>1, <3>2, <3>3
  <2>2. CASE PhotosIgnored(batch)
    BY <2>2 DEF PhotosIgnored
  <2>3. QED
    BY <1>1, <2>1, <2>2
<1>5. QED
  BY <1>1, <1>2, <1>3, <1>4, ViewStep

LEMMA PreviewArrivesKeeps ==
  ASSUME UiInv, NEW p \in Photos, PreviewArrives(p)
  PROVE  UiInv'
<1>1. /\ uiMode \in BrowserModes /\ PreviewLoaded(p) /\ UNCHANGED <<file, unsaved>>
      /\ browser' = WithView(browser, uiMode, viewMode', currentPhoto', formatFilter')
      /\ UNCHANGED <<uiMode, path, query, currentLibrary, sections, libraryPanel>>
  BY DEF PreviewArrives, InView, WithView, fileVars
<1>2. RowsInv'
  BY <1>1, PreviewKeeps DEF UiInv
<1>3. UNCHANGED <<sortFields, sortOrder, viewMode, currentPhoto, formatFilter, allPhotos, arriving>>
  BY <1>1 DEF PreviewLoaded, settingVars
<1>4. QED
  BY <1>1, <1>2, <1>3, ViewStep

LEMMA SelectPhotoKeeps ==
  ASSUME UiInv, NEW row \in Rows, SelectPhoto(row)
  PROVE  UiInv'
<1>1. /\ uiMode \in BrowserModes /\ Select(row) /\ Save
      /\ browser' = WithView(browser, uiMode, viewMode', currentPhoto', formatFilter')
      /\ UNCHANGED <<uiMode, path, query, currentLibrary, sections, libraryPanel>>
  BY DEF SelectPhoto, InView, WithView
<1>2. RowsInv'
  BY <1>1, SelectKeeps DEF UiInv
<1>3. UNCHANGED <<sortFields, sortOrder, allPhotos, arriving>>
  BY <1>1 DEF Select, settingVars
<1>4. QED
  BY <1>1, <1>2, <1>3, ViewStep

LEMMA PickViewModeKeeps ==
  ASSUME UiInv, NEW mode \in ViewModes, PickViewMode(mode)
  PROVE  UiInv'
<1>1. /\ uiMode \in BrowserModes /\ SetViewMode(mode) /\ Save
      /\ browser' = WithView(browser, uiMode, viewMode', currentPhoto', formatFilter')
      /\ UNCHANGED <<uiMode, path, query, currentLibrary, sections, libraryPanel>>
  BY DEF PickViewMode, InView, WithView
<1>2. RowsInv'
  BY <1>1, ViewModeKeeps DEF UiInv
<1>3. UNCHANGED <<sortFields, sortOrder, allPhotos, arriving>>
  BY <1>1 DEF SetViewMode, settingVars
<1>4. QED
  BY <1>1, <1>2, <1>3, ViewStep

LEMMA PickFormatsKeeps ==
  ASSUME UiInv, NEW formats \in Filters, PickFormats(formats)
  PROVE  UiInv'
<1>1. /\ uiMode \in BrowserModes /\ SetFormatFilter(formats) /\ Save
      /\ browser' = WithView(browser, uiMode, viewMode', currentPhoto', formatFilter')
      /\ UNCHANGED <<uiMode, path, query, currentLibrary, sections, libraryPanel>>
  BY DEF PickFormats, InView, WithView
<1>2. RowsInv'
  BY <1>1, FilterKeeps DEF UiInv
<1>3. UNCHANGED <<sortFields, sortOrder, allPhotos, arriving>>
  BY <1>1 DEF SetFormatFilter
<1>4. QED
  BY <1>1, <1>2, <1>3, ViewStep

\* What the sort bar says is what the rows are sorted by from now on.
LEMMA SortByKeeps ==
  ASSUME UiInv, NEW fields \in SUBSET ToSet(SortFields), NEW order \in SortOrders,
         SortBy(fields, order)
  PROVE  UiInv'
<1>1. /\ uiMode \in BrowserModes /\ Resort(fields, order)
      /\ browser' = WithSorting(browser, uiMode, fields, order)
      /\ UNCHANGED <<uiMode, path, query, currentLibrary, sections, libraryPanel, file, unsaved>>
  BY DEF SortBy, WithSorting, fileVars
<1>2. RowsInv'
  BY <1>1, ResortKeeps DEF UiInv
<1>3. /\ sortFields' = fields /\ sortOrder' = order
      /\ UNCHANGED <<allPhotos, arriving, viewMode, currentPhoto, formatFilter>>
  BY <1>1 DEF Resort, viewVars, previewVars
<1>4. browser \in [BrowserModes -> BrowserStates]
  BY DEF UiInv, StateType
<1>5. /\ browser' \in [BrowserModes -> BrowserStates]
      /\ browser'[uiMode].fields = fields /\ browser'[uiMode].order = order
      /\ \A m \in BrowserModes : /\ browser'[m].viewMode = browser[m].viewMode
                                 /\ browser'[m].photo = browser[m].photo
                                 /\ browser'[m].filter = browser[m].filter
  BY <1>1, <1>4, StateOfSorting
<1>6. StateType'
  BY <1>1, <1>5 DEF UiInv, StateType
<1>7. ViewIsOfMode'
  BY <1>1, <1>3, <1>5 DEF UiInv, ViewIsOfMode
<1>8. SortAgrees'
  BY <1>1, <1>3, <1>5 DEF SortAgrees
<1>9. SourceKept'
  BY <1>1, <1>3 DEF UiInv, SourceKept
<1>10. FileKept'
  BY <1>1, <1>5, FileStays DEF UiInv
<1>11. QED
  BY <1>2, <1>6, <1>7, <1>8, <1>9, <1>10 DEF UiInv

LEMMA PickSortFieldKeeps ==
  ASSUME UiInv, NEW field \in SortMenu, PickSortField(field)
  PROVE  UiInv'
<1>1. uiMode \in BrowserModes /\ SortBy({field}, browser[uiMode].order)
  BY DEF PickSortField
<1>2. {field} \in SUBSET ToSet(SortFields)
  BY UiAssumption
<1>3. browser[uiMode].order \in SortOrders
  BY <1>1 DEF UiInv, StateType, BrowserStates
<1>4. QED
  BY <1>1, <1>2, <1>3, SortByKeeps

LEMMA ToggleSortOrderKeeps ==
  ASSUME UiInv, ToggleSortOrder
  PROVE  UiInv'
<1>1. PICK order \in SortOrders : SortBy(browser[uiMode].fields, order)
  BY DEF ToggleSortOrder
<1>2. browser[uiMode].fields \in SUBSET ToSet(SortFields)
  BY DEF ToggleSortOrder, UiInv, StateType, BrowserStates
<1>3. QED
  BY <1>1, <1>2, SortByKeeps

\* A step that changes nothing.
LEMMA UiUnchanged ==
  ASSUME UiInv, UNCHANGED allVars
  PROVE  UiInv'
<1>1. /\ UNCHANGED <<uiMode, path, query, currentLibrary, browser, sections, libraryPanel, file,
                   unsaved>>
      /\ UNCHANGED browserModelVars
  BY DEF allVars, stateVars, fileVars
<1>2. RowsInv'
  BY <1>1, RowsUnchanged DEF UiInv
<1>3. StateType'
  BY <1>1 DEF UiInv, StateType
<1>4. ViewIsOfMode' /\ SortAgrees' /\ SourceKept'
  BY <1>1 DEF UiInv, ViewIsOfMode, SortAgrees, SourceKept, browserModelVars, settingVars, viewVars,
              previewVars
<1>5. FileKept'
  BY <1>1, FileStays DEF UiInv
<1>6. QED
  BY <1>2, <1>3, <1>4, <1>5 DEF UiInv

LEMMA UiStep == UiInv /\ [UiNext]_allVars => UiInv'
<1> SUFFICES ASSUME UiInv, [UiNext]_allVars
             PROVE  UiInv'
  OBVIOUS
<1>1. CASE UNCHANGED allVars
  BY <1>1, UiUnchanged
<1>2. CASE Launch \/ Stop
  BY <1>2, LaunchKeeps, StopKeeps
<1>3. CASE \E mode \in BrowserModes : SetMode(mode)
  BY <1>3, SetModeKeeps
<1>4. CASE \E p \in Paths : SetPath(p)
  BY <1>4, SetPathKeeps
<1>5. CASE \E q \in Queries : SetQuery(q)
  BY <1>5, SetQueryKeeps
<1>6. CASE \E id \in Libraries : SetCurrentLibrary(id)
  BY <1>6, SetCurrentLibraryKeeps
<1>7. CASE \E section \in Sections, expanded \in BOOLEAN :
             SetMetadataSectionExpanded(section, expanded)
  BY <1>7, SectionExpandedKeeps
<1>8. CASE \E batch \in Batches : PhotosArrive(batch)
  BY <1>8, PhotosArriveKeeps
<1>9. CASE \E p \in Photos : PreviewArrives(p)
  BY <1>9, PreviewArrivesKeeps
<1>10. CASE \E row \in Rows : SelectPhoto(row)
  BY <1>10, SelectPhotoKeeps
<1>11. CASE \E mode \in ViewModes : PickViewMode(mode)
  BY <1>11, PickViewModeKeeps
<1>12. CASE \E formats \in Filters : PickFormats(formats)
  BY <1>12, PickFormatsKeeps
<1>13. CASE \E field \in SortMenu : PickSortField(field)
  BY <1>13, PickSortFieldKeeps
<1>14. CASE ToggleSortOrder
  BY <1>14, ToggleSortOrderKeeps
<1>15. QED
  BY <1>1, <1>2, <1>3, <1>4, <1>5, <1>6, <1>7, <1>8, <1>9, <1>10, <1>11, <1>12, <1>13, <1>14
     DEF UiNext

\* After any change that was saved, and whatever became of the saves before it,
\* ui-state.ini reads back as the state, its names respelled where they are not
\* UTF-8: the mode, the path, the query in whatever form, the library, both modes'
\* current photos, view modes and filters, and the sections of the metadata panel.
THEOREM StateKept == UiSpec => []RestartKeepsState
<1>1. UiInv => RestartKeepsState
  BY DEF UiInv, FileKept
<1>2. QED
  BY UiInitInv, UiStep, <1>1, PTL DEF UiSpec

\* The view shows photos of its own source only, and sorts as the sort bar says
\* once the user has touched that.
THEOREM ViewStaysAgreed == UiSpec => []ViewAgrees
<1>1. UiInv => ViewAgrees
  BY DEF UiInv, ViewAgrees, RowsFromSource, SourceKept
<1>2. QED
  BY UiInitInv, UiStep, <1>1, PTL DEF UiSpec

\* The rows are sound in every view a session makes, not only in one model that
\* lives for ever: views are made with the state of the mode and fed by a loader
\* that may still have the photos of another one.
THEOREM RowsSoundInSessions == UiSpec => []RowsAreSound
<1>1. UiInv => RowsAreSound
  BY RowsSoundNow DEF UiInv
<1>2. QED
  BY UiInitInv, UiStep, <1>1, PTL DEF UiSpec

=============================================================================
