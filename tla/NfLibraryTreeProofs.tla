------------------------ MODULE NfLibraryTreeProofs ------------------------
(***************************************************************************)
(* Proofs about NfLibraryTree for any libraries, names, tasks and threads. *)
(***************************************************************************)
EXTENDS NfLibraryTree, FiniteSetTheorems, SequenceTheorems, TLAPS

-----------------------------------------------------------------------------
(* The inductive invariant.                                                *)

HasEachOnce(items) == \A i, j \in DOMAIN items : items[i].id = items[j].id => i = j

\* The items of a list say of l what the database says, if l is among them.
TrueOf(l, items) ==
  \A i \in DOMAIN items : items[i].id = l =>
    l \in Libraries /\ items[i].name = name[l] /\ items[i].content = content[l]

\* ... and it is among them if and only if it is in the database.
ShowsAll(l, items) == TrueOf(l, items) /\ (l \in Libraries => l \in Ids(items))

\* The table is finite, and what has been a library keeps its id.
Table ==
  /\ IsFiniteSet(Libraries)
  /\ Ids(rows) \subseteq usedIds
  /\ \A t \in Tasks : target[t] \in usedIds \union {0}

\* A task that has not started has read nothing, one that reads trees is at
\* the library whose name it read last, and the branch of a library is one item.
Reading ==
  \A t \in Tasks :
    /\ phase[t] \in {"new", "pending"} => step[t] = "start"
    /\ step[t] = "start" => snapshot[t] = <<>>
    /\ Ids(snapshot[t]) \subseteq usedIds
    /\ step[t] = "trees" =>
         /\ todo[t] # <<>> /\ snapshot[t] # <<>>
         /\ snapshot[t][Len(snapshot[t])].id = Head(todo[t])
    /\ step[t] = "Failed" => target[t] # 0 /\ target[t] \notin Libraries

\* What a task has still to read.
Left(t) == IF step[t] = "trees" THEN Tail(todo[t]) ELSE todo[t]

\* No library is read twice.
ReadOnce ==
  \A t \in Tasks : phase[t] = "running" /\ step[t] \in {"next", "trees"} =>
    /\ HasEachOnce(snapshot[t])
    /\ IsInjective(todo[t])
    /\ Ids(snapshot[t]) \intersect ToSet(Left(t)) = {}
    /\ target[t] # 0 =>
         /\ Ids(snapshot[t]) \union ToSet(Left(t)) = {target[t]}
         /\ Len(snapshot[t]) + Len(Left(t)) = 1

\* What is on its way to the GUI thread.
PostedOnce ==
  \A i \in DOMAIN posted :
    /\ HasEachOnce(posted[i].items)
    /\ Ids(posted[i].items) \subseteq usedIds
    /\ posted[i].branch => Len(posted[i].items) = 1

\* A snapshot says the truth of a library that nothing has happened to since,
\* as far as it has come.
TaskTells(t, l) ==
  /\ \A i \in DOMAIN snapshot[t] : snapshot[t][i].id = l =>
       /\ l \in Libraries /\ snapshot[t][i].name = name[l]
       /\ snapshot[t][i].content = content[l] \/ (step[t] = "trees" /\ i = Len(snapshot[t]))
  /\ l \in ToSet(Left(t)) => l \in Libraries
  /\ target[t] = 0 /\ l \in Libraries => l \in Ids(snapshot[t]) \union ToSet(Left(t))

PostTells(l, p) == IF p.branch THEN TrueOf(l, p.items) ELSE ShowsAll(l, p.items)

SnapshotsTell ==
  \A l \in LibraryIds \ outdated :
    /\ \A t \in Tasks : phase[t] = "running" /\ step[t] \in {"next", "trees"} => TaskTells(t, l)
    /\ \A p \in ToSet(posted) : PostTells(l, p)

\* A whole tree will be taken, or is on its way.
TreeToCome ==
  \/ \E t \in Tasks : target[t] = 0 /\ phase[t] \in {"pending", "running"}
  \/ \E p \in ToSet(posted) : ~ p.branch

\* The branch of l will be taken, or is on its way.
BranchToCome(l) ==
  \/ \E t \in Tasks :
       target[t] = l /\ phase[t] \in {"pending", "running"} /\ step[t] # "Failed"
  \/ \E p \in ToSet(posted) : p.branch /\ l \in Ids(p.items)

\* Where the tree does not say the truth of a library, something is to come
\* that will.
RowsAreMadeTrue ==
  \A l \in LibraryIds \ outdated :
    \/ ShowsAll(l, rows)
    \/ l \in importing \/ TreeToCome
    \/ l \in Libraries /\ l \notin Ids(rows) /\ BranchToCome(l)

IInv ==
  /\ TypeOK /\ OneRowEach
  /\ Table /\ Reading /\ ReadOnce /\ PostedOnce
  /\ SnapshotsTell /\ RowsAreMadeTrue

-----------------------------------------------------------------------------
(* Lists, rows and requests.                                               *)

\* What a list is after one element is taken out of it.
LEMMA RemoveAtElements ==
  ASSUME NEW S, NEW s \in Seq(S), NEW p \in 1..Len(s)
  PROVE  /\ RemoveAt(s, p) \in Seq(S)
         /\ Len(RemoveAt(s, p)) = Len(s) - 1
         /\ \A i \in 1..(Len(s) - 1) :
              RemoveAt(s, p)[i] = IF i < p THEN s[i] ELSE s[i + 1]
<1> DEFINE a == SubSeq(s, 1, p - 1)
           b == SubSeq(s, p + 1, Len(s))
<1>1. Len(s) \in Nat /\ \A i \in 1..Len(s) : s[i] \in S
  BY LenProperties, ElementOfSeq
<1>2. /\ a \in Seq(S) /\ Len(a) = p - 1
      /\ \A i \in 1..(p - 1) : a[i] = s[i]
  BY <1>1, SubSeqProperties
<1>3. /\ b \in Seq(S) /\ Len(b) = Len(s) - p
      /\ \A i \in 1..(Len(s) - p) : b[i] = s[p + i]
  BY <1>1, SubSeqProperties
<1>4. RemoveAt(s, p) = a \o b
  BY DEF RemoveAt
<1> HIDE DEF a, b
<1>5. /\ a \o b \in Seq(S) /\ Len(a \o b) = Len(a) + Len(b)
      /\ \A i \in 1..(Len(a) + Len(b)) :
           (a \o b)[i] = IF i <= Len(a) THEN a[i] ELSE b[i - Len(a)]
  BY <1>2, <1>3, ConcatProperties
<1>6. Len(RemoveAt(s, p)) = Len(s) - 1
  BY <1>1, <1>2, <1>3, <1>4, <1>5
<1>7. ASSUME NEW i \in 1..(Len(s) - 1)
      PROVE  RemoveAt(s, p)[i] = IF i < p THEN s[i] ELSE s[i + 1]
  <2>1. CASE i < p
    BY <1>1, <1>2, <1>3, <1>4, <1>5, <2>1
  <2>2. CASE i >= p
    <3>1. i - (p - 1) \in 1..(Len(s) - p) /\ p + (i - (p - 1)) = i + 1
      BY <1>1, <2>2
    <3>2. (a \o b)[i] = b[i - (p - 1)]
      BY <1>1, <1>2, <1>3, <1>5, <2>2
    <3>3. QED
      BY <1>3, <1>4, <2>2, <3>1, <3>2
  <2>3. QED
    BY <1>1, <2>1, <2>2
<1>8. QED
  BY <1>4, <1>5, <1>6, <1>7

\* The beginning of a list.
LEMMA FirstOfList ==
  ASSUME NEW S, NEW s \in Seq(S), s # <<>>
  PROVE  /\ Head(s) = s[1] /\ 1 \in DOMAIN s /\ Head(s) \in S /\ Tail(s) \in Seq(S)
         /\ Len(Tail(s)) = Len(s) - 1 /\ Len(s) \in Nat
         /\ \A i \in DOMAIN Tail(s) : i + 1 \in DOMAIN s /\ Tail(s)[i] = s[i + 1]
         /\ \A i \in DOMAIN s : i # 1 => i - 1 \in DOMAIN Tail(s) /\ Tail(s)[i - 1] = s[i]
         /\ ToSet(s) = {Head(s)} \union ToSet(Tail(s))
         /\ IsInjective(s) => IsInjective(Tail(s)) /\ Head(s) \notin ToSet(Tail(s))
<1>1. /\ Head(s) \in S /\ Tail(s) \in Seq(S)
      /\ Len(s) \in Nat /\ DOMAIN s = 1..Len(s) /\ Len(s) # 0
  BY HeadTailProperties, LenProperties, EmptySeq
<1>2. Len(Tail(s)) = Len(s) - 1
  BY HeadTailProperties
<1>3. DOMAIN Tail(s) = 1..(Len(s) - 1)
  BY <1>1, <1>2, LenProperties
<1>4. \A i \in DOMAIN Tail(s) : i + 1 \in DOMAIN s /\ Tail(s)[i] = s[i + 1] /\ i + 1 # 1
  BY <1>1, <1>2, <1>3, HeadTailProperties
<1>5. Head(s) = s[1] /\ 1 \in DOMAIN s
  BY <1>1
<1>6. ASSUME NEW i \in DOMAIN s, i # 1
      PROVE  i - 1 \in DOMAIN Tail(s) /\ Tail(s)[i - 1] = s[i]
  <2>1. i - 1 \in 1..(Len(s) - 1) /\ (i - 1) + 1 = i
    BY <1>1, <1>6
  <2>2. QED
    BY <1>3, <1>4, <2>1
<1>7. ToSet(s) = {Head(s)} \union ToSet(Tail(s))
  <2>1. ToSet(s) \subseteq {Head(s)} \union ToSet(Tail(s))
    BY <1>5, <1>6 DEF ToSet
  <2>2. {Head(s)} \union ToSet(Tail(s)) \subseteq ToSet(s)
    BY <1>4, <1>5 DEF ToSet
  <2>3. QED
    BY <2>1, <2>2
<1>8. ASSUME IsInjective(s)
      PROVE  IsInjective(Tail(s)) /\ Head(s) \notin ToSet(Tail(s))
  <2>1. Head(s) \notin ToSet(Tail(s))
    BY <1>4, <1>5, <1>8 DEF IsInjective, ToSet
  <2>2. ASSUME NEW i \in DOMAIN Tail(s), NEW j \in DOMAIN Tail(s), Tail(s)[i] = Tail(s)[j]
        PROVE  i = j
    <3>1. i + 1 = j + 1
      BY <1>4, <1>8, <2>2 DEF IsInjective
    <3>2. QED
      BY <1>3, <3>1
  <2>3. QED
    BY <2>1, <2>2 DEF IsInjective
<1>9. QED
  BY <1>1, <1>2, <1>4, <1>5, <1>6, <1>7, <1>8

\* The end of a list.
LEMMA LastOfList ==
  ASSUME NEW S, NEW s \in Seq(S), NEW e \in S
  PROVE  /\ Append(s, e) \in Seq(S) /\ DOMAIN Append(s, e) = 1..(Len(s) + 1)
         /\ \A i \in DOMAIN s : Append(s, e)[i] = s[i] /\ i # Len(s) + 1
         /\ Append(s, e)[Len(s) + 1] = e
         /\ DOMAIN s = 1..Len(s) /\ Len(s) \in Nat
         /\ Append(s, e) # <<>> /\ Len(Append(s, e)) = Len(s) + 1
  BY AppendProperties, LenProperties, EmptySeq

LEMMA SetOfAppended ==
  ASSUME NEW S, NEW s \in Seq(S), NEW e \in S
  PROVE  ToSet(Append(s, e)) = ToSet(s) \union {e}
<1>1. /\ DOMAIN Append(s, e) = 1..(Len(s) + 1) /\ DOMAIN s = 1..Len(s) /\ Len(s) \in Nat
      /\ \A i \in DOMAIN s : Append(s, e)[i] = s[i]
      /\ Append(s, e)[Len(s) + 1] = e
  BY LastOfList
<1>2. ToSet(Append(s, e)) \subseteq ToSet(s) \union {e}
  BY <1>1 DEF ToSet
<1>3. ToSet(s) \union {e} \subseteq ToSet(Append(s, e))
  BY <1>1 DEF ToSet
<1>4. QED
  BY <1>2, <1>3

\* The row of a library that has one.
LEMMA RowOfShown ==
  ASSUME NEW l \in Ids(rows)
  PROVE  RowOf(l) \in DOMAIN rows /\ rows[RowOf(l)].id = l
BY DEF Ids, RowOf

\* The row of a library is the only one that goes when it is taken out.
LEMMA RowTakenOut ==
  ASSUME rows \in Seq(Item), HasEachOnce(rows), NEW l \in Ids(rows),
         rows' = RemoveAt(rows, RowOf(l))
  PROVE  /\ rows' \in Seq(Item) /\ HasEachOnce(rows')
         /\ \A i \in DOMAIN rows' :
              \E j \in DOMAIN rows : rows'[i] = rows[j] /\ rows[j].id # l
         /\ Ids(rows)' = Ids(rows) \ {l}
<1> DEFINE p == RowOf(l)
<1>1. Len(rows) \in Nat /\ DOMAIN rows = 1..Len(rows)
  BY LenProperties
<1>2. p \in 1..Len(rows) /\ rows[p].id = l
  BY <1>1, RowOfShown
<1>3. \A i \in 1..Len(rows) : rows[i].id = l <=> i = p
  BY <1>1, <1>2 DEF HasEachOnce
<1>4. rows' = RemoveAt(rows, p)
  OBVIOUS
<1> HIDE DEF p
<1>5. /\ rows' \in Seq(Item) /\ Len(rows') = Len(rows) - 1
      /\ \A i \in 1..(Len(rows) - 1) : rows'[i] = IF i < p THEN rows[i] ELSE rows[i + 1]
  BY <1>2, <1>4, RemoveAtElements
<1>6. DOMAIN rows' = 1..(Len(rows) - 1)
  BY <1>5, LenProperties
<1> DEFINE at(n) == IF n < p THEN n ELSE n + 1
<1>7. \A i \in DOMAIN rows' :
        at(i) \in DOMAIN rows /\ at(i) # p /\ rows'[i] = rows[at(i)]
  BY <1>1, <1>2, <1>5, <1>6
<1>8. HasEachOnce(rows')
  <2> SUFFICES ASSUME NEW i \in DOMAIN rows', NEW j \in DOMAIN rows',
                      rows'[i].id = rows'[j].id
               PROVE  i = j
    BY DEF HasEachOnce
  <2>1. at(i) = at(j)
    BY <1>7 DEF HasEachOnce
  <2>2. QED
    BY <1>1, <1>2, <1>6, <2>1
<1>9. \A i \in DOMAIN rows' : \E j \in DOMAIN rows : rows'[i] = rows[j] /\ rows[j].id # l
  BY <1>1, <1>3, <1>7
<1>10. Ids(rows)' \subseteq Ids(rows) \ {l}
  BY <1>9 DEF Ids
<1>11. ASSUME NEW k \in Ids(rows), k # l
       PROVE  k \in Ids(rows)'
  <2>1. PICK j \in 1..Len(rows) : rows[j].id = k
    BY <1>1 DEF Ids
  <2>2. j # p
    BY <1>2, <1>11, <2>1
  <2>3. CASE j < p
    BY <1>1, <1>2, <1>5, <1>6, <2>1, <2>3 DEF Ids
  <2>4. CASE j > p
    <3>1. j - 1 \in DOMAIN rows' /\ ~ (j - 1 < p) /\ (j - 1) + 1 = j
      BY <1>1, <1>2, <1>6, <2>4
    <3>2. rows'[j - 1] = rows[j]
      BY <1>5, <1>6, <3>1
    <3>3. QED
      BY <2>1, <3>1, <3>2 DEF Ids
  <2>5. QED
    BY <1>1, <1>2, <2>2, <2>3, <2>4
<1>12. QED
  BY <1>5, <1>8, <1>9, <1>10, <1>11

\* A list read from the table has each library once.
LEMMA OrderOfLibraries ==
  ASSUME TypeOK, IsFiniteSet(Libraries), NEW s \in LibraryIdsByName
  PROVE  s \in Seq(LibraryIds) /\ ToSet(s) = Libraries /\ IsInjective(s)
<1>1. Cardinality(Libraries) \in Nat
  BY FS_CardinalityType
<1>2. s \in [1..Cardinality(Libraries) -> LibraryIds] /\ ToSet(s) = Libraries
  BY DEF LibraryIdsByName, TypeOK
<1>3. s \in Seq(LibraryIds)
  BY <1>1, <1>2
<1>4. ASSUME NEW i \in DOMAIN s, NEW j \in DOMAIN s, s[i] = s[j]
      PROVE  i = j
  <2>1. name[s[i]] \in Int /\ DOMAIN s = 1..Cardinality(Libraries)
    BY <1>2, TreeAssumption DEF LibraryIdsByName, TypeOK
  <2>2. ~ i < j /\ ~ j < i
    BY <1>4, <2>1 DEF LibraryIdsByName
  <2>3. QED
    BY <1>1, <2>1, <2>2
<1>5. QED
  BY <1>2, <1>3, <1>4 DEF IsInjective

\* What a request changes.
LEMMA Requested ==
  ASSUME TypeOK, NEW l, Request(l)
  PROVE  \E t \in Tasks :
           /\ phase[t] = "new" /\ phase' = [phase EXCEPT ![t] = "pending"]
           /\ target' = [target EXCEPT ![t] = l]
           /\ priority' \in [Tasks -> Priorities] /\ cancelled' = cancelled
<1>1. PICK t \in Tasks : Service!Submit(t, Immediate) /\ target' = [target EXCEPT ![t] = l]
  BY DEF Request, Service!InPhase
<1>2. phase' = [phase EXCEPT ![t] = "pending"] /\ phase[t] = "new"
  BY <1>1 DEF Service!Submit, Service!Move, TypeOK, Service!TypeOK
<1>3. priority' \in [Tasks -> Priorities] /\ cancelled' = cancelled
  BY <1>1 DEF Service!Submit, TypeOK, Service!TypeOK, Priorities
<1>4. QED
  BY <1>1, <1>2, <1>3

\* A selection follows the rows.
LEMMA Selected ==
  ASSUME NEW r \in Seq(Item), NEW l \in LibraryIds \union {0}, Select(r, l)
  PROVE  /\ listCurrent' \in LibraryIds \union {0}
         /\ currentLibrary' \in LibraryIds \union {0}
         /\ r # <<>> => listCurrent' = currentLibrary' /\ listCurrent' \in Ids(r)
<1>1. \A i \in DOMAIN r : r[i] \in Item
  OBVIOUS
<1>2. Ids(r) \subseteq LibraryIds
  BY <1>1 DEF Ids, Item
<1>3. r # <<>> => 1 \in DOMAIN r
  BY EmptySeq, LenProperties
<1>4. r # <<>> => r[1].id \in Ids(r)
  BY <1>3 DEF Ids
<1>5. 0 \notin LibraryIds
  BY TreeAssumption
<1>6. QED
  BY <1>2, <1>4, <1>5 DEF Select, SetCurrentLibrary

\* The row that is selected when another goes is that of a library.
LEMMA NeighbourIsALibrary ==
  ASSUME rows \in Seq(Item), currentLibrary \in LibraryIds \union {0}, NEW l \in Ids(rows)
  PROVE  Neighbour(l) \in LibraryIds \union {0}
<1>1. \A i \in 1..Len(rows) : rows[i].id \in LibraryIds
  <2>1. \A i \in 1..Len(rows) : rows[i] \in Item
    BY ElementOfSeq
  <2>2. QED
    BY <2>1 DEF Item
<1>2. RowOf(l) \in 1..Len(rows) /\ DOMAIN rows = 1..Len(rows) /\ Len(rows) \in Nat
  BY RowOfShown, LenProperties
<1>3. CASE listCurrent # l \/ RowOf(l) < Len(rows)
  <2>1. RowOf(l) < Len(rows) => RowOf(l) + 1 \in 1..Len(rows)
    BY <1>2
  <2>2. QED
    BY <1>1, <1>3, <2>1 DEF Neighbour
<1>4. CASE ~ (listCurrent # l \/ RowOf(l) < Len(rows))
  <2>1. Len(rows) > 1 => Len(rows) - 1 \in 1..Len(rows)
    BY <1>2
  <2>2. QED
    BY <1>1, <1>4, <2>1 DEF Neighbour
<1>5. QED
  BY <1>3, <1>4

-----------------------------------------------------------------------------
(* Type correctness.                                                       *)

LEMMA TypeInit == Init => TypeOK
<1> SUFFICES ASSUME Init PROVE TypeOK
  OBVIOUS
<1> USE TreeAssumption DEF Init
<1>1. Service!TypeOK
  BY DEF Service!TypeOK, Service!Phases
<1>2. DOMAIN name = {1}
  OBVIOUS
<1>3. /\ rows \in Seq(Item) /\ posted \in Seq([branch : BOOLEAN, items : Seq(Item)])
      /\ todo \in [Tasks -> Seq(LibraryIds)] /\ snapshot \in [Tasks -> Seq(Item)]
  BY EmptySeq
<1>4. QED
  BY <1>1, <1>2, <1>3 DEF TypeOK, Libraries, Steps

\* The steps of the user and of imports.
LEMMA TypeOfUserSteps ==
  ASSUME TypeOK, OneRowEach, NEW l \in LibraryIds, NEW n \in Names,
         \/ AddLibrary(l, n) \/ UpdateLibraryName(l, n) \/ AddLibraryAgain(l)
         \/ RemoveLibrary(l) \/ ClickLibrary(l) \/ Import(l) \/ FolderImported(l)
  PROVE  TypeOK'
<1> USE DEF TypeOK, Service!TypeOK
<1>0. outdated' \subseteq LibraryIds
  BY DEF AddLibrary, UpdateLibraryName, AddLibraryAgain, RemoveLibrary, ClickLibrary,
         Import, FolderImported, Overtakes
<1>1. CASE AddLibrary(l, n)
  <2> USE DEF AddLibrary, InsertLibrary, Libraries
  <2>1. PICK t \in Tasks :
          /\ phase' = [phase EXCEPT ![t] = "pending"] /\ target' = [target EXCEPT ![t] = l]
          /\ priority' \in [Tasks -> Priorities] /\ cancelled' = cancelled
    BY <1>1, Requested
  <2>2. phase' \in [Tasks -> Service!Phases]
    BY <2>1 DEF Service!Phases
  <2>3. DOMAIN name' = DOMAIN name \union {l} /\ name' \in [DOMAIN name' -> Names]
    BY <1>1
  <2>4. QED
    BY <1>0, <1>1, <2>1, <2>2, <2>3 DEF guiVars
<1>2. CASE UpdateLibraryName(l, n)
  <2> USE DEF UpdateLibraryName, RenameLibrary, LibraryExists, Libraries
  <2>1. l \in Ids(rows) /\ RowOf(l) \in DOMAIN rows
    BY <1>2, RowOfShown
  <2>2. rows[RowOf(l)] \in Item
    BY <2>1
  <2>3. [rows[RowOf(l)] EXCEPT !.name = n] \in Item
    BY <2>2 DEF Item
  <2>4. rows' \in Seq(Item)
    BY <1>2, <2>1, <2>3, ExceptSeq
  <2>5. DOMAIN name' = DOMAIN name /\ name' \in [DOMAIN name' -> Names]
    BY <1>2
  <2>6. QED
    BY <1>0, <1>2, <2>4, <2>5 DEF serviceVars, taskVars
<1>3. CASE AddLibraryAgain(l)
  <2>1. PICK t \in Tasks :
          /\ phase' = [phase EXCEPT ![t] = "pending"] /\ target' = [target EXCEPT ![t] = l]
          /\ priority' \in [Tasks -> Priorities] /\ cancelled' = cancelled
    BY <1>3, Requested DEF AddLibraryAgain
  <2>2. phase' \in [Tasks -> Service!Phases]
    BY <2>1 DEF Service!Phases
  <2>3. QED
    BY <1>0, <1>3, <2>1, <2>2 DEF AddLibraryAgain, dbVars, guiVars, Libraries
<1>4. CASE RemoveLibrary(l)
  <2> USE DEF RemoveLibrary, DeleteLibrary, LibraryExists, Libraries
  <2>1. l \in Ids(rows) /\ HasEachOnce(rows)
    BY <1>4 DEF OneRowEach, HasEachOnce
  <2>2. rows' \in Seq(Item)
    BY <1>4, <2>1, RowTakenOut
  <2>3. Neighbour(l) \in LibraryIds \union {0}
    BY <2>1, NeighbourIsALibrary
  <2>4. {listCurrent', currentLibrary'} \subseteq LibraryIds \union {0}
    <3>1. CASE rows' # <<>>
      <4>1. Select(rows', Neighbour(l))
        BY <1>4, <3>1 DEF SelectAfterRemoval
      <4>2. QED
        BY <2>2, <2>3, <4>1, Selected
    <3>2. CASE rows' = <<>>
      BY <1>4, <3>2 DEF SelectAfterRemoval, SetCurrentLibrary
    <3>3. QED
      BY <3>1, <3>2
  <2>5. DOMAIN name' = DOMAIN name \ {l} /\ name' \in [DOMAIN name' -> Names]
    BY <1>4
  <2>6. QED
    BY <1>0, <1>4, <2>2, <2>4, <2>5 DEF serviceVars, taskVars
<1>5. CASE ClickLibrary(l)
  BY <1>0, <1>5 DEF ClickLibrary, SetCurrentLibrary, serviceVars, dbVars, taskVars, Libraries
<1>6. CASE Import(l)
  <2>1. content[l] \in 0..MaxContent /\ content[l] < MaxContent /\ MaxContent \in Nat
    BY <1>6, TreeAssumption DEF Import
  <2>2. content' \in [LibraryIds -> 0..MaxContent]
    BY <1>6, <2>1 DEF Import
  <2>3. importing' \subseteq usedIds
    BY <1>6 DEF Import, Libraries
  <2>4. QED
    BY <1>0, <1>6, <2>2, <2>3 DEF Import, serviceVars, taskVars, guiVars, Libraries
<1>7. CASE FolderImported(l)
  <2>1. PICK t \in Tasks :
          /\ phase' = [phase EXCEPT ![t] = "pending"] /\ target' = [target EXCEPT ![t] = 0]
          /\ priority' \in [Tasks -> Priorities] /\ cancelled' = cancelled
    BY <1>7, Requested DEF FolderImported
  <2>2. phase' \in [Tasks -> Service!Phases]
    BY <2>1 DEF Service!Phases
  <2>3. QED
    BY <1>0, <1>7, <2>1, <2>2 DEF FolderImported, guiVars, Libraries
<1>8. QED
  BY <1>1, <1>2, <1>3, <1>4, <1>5, <1>6, <1>7

\* What is delivered.
LEMMA HeadPosted ==
  ASSUME TypeOK, posted # <<>>
  PROVE  /\ Head(posted) = posted[1] /\ 1 \in DOMAIN posted
         /\ Head(posted).branch \in BOOLEAN /\ Head(posted).items \in Seq(Item)
         /\ Tail(posted) \in Seq([branch : BOOLEAN, items : Seq(Item)])
         /\ \A i \in DOMAIN Tail(posted) :
              i + 1 \in DOMAIN posted /\ Tail(posted)[i] = posted[i + 1]
         /\ \A i \in DOMAIN posted : i # 1 =>
              i - 1 \in DOMAIN Tail(posted) /\ Tail(posted)[i - 1] = posted[i]
<1> DEFINE P == [branch : BOOLEAN, items : Seq(Item)]
<1>1. posted \in Seq(P) /\ posted # <<>>
  BY DEF TypeOK
<1> HIDE DEF P
<1>2. Head(posted) \in P
  BY <1>1, FirstOfList
<1>3. Head(posted).branch \in BOOLEAN /\ Head(posted).items \in Seq(Item)
  BY <1>2 DEF P
<1>4. QED
  BY <1>1, <1>3, FirstOfList DEF P

\* Delivery.
LEMMA TypeOfDelivery ==
  ASSUME TypeOK, Deliver
  PROVE  TypeOK'
<1> USE DEF TypeOK, Service!TypeOK
<1>1. /\ posted # <<>> /\ posted' = Tail(posted)
      /\ UNCHANGED <<serviceVars, dbVars, taskVars, outdated>>
  BY DEF Deliver, OnTreeUpdated, OnLibraryBranchUpdated
<1>2. /\ Head(posted).items \in Seq(Item)
      /\ posted' \in Seq([branch : BOOLEAN, items : Seq(Item)])
  BY <1>1, HeadPosted
<1>3. rows' \in Seq(Item) /\ {listCurrent', currentLibrary'} \subseteq LibraryIds \union {0}
  <2>1. CASE OnTreeUpdated
    <3>1. rows' \in Seq(Item) /\ Select(rows', currentLibrary)
      BY <1>2, <2>1 DEF OnTreeUpdated
    <3>2. QED
      BY <3>1, Selected
  <2>2. CASE OnLibraryBranchUpdated /\ Head(posted).items[1].id \in Ids(rows)
    BY <2>2 DEF OnLibraryBranchUpdated, guiVars
  <2>3. CASE OnLibraryBranchUpdated /\ Head(posted).items[1].id \notin Ids(rows)
    <3>1. rows' = rows \o Head(posted).items /\ Select(rows', currentLibrary)
      BY <2>3 DEF OnLibraryBranchUpdated
    <3>2. rows' \in Seq(Item)
      BY <1>2, <3>1, ConcatProperties
    <3>3. QED
      BY <3>1, <3>2, Selected
  <2>4. QED
    BY <2>1, <2>2, <2>3 DEF Deliver
<1>4. QED
  BY <1>1, <1>2, <1>3 DEF serviceVars, dbVars, taskVars, Libraries

\* What a task reads.
LEMMA TypeOfReading ==
  ASSUME TypeOK, Table, Reading, NEW t \in Tasks,
         ReadLibrary(t) \/ ReadLibraries(t) \/ ReadName(t) \/ ReadTrees(t)
  PROVE  /\ TypeOK' /\ UNCHANGED <<phase, target, posted>>
         /\ todo' = [todo EXCEPT ![t] = todo'[t]]
         /\ snapshot' = [snapshot EXCEPT ![t] = snapshot'[t]]
         /\ step' = [step EXCEPT ![t] = step'[t]]
<1> USE DEF TypeOK, Service!TypeOK, At, Go, Steps
<1>1. CASE ReadLibrary(t)
  <2>1. <<target[t]>> \in Seq(LibraryIds)
    BY <1>1 DEF ReadLibrary
  <2>2. todo' \in [Tasks -> Seq(LibraryIds)]
    BY <1>1, <2>1 DEF ReadLibrary
  <2>3. QED
    BY <1>1, <2>2 DEF ReadLibrary, serviceVars, dbVars, guiVars, Libraries
<1>2. CASE ReadLibraries(t)
  <2>1. PICK s \in LibraryIdsByName : todo' = [todo EXCEPT ![t] = s]
    BY <1>2 DEF ReadLibraries
  <2>2. s \in Seq(LibraryIds)
    BY OrderOfLibraries DEF Table
  <2>3. QED
    BY <1>2, <2>1, <2>2 DEF ReadLibraries, serviceVars, dbVars, guiVars, Libraries
<1>3. CASE ReadName(t)
  <2> DEFINE l == Head(todo[t])
  <2>1. l \in LibraryIds
    BY <1>3, HeadTailProperties DEF ReadName
  <2>2. CASE LibraryExists(l)
    <3>1. LibraryEntry(l, 0) \in Item
      <4>1. name[l] \in Names
        BY <2>2 DEF LibraryExists, Libraries
      <4>2. 0 \in 0..MaxContent
        BY TreeAssumption
      <4> HIDE DEF l
      <4>3. QED
        BY <2>1, <4>1, <4>2 DEF LibraryEntry, Item
    <3>2. Append(snapshot[t], LibraryEntry(l, 0)) \in Seq(Item)
      BY <3>1, LastOfList
    <3>3. QED
      BY <1>3, <2>2, <3>2 DEF ReadName, serviceVars, dbVars, guiVars, Libraries
  <2>3. CASE ~ LibraryExists(l)
    BY <1>3, <2>3 DEF ReadName, serviceVars, dbVars, guiVars, Libraries
  <2>4. QED
    BY <2>2, <2>3
<1>4. CASE ReadTrees(t)
  <2> DEFINE n == Len(snapshot[t])
             c == content[Head(todo[t])]
             s == [snapshot[t] EXCEPT ![n] = [snapshot[t][n] EXCEPT !.content = c]]
  <2>1. todo[t] # <<>> /\ snapshot[t] # <<>>
    BY <1>4 DEF ReadTrees, Reading
  <2>2. Head(todo[t]) \in LibraryIds /\ Tail(todo[t]) \in Seq(LibraryIds)
    BY <2>1, HeadTailProperties
  <2>3. c \in 0..MaxContent
    BY <2>2
  <2>4. n \in 1..Len(snapshot[t]) /\ snapshot[t] \in Seq(Item)
    BY <2>1, EmptySeq, LenProperties
  <2>5. snapshot[t][n] \in Item
    BY <2>4, ElementOfSeq
  <2>6. [snapshot[t][n] EXCEPT !.content = c] \in Item
    BY <2>3, <2>5 DEF Item
  <2>7. s \in Seq(Item)
    BY <2>4, <2>6, ExceptSeq
  <2>8. snapshot' = [snapshot EXCEPT ![t] = s]
    BY <1>4 DEF ReadTrees
  <2> HIDE DEF s, c, n
  <2>9. snapshot' \in [Tasks -> Seq(Item)] /\ todo' = [todo EXCEPT ![t] = Tail(todo[t])]
    BY <1>4, <2>7, <2>8 DEF ReadTrees
  <2>10. QED
    BY <1>4, <2>2, <2>8, <2>9 DEF ReadTrees, serviceVars, dbVars, guiVars, Libraries
<1>5. QED
  BY <1>1, <1>2, <1>3, <1>4

\* The service calls of a task, as assignments.
LEMMA TaskMoves ==
  ASSUME TypeOK, NEW t \in Tasks
  PROVE  /\ StartTask(t) => phase[t] = "pending" /\ phase' = [phase EXCEPT ![t] = "running"]
         /\ ReportTask(t) => phase[t] = "running" /\ phase' = [phase EXCEPT ![t] = "reported"]
         /\ FinalizeTask(t) =>
              phase[t] = "reported" /\ phase' = [phase EXCEPT ![t] = "finalized"]
BY DEF TypeOK, Service!TypeOK, StartTask, ReportTask, FinalizeTask,
       Service!Start, Service!Report, Service!Finalize, Service!Move

LEMMA TypeOfMoves ==
  ASSUME TypeOK, NEW t \in Tasks, StartTask(t) \/ ReportTask(t) \/ FinalizeTask(t)
  PROVE  TypeOK'
<1> USE DEF TypeOK, Service!TypeOK
<1>1. /\ phase' \in [Tasks -> Service!Phases]
      /\ UNCHANGED <<priority, cancelled, dbVars, guiVars, target, todo, step, outdated>>
  <2>1. phase' \in [Tasks -> Service!Phases]
    BY TaskMoves DEF Service!Phases
  <2>2. UNCHANGED <<priority, cancelled, dbVars, guiVars, target, todo, step, outdated>>
    BY DEF StartTask, ReportTask, FinalizeTask, Service!Start, Service!Report,
           Service!Finalize, taskVars
  <2>3. QED
    BY <2>1, <2>2
<1>2. /\ snapshot' \in [Tasks -> Seq(Item)]
      /\ posted' \in Seq([branch : BOOLEAN, items : Seq(Item)])
  <2>1. CASE ReportTask(t)
    <3>1. <<>> \in Seq(Item) /\ snapshot[t] \in Seq(Item)
      BY EmptySeq
    <3>2. snapshot' \in [Tasks -> Seq(Item)]
      BY <2>1, <3>1 DEF ReportTask
    <3>3. [branch |-> target[t] # 0, items |-> snapshot[t]]
            \in [branch : BOOLEAN, items : Seq(Item)]
      BY <3>1
    <3>4. Append(posted, [branch |-> target[t] # 0, items |-> snapshot[t]])
            \in Seq([branch : BOOLEAN, items : Seq(Item)])
      BY <3>3, LastOfList
    <3>5. QED
      BY <2>1, <3>2, <3>4 DEF ReportTask
  <2>2. CASE StartTask(t) \/ FinalizeTask(t)
    BY <2>2 DEF StartTask, FinalizeTask, taskVars
  <2>3. QED
    BY <2>1, <2>2
<1>3. QED
  BY <1>1, <1>2 DEF dbVars, guiVars, Libraries

LEMMA TypeStep ==
  ASSUME TypeOK, OneRowEach, Table, Reading, [Next]_vars
  PROVE  TypeOK'
<1>1. CASE UNCHANGED vars
  BY <1>1 DEF vars, TypeOK, Service!TypeOK, serviceVars, dbVars, taskVars, guiVars, Libraries
<1>2. CASE Next
  <2>1. 1 \in Names
    BY TreeAssumption
  <2>2. QED
    BY <1>2, <2>1, TypeOfUserSteps, TypeOfDelivery, TypeOfReading, TypeOfMoves
      DEF Next, WorkerStep
<1>3. QED
  BY <1>1, <1>2

-----------------------------------------------------------------------------
(* The rows and the table.                                                 *)

\* What changes the rows, and that no id is given back.
LEMMA RowChanges ==
  ASSUME [Next]_vars
  PROVE  /\ \/ UNCHANGED guiVars
            \/ \E l \in LibraryIds, n \in Names : UpdateLibraryName(l, n)
            \/ \E l \in LibraryIds : RemoveLibrary(l) \/ ClickLibrary(l)
            \/ Deliver
         /\ usedIds \subseteq usedIds'
<1>1. CASE UNCHANGED vars
  BY <1>1 DEF vars, dbVars
<1>2. ASSUME NEW l \in LibraryIds, NEW n \in Names, AddLibrary(l, n) \/ UpdateLibraryName(l, n)
      PROVE  /\ UNCHANGED guiVars \/ UpdateLibraryName(l, n)
             /\ usedIds \subseteq usedIds'
  BY <1>2 DEF AddLibrary, InsertLibrary, UpdateLibraryName
<1>3. ASSUME NEW l \in LibraryIds,
             AddLibraryAgain(l) \/ RemoveLibrary(l) \/ ClickLibrary(l)
             \/ Import(l) \/ FolderImported(l)
      PROVE  /\ UNCHANGED guiVars \/ RemoveLibrary(l) \/ ClickLibrary(l)
             /\ usedIds \subseteq usedIds'
  BY <1>3 DEF AddLibraryAgain, RemoveLibrary, ClickLibrary, Import, FolderImported, dbVars
<1>4. Deliver => usedIds \subseteq usedIds'
  BY DEF Deliver, OnTreeUpdated, OnLibraryBranchUpdated, dbVars
<1>5. ASSUME NEW t \in Tasks, StartTask(t) \/ WorkerStep(t)
      PROVE  UNCHANGED guiVars /\ usedIds \subseteq usedIds'
  BY <1>5 DEF StartTask, WorkerStep, ReadLibrary, ReadLibraries, ReadName, ReadTrees,
              ReportTask, FinalizeTask, dbVars
<1>6. QED
  BY <1>1, <1>2, <1>3, <1>4, <1>5 DEF Next

\* A delivery adds rows of libraries that have none.
LEMMA RowsDelivered ==
  ASSUME TypeOK, OneRowEach, Table, PostedOnce, Deliver
  PROVE  OneRowEach' /\ Ids(rows)' \subseteq usedIds'
<1>1. posted # <<>> /\ usedIds' = usedIds
  BY DEF Deliver, OnTreeUpdated, OnLibraryBranchUpdated, dbVars
<1> DEFINE s == Head(posted).items
<1>2. /\ s \in Seq(Item) /\ HasEachOnce(s) /\ Ids(s) \subseteq usedIds
      /\ Head(posted).branch => Len(s) = 1
  BY <1>1, HeadPosted DEF PostedOnce
<1> HIDE DEF s
<1>3. rows \in Seq(Item) /\ currentLibrary \in LibraryIds \union {0}
  BY DEF TypeOK
<1>4. CASE OnTreeUpdated
  <2>1. rows' = s /\ Select(s, currentLibrary)
    BY <1>4 DEF OnTreeUpdated, s
  <2>2. s # <<>> => listCurrent' = currentLibrary' /\ listCurrent' \in Ids(s)
    BY <1>2, <1>3, <2>1, Selected
  <2>3. Ids(rows)' = Ids(s)
    BY <2>1 DEF Ids
  <2>4. QED
    BY <1>1, <1>2, <2>1, <2>2, <2>3 DEF OneRowEach, HasEachOnce
<1>5. CASE OnLibraryBranchUpdated /\ s[1].id \in Ids(rows)
  BY <1>1, <1>5 DEF OnLibraryBranchUpdated, guiVars, OneRowEach, Ids, Table, s
<1>6. CASE OnLibraryBranchUpdated /\ s[1].id \notin Ids(rows)
  <2>1. rows' = rows \o s /\ Select(rows \o s, currentLibrary) /\ Len(s) = 1
    BY <1>2, <1>6 DEF OnLibraryBranchUpdated, s
  <2>2. /\ rows \o s \in Seq(Item) /\ Len(rows \o s) = Len(rows) + 1
        /\ \A i \in 1..(Len(rows) + 1) :
             (rows \o s)[i] = IF i <= Len(rows) THEN rows[i] ELSE s[i - Len(rows)]
    <3>1. /\ rows \o s \in Seq(Item) /\ Len(rows \o s) = Len(rows) + Len(s)
          /\ \A i \in 1..(Len(rows) + Len(s)) :
               (rows \o s)[i] = IF i <= Len(rows) THEN rows[i] ELSE s[i - Len(rows)]
      BY <1>2, <1>3, ConcatProperties, Zenon
    <3>2. QED
      BY <2>1, <3>1
  <2>3. /\ Len(rows) \in Nat /\ DOMAIN rows = 1..Len(rows) /\ DOMAIN s = 1..1
        /\ DOMAIN (rows \o s) = 1..(Len(rows) + 1)
    BY <1>2, <1>3, <2>1, <2>2, LenProperties
  <2>4. /\ \A i \in DOMAIN rows : i # Len(rows) + 1 /\ (rows \o s)[i] = rows[i]
        /\ (rows \o s)[Len(rows) + 1] = s[1]
        /\ \A i \in DOMAIN (rows \o s) : i \in DOMAIN rows \/ i = Len(rows) + 1
    BY <2>2, <2>3
  <2>5. HasEachOnce(rows')
    <3>1. HasEachOnce(rows) /\ \A i \in DOMAIN rows : rows[i].id # s[1].id
      BY <1>6 DEF OneRowEach, HasEachOnce, Ids
    <3>2. QED
      BY <2>1, <2>4, <3>1 DEF HasEachOnce
  <2>6. Ids(rows)' \subseteq usedIds
    <3>1. s[1].id \in usedIds
      BY <1>2, <2>3 DEF Ids
    <3>2. \A i \in DOMAIN rows : rows[i].id \in usedIds
      BY DEF Table, Ids
    <3>3. QED
      BY <2>1, <2>4, <3>1, <3>2 DEF Ids
  <2>7. rows \o s # <<>>
    BY <2>2, <2>3
  <2>8. listCurrent' = currentLibrary' /\ listCurrent' \in Ids(rows \o s)
    BY <1>3, <2>1, <2>2, <2>7, Selected
  <2>9. QED
    BY <1>1, <2>1, <2>5, <2>6, <2>8 DEF OneRowEach, HasEachOnce, Ids
<1>7. QED
  BY <1>4, <1>5, <1>6 DEF Deliver, OnLibraryBranchUpdated

\* A renamed row keeps its id and what its trees were made from.
LEMMA RowRenamed ==
  ASSUME rows \in Seq(Item), NEW l \in LibraryIds, NEW n, UpdateLibraryName(l, n)
  PROVE  /\ DOMAIN rows' = DOMAIN rows /\ Ids(rows)' = Ids(rows)
         /\ rows' # <<>>
         /\ \A i \in DOMAIN rows :
              /\ rows'[i].id = rows[i].id /\ rows'[i].content = rows[i].content
              /\ rows'[i].name = IF i = RowOf(l) THEN n ELSE rows[i].name
<1>1. RowOf(l) \in DOMAIN rows
  BY RowOfShown DEF UpdateLibraryName
<1>2. DOMAIN rows' = DOMAIN rows
  BY DEF UpdateLibraryName
<1>3. \A i \in DOMAIN rows :
        rows'[i] = IF i = RowOf(l) THEN [rows[i] EXCEPT !.name = n] ELSE rows[i]
  BY DEF UpdateLibraryName
<1>4. \A i \in DOMAIN rows : rows[i] \in Item
  OBVIOUS
<1>5. \A i \in DOMAIN rows :
        /\ rows'[i].id = rows[i].id /\ rows'[i].content = rows[i].content
        /\ rows'[i].name = IF i = RowOf(l) THEN n ELSE rows[i].name
  BY <1>1, <1>3, <1>4 DEF Item
<1>6. rows' # <<>>
  BY <1>1, <1>2
<1>7. QED
  BY <1>2, <1>5, <1>6 DEF Ids

\* One row each, whatever the user does.
LEMMA RowsStep ==
  ASSUME TypeOK, OneRowEach, Table, PostedOnce, [Next]_vars
  PROVE  OneRowEach' /\ Ids(rows)' \subseteq usedIds'
<1>1. usedIds \subseteq usedIds' /\ rows \in Seq(Item)
  BY RowChanges DEF TypeOK
<1>2. HasEachOnce(rows) /\ Ids(rows) \subseteq usedIds
  BY DEF OneRowEach, HasEachOnce, Table
<1>3. CASE UNCHANGED guiVars
  BY <1>1, <1>2, <1>3 DEF guiVars, OneRowEach, Ids
<1>4. CASE Deliver
  BY <1>4, RowsDelivered
<1>5. ASSUME NEW l \in LibraryIds, NEW n \in Names, UpdateLibraryName(l, n)
      PROVE  OneRowEach' /\ Ids(rows)' \subseteq usedIds'
  <2>1. /\ DOMAIN rows' = DOMAIN rows /\ Ids(rows)' = Ids(rows)
        /\ \A i \in DOMAIN rows : rows'[i].id = rows[i].id
    BY <1>1, <1>5, RowRenamed
  <2>2. rows # <<>> /\ UNCHANGED <<listCurrent, currentLibrary>>
    BY <1>5, RowOfShown DEF UpdateLibraryName
  <2>3. QED
    BY <1>1, <1>2, <2>1, <2>2 DEF OneRowEach, HasEachOnce
<1>6. ASSUME NEW l \in LibraryIds, RemoveLibrary(l)
      PROVE  OneRowEach' /\ Ids(rows)' \subseteq usedIds'
  <2>1. l \in Ids(rows) /\ rows' = RemoveAt(rows, RowOf(l)) /\ SelectAfterRemoval(l)
    BY <1>6 DEF RemoveLibrary
  <2>2. rows' \in Seq(Item) /\ HasEachOnce(rows') /\ Ids(rows)' = Ids(rows) \ {l}
    BY <1>1, <1>2, <2>1, RowTakenOut
  <2>3. TypeOK'
    BY <1>6, TypeOfUserSteps, TreeAssumption
  <2>4. rows' # <<>> => listCurrent' = currentLibrary' /\ listCurrent' \in Ids(rows')
    <3> SUFFICES ASSUME rows' # <<>>
                 PROVE  listCurrent' = currentLibrary' /\ listCurrent' \in Ids(rows')
      OBVIOUS
    <3>1. Select(rows', Neighbour(l))
      BY <2>1 DEF SelectAfterRemoval
    <3>2. Neighbour(l) \in LibraryIds \union {0}
      BY <1>1, <2>1, NeighbourIsALibrary DEF TypeOK
    <3>3. QED
      BY <2>2, <3>1, <3>2, Selected
  <2>5. QED
    BY <1>1, <1>2, <2>2, <2>4 DEF OneRowEach, HasEachOnce, Ids
<1>7. ASSUME NEW l \in LibraryIds, ClickLibrary(l)
      PROVE  OneRowEach' /\ Ids(rows)' \subseteq usedIds'
  BY <1>1, <1>2, <1>7 DEF ClickLibrary, SetCurrentLibrary, OneRowEach, HasEachOnce, Ids
<1>8. QED
  BY <1>3, <1>4, <1>5, <1>6, <1>7, RowChanges

\* The table stays finite, and requests are for what is or was a library.
LEMMA TableStep ==
  ASSUME TypeOK, OneRowEach, Table, PostedOnce, [Next]_vars
  PROVE  Table'
<1>1. usedIds \subseteq usedIds'
  BY RowChanges
<1>2. IsFiniteSet(Libraries)'
  <2>1. CASE Libraries' \subseteq Libraries
    BY <2>1, FS_Subset DEF Table
  <2>2. ASSUME NEW l \in LibraryIds, NEW n \in Names, AddLibrary(l, n)
        PROVE  IsFiniteSet(Libraries)'
    <3>1. Libraries' = Libraries \union {l}
      BY <2>2 DEF AddLibrary, InsertLibrary, Libraries
    <3>2. QED
      BY <3>1, FS_AddElement DEF Table
  <2>3. ASSUME NEW l \in LibraryIds, NEW n \in Names, UpdateLibraryName(l, n)
        PROVE  Libraries' \subseteq Libraries
    BY <2>3 DEF UpdateLibraryName, RenameLibrary, Libraries
  <2>4. ASSUME NEW l \in LibraryIds,
               AddLibraryAgain(l) \/ RemoveLibrary(l) \/ ClickLibrary(l)
               \/ Import(l) \/ FolderImported(l)
        PROVE  Libraries' \subseteq Libraries
    BY <2>4 DEF AddLibraryAgain, RemoveLibrary, DeleteLibrary, ClickLibrary, Import,
                FolderImported, dbVars, Libraries
  <2>5. Deliver => Libraries' \subseteq Libraries
    BY DEF Deliver, OnTreeUpdated, OnLibraryBranchUpdated, dbVars, Libraries
  <2>6. ASSUME NEW t \in Tasks, StartTask(t) \/ WorkerStep(t)
        PROVE  Libraries' \subseteq Libraries
    BY <2>6 DEF StartTask, WorkerStep, ReadLibrary, ReadLibraries, ReadName, ReadTrees,
                ReportTask, FinalizeTask, dbVars, Libraries
  <2>7. UNCHANGED vars => Libraries' \subseteq Libraries
    BY DEF vars, dbVars, Libraries
  <2>8. QED
    BY <2>1, <2>2, <2>3, <2>4, <2>5, <2>6, <2>7 DEF Next
<1>3. \A t \in Tasks : target'[t] \in usedIds' \union {0}
  <2>0. \A t \in Tasks : target[t] \in usedIds' \union {0}
    BY <1>1 DEF Table
  <2>1. CASE UNCHANGED target
    BY <2>0, <2>1
  <2>2. ASSUME NEW l \in usedIds' \union {0}, Request(l)
        PROVE  \A t \in Tasks : target'[t] \in usedIds' \union {0}
    <3>1. PICK t \in Tasks : target' = [target EXCEPT ![t] = l]
      BY <2>2, Requested
    <3>2. QED
      BY <2>0, <3>1 DEF TypeOK
  <2>3. ASSUME NEW l \in LibraryIds, NEW n \in Names, AddLibrary(l, n)
        PROVE  Request(l) /\ l \in usedIds'
    BY <2>3 DEF AddLibrary, InsertLibrary
  <2>4. ASSUME NEW l \in LibraryIds, AddLibraryAgain(l)
        PROVE  Request(l) /\ l \in usedIds'
    BY <2>4 DEF AddLibraryAgain, dbVars, TypeOK
  <2>5. ASSUME NEW l \in LibraryIds, FolderImported(l)
        PROVE  Request(0)
    BY <2>5 DEF FolderImported
  <2>6. ASSUME NEW l \in LibraryIds, NEW n \in Names,
               UpdateLibraryName(l, n) \/ RemoveLibrary(l) \/ ClickLibrary(l) \/ Import(l)
        PROVE  UNCHANGED target
    BY <2>6 DEF UpdateLibraryName, RemoveLibrary, ClickLibrary, Import, taskVars
  <2>7. Deliver \/ UNCHANGED vars => UNCHANGED target
    BY DEF Deliver, OnTreeUpdated, OnLibraryBranchUpdated, vars, taskVars
  <2>8. ASSUME NEW t \in Tasks, StartTask(t) \/ WorkerStep(t)
        PROVE  UNCHANGED target
    BY <2>8 DEF StartTask, WorkerStep, ReadLibrary, ReadLibraries, ReadName, ReadTrees,
                ReportTask, FinalizeTask, taskVars
  <2>9. 1 \in Names
    BY TreeAssumption
  <2>10. QED
    BY <2>1, <2>2, <2>3, <2>4, <2>5, <2>6, <2>7, <2>8, <2>9 DEF Next
<1>4. QED
  BY <1>2, <1>3, RowsStep DEF Table

-----------------------------------------------------------------------------
(* What the tasks have read.                                               *)

\* A step that is none of a task: nothing is read, a task is queued at most,
\* and no library that was removed comes back.
Elsewhere ==
  /\ UNCHANGED <<step, todo, snapshot>>
  /\ \A t \in Tasks :
       \/ phase'[t] = phase[t] /\ target'[t] = target[t]
       \/ phase[t] = "new" /\ phase'[t] = "pending"
  /\ usedIds \subseteq usedIds' /\ usedIds \intersect Libraries' \subseteq Libraries
  /\ posted' = posted \/ (Deliver /\ posted # <<>> /\ posted' = Tail(posted))

LEMMA ElsewhereOrTask ==
  ASSUME TypeOK, [Next]_vars
  PROVE  Elsewhere \/ \E t \in Tasks : StartTask(t) \/ WorkerStep(t)
<1> USE DEF Elsewhere
<1>1. CASE UNCHANGED vars
  BY <1>1 DEF vars, serviceVars, dbVars, taskVars, Libraries
<1>2. ASSUME NEW l, Request(l)
      PROVE  \A t \in Tasks :
               \/ phase'[t] = phase[t] /\ target'[t] = target[t]
               \/ phase[t] = "new" /\ phase'[t] = "pending"
  <2>1. PICK t \in Tasks :
          /\ phase[t] = "new" /\ phase' = [phase EXCEPT ![t] = "pending"]
          /\ target' = [target EXCEPT ![t] = l]
    BY <1>2, Requested
  <2>2. QED
    BY <2>1 DEF TypeOK, Service!TypeOK
<1>3. ASSUME NEW l \in LibraryIds, NEW n \in Names, AddLibrary(l, n)
      PROVE  Elsewhere
  BY <1>2, <1>3 DEF AddLibrary, InsertLibrary, Libraries
<1>4. ASSUME NEW l \in LibraryIds, NEW n \in Names, UpdateLibraryName(l, n)
      PROVE  Elsewhere
  BY <1>4 DEF UpdateLibraryName, RenameLibrary, Libraries, serviceVars, taskVars
<1>5. ASSUME NEW l \in LibraryIds, AddLibraryAgain(l) \/ FolderImported(l)
      PROVE  Elsewhere
  BY <1>2, <1>5 DEF AddLibraryAgain, FolderImported, dbVars, Libraries
<1>6. ASSUME NEW l \in LibraryIds, RemoveLibrary(l) \/ ClickLibrary(l) \/ Import(l)
      PROVE  Elsewhere
  BY <1>6 DEF RemoveLibrary, DeleteLibrary, ClickLibrary, Import, Libraries,
              serviceVars, dbVars, taskVars
<1>7. CASE Deliver
  BY <1>7 DEF Deliver, OnTreeUpdated, OnLibraryBranchUpdated, serviceVars, dbVars,
              taskVars, Libraries
<1>8. QED
  BY <1>1, <1>3, <1>4, <1>5, <1>6, <1>7 DEF Next

\* What reading a name adds to the snapshot.
LEMMA NameRead ==
  ASSUME TypeOK, Reading, NEW t \in Tasks, ReadName(t), ~ dead', NEW l, l = Head(todo[t])
  PROVE  /\ todo[t] # <<>> /\ l \in Libraries /\ l \in usedIds
         /\ step[t] = "next" /\ step'[t] = "trees" /\ UNCHANGED todo
         /\ Len(snapshot[t]) \in Nat /\ Len(snapshot'[t]) = Len(snapshot[t]) + 1
         /\ DOMAIN snapshot[t] = 1..Len(snapshot[t])
         /\ DOMAIN snapshot'[t] = 1..(Len(snapshot[t]) + 1)
         /\ \A i \in DOMAIN snapshot[t] :
              snapshot'[t][i] = snapshot[t][i] /\ i # Len(snapshot[t]) + 1
         /\ snapshot'[t][Len(snapshot[t]) + 1] = LibraryEntry(l, 0)
         /\ Ids(snapshot[t])' = Ids(snapshot[t]) \union {l}
         /\ snapshot'[t] # <<>>
<1> USE DEF TypeOK
<1>1. dead' # TRUE
  OBVIOUS
<1>2. l \in Libraries
  BY <1>1 DEF ReadName, LibraryExists
<1> DEFINE e == LibraryEntry(l, 0)
           s == snapshot[t]
<1>3. /\ step[t] = "next" /\ step'[t] = "trees" /\ UNCHANGED todo /\ todo[t] # <<>>
      /\ snapshot'[t] = Append(s, e)
  BY <1>2 DEF ReadName, LibraryExists, At, Go
<1>4. s \in Seq(Item) /\ e.id = l
  BY DEF LibraryEntry
<1>5. e \in Item
  <2>1. name[l] \in Names /\ l \in LibraryIds /\ 0 \in 0..MaxContent
    BY <1>2, TreeAssumption DEF Libraries
  <2>2. QED
    BY <2>1 DEF LibraryEntry, Item
<1> HIDE DEF e, s
<1>6. /\ Append(s, e) \in Seq(Item) /\ DOMAIN Append(s, e) = 1..(Len(s) + 1)
      /\ \A i \in DOMAIN s : Append(s, e)[i] = s[i] /\ i # Len(s) + 1
      /\ Append(s, e)[Len(s) + 1] = e
      /\ DOMAIN s = 1..Len(s) /\ Len(s) \in Nat
      /\ Append(s, e) # <<>> /\ Len(Append(s, e)) = Len(s) + 1
  BY <1>4, <1>5, LastOfList
<1>7. Ids(Append(s, e)) = Ids(s) \union {l}
  <2>1. Ids(Append(s, e)) \subseteq Ids(s) \union {l}
    BY <1>4, <1>6 DEF Ids
  <2>2. Ids(s) \union {l} \subseteq Ids(Append(s, e))
    BY <1>4, <1>6 DEF Ids
  <2>3. QED
    BY <2>1, <2>2
<1>8. l \in usedIds
  BY <1>2
<1>9. Ids(snapshot[t])' = Ids(Append(s, e))
  BY <1>3 DEF Ids
<1>10. e = LibraryEntry(l, 0) /\ s = snapshot[t]
  BY DEF e, s
<1> HIDE DEF TypeOK
<1>11. QED
  BY <1>2, <1>3, <1>6, <1>7, <1>8, <1>9, <1>10

\* What reading its trees changes of the last item.
LEMMA TreesRead ==
  ASSUME TypeOK, Reading, NEW t \in Tasks, ReadTrees(t)
  PROVE  /\ step[t] = "trees" /\ step'[t] = "next"
         /\ todo[t] # <<>> /\ todo'[t] = Tail(todo[t])
         /\ DOMAIN snapshot'[t] = DOMAIN snapshot[t]
         /\ Len(snapshot'[t]) = Len(snapshot[t])
         /\ Len(snapshot[t]) \in DOMAIN snapshot[t]
         /\ \A i \in DOMAIN snapshot[t] :
              /\ snapshot'[t][i].id = snapshot[t][i].id
              /\ snapshot'[t][i].name = snapshot[t][i].name
              /\ snapshot'[t][i].content =
                   IF i = Len(snapshot[t]) THEN content[Head(todo[t])]
                   ELSE snapshot[t][i].content
         /\ snapshot[t][Len(snapshot[t])].id = Head(todo[t])
         /\ Ids(snapshot[t])' = Ids(snapshot[t])
<1> USE DEF TypeOK
<1> DEFINE s == snapshot[t]
           n == Len(s)
           c == content[Head(todo[t])]
<1>1. /\ step[t] = "trees" /\ step'[t] = "next"
      /\ todo[t] # <<>> /\ todo'[t] = Tail(todo[t])
      /\ s # <<>> /\ s[n].id = Head(todo[t])
      /\ snapshot'[t] = [s EXCEPT ![n] = [s[n] EXCEPT !.content = c]]
  BY DEF ReadTrees, At, Go, Reading
<1>2. s \in Seq(Item)
  OBVIOUS
<1> HIDE DEF s, c
<1>3. n \in 1..Len(s) /\ DOMAIN s = 1..Len(s)
  BY <1>1, <1>2, EmptySeq, LenProperties
<1>4. \A i \in 1..Len(s) : s[i] \in Item
  BY <1>2, ElementOfSeq
<1>5. [s[n] EXCEPT !.content = c].id = s[n].id
      /\ [s[n] EXCEPT !.content = c].name = s[n].name
      /\ [s[n] EXCEPT !.content = c].content = c
  BY <1>3, <1>4 DEF Item
<1> DEFINE u == [s EXCEPT ![n] = [s[n] EXCEPT !.content = c]]
<1>6. DOMAIN u = DOMAIN s /\ Len(u) = Len(s)
  BY <1>2, <1>3
<1>7. \A i \in DOMAIN s : u[i] = IF i = n THEN [s[n] EXCEPT !.content = c] ELSE s[i]
  BY <1>3
<1> HIDE DEF u, n
<1>8. \A i \in DOMAIN s :
        /\ u[i].id = s[i].id /\ u[i].name = s[i].name
        /\ u[i].content = IF i = n THEN c ELSE s[i].content
  BY <1>5, <1>7
<1>9. Ids(u) = Ids(s)
  BY <1>6, <1>8 DEF Ids
<1>10. snapshot'[t] = u
  BY <1>1 DEF u, n
<1>11. QED
  BY <1>1, <1>3, <1>6, <1>8, <1>9, <1>10 DEF s, n, c, Ids

\* A task changes nothing of another, nor of the database.
LEMMA OnlyItsOwn ==
  ASSUME TypeOK, Table, Reading, NEW t \in Tasks, StartTask(t) \/ WorkerStep(t)
  PROVE  /\ UNCHANGED <<name, usedIds, content, importing, rows, target>> /\ Libraries' = Libraries
         /\ \A u \in Tasks \ {t} :
              /\ phase'[u] = phase[u] /\ step'[u] = step[u]
              /\ todo'[u] = todo[u] /\ snapshot'[u] = snapshot[u]
         /\ ~ ReportTask(t) => posted' = posted
<1>1. CASE StartTask(t) \/ FinalizeTask(t)
  BY <1>1, TaskMoves DEF StartTask, FinalizeTask, dbVars, guiVars, taskVars, Libraries,
                         TypeOK, Service!TypeOK
<1>2. CASE ReportTask(t)
  BY <1>2, TaskMoves DEF ReportTask, dbVars, guiVars, Libraries, TypeOK, Service!TypeOK
<1>3. CASE ReadLibrary(t) \/ ReadLibraries(t) \/ ReadName(t) \/ ReadTrees(t)
  <2>1. /\ UNCHANGED <<phase, target, posted>>
        /\ todo' = [todo EXCEPT ![t] = todo'[t]]
        /\ snapshot' = [snapshot EXCEPT ![t] = snapshot'[t]]
        /\ step' = [step EXCEPT ![t] = step'[t]]
    BY <1>3, TypeOfReading
  <2>2. UNCHANGED <<name, usedIds, content, importing, rows>>
    BY <1>3 DEF ReadLibrary, ReadLibraries, ReadName, ReadTrees, dbVars, guiVars
  <2>3. QED
    BY <2>1, <2>2 DEF TypeOK, Libraries
<1>4. QED
  BY <1>1, <1>2, <1>3 DEF WorkerStep

\* A library that is gone when its name is read ends the process, and with it
\* nothing changes.
LEMMA DyingIsElsewhere ==
  ASSUME TypeOK, NEW t \in Tasks, ReadName(t), Head(todo[t]) \notin Libraries
  PROVE  Elsewhere /\ UNCHANGED <<serviceVars, dbVars, taskVars, posted, guiVars, outdated>>
BY DEF ReadName, LibraryExists, Elsewhere, serviceVars, dbVars, taskVars, Libraries

\* What a task is at when it begins, moves on or ends.
LEMMA ReadingStep ==
  ASSUME TypeOK, Table, Reading, ~ dead, [Next]_vars
  PROVE  Reading'
<1> DEFINE R(u) ==
      /\ phase[u] \in {"new", "pending"} => step[u] = "start"
      /\ step[u] = "start" => snapshot[u] = <<>>
      /\ Ids(snapshot[u]) \subseteq usedIds
      /\ step[u] = "trees" =>
           /\ todo[u] # <<>> /\ snapshot[u] # <<>>
           /\ snapshot[u][Len(snapshot[u])].id = Head(todo[u])
      /\ step[u] = "Failed" => target[u] # 0 /\ target[u] \notin Libraries
<1>1. \A u \in Tasks : R(u)
  BY DEF Reading
<1>2. ASSUME Elsewhere, NEW u \in Tasks
      PROVE  R(u)'
  <2>1. /\ phase'[u] \in {"new", "pending"} => phase[u] \in {"new", "pending"}
        /\ UNCHANGED <<step, todo, snapshot>> /\ usedIds \subseteq usedIds'
    BY <1>2 DEF Elsewhere
  <2>2. step[u] = "Failed" => target'[u] # 0 /\ target'[u] \notin Libraries'
    <3>1. step[u] = "Failed" => target'[u] = target[u]
      BY <1>1, <1>2 DEF Elsewhere
    <3>2. step[u] = "Failed" => target[u] # 0 /\ target[u] \in usedIds \ Libraries
      BY <1>1 DEF Table
    <3>3. QED
      BY <1>2, <3>1, <3>2 DEF Elsewhere
  <2>3. QED
    BY <1>1, <2>1, <2>2 DEF Ids
<1>3. ASSUME NEW t \in Tasks, StartTask(t) \/ WorkerStep(t), NEW u \in Tasks \ {t}
      PROVE  R(u)'
  <2>1. R(u)
    BY <1>1
  <2>2. /\ UNCHANGED <<usedIds, target>> /\ Libraries' = Libraries
        /\ phase'[u] = phase[u] /\ step'[u] = step[u]
        /\ todo'[u] = todo[u] /\ snapshot'[u] = snapshot[u]
    BY <1>3, OnlyItsOwn
  <2>3. QED
    BY <2>1, <2>2 DEF Ids
<1>4. ASSUME NEW t \in Tasks, StartTask(t) \/ WorkerStep(t)
      PROVE  R(t)' \/ Elsewhere
  <2>1. /\ UNCHANGED <<usedIds, target>> /\ Libraries' = Libraries
        /\ R(t) /\ Libraries \subseteq usedIds
    BY <1>1, <1>4, OnlyItsOwn DEF TypeOK
  <2>2. CASE StartTask(t) \/ FinalizeTask(t)
    <3>1. UNCHANGED <<step, todo, snapshot>> /\ phase'[t] \notin {"new", "pending"}
      BY <2>2, TaskMoves DEF StartTask, FinalizeTask, taskVars, TypeOK, Service!TypeOK
    <3>2. QED
      BY <2>1, <3>1 DEF Ids
  <2>3. CASE ReportTask(t)
    <3>1. /\ UNCHANGED <<step, todo>> /\ phase'[t] \notin {"new", "pending"}
          /\ snapshot'[t] = <<>> /\ step[t] # "trees"
      BY <2>3, TaskMoves DEF ReportTask, Ended, At, TypeOK, Service!TypeOK
    <3>2. Ids(<<>>) = {}
      BY DEF Ids
    <3>3. QED
      BY <2>1, <3>1, <3>2 DEF Ids
  <2>4. CASE ReadLibrary(t)
    <3>1. /\ phase'[t] = "running" /\ snapshot' = snapshot
          /\ \/ step'[t] = "next"
             \/ step'[t] = "Failed" /\ target[t] # 0 /\ target[t] \notin Libraries
      BY <2>4 DEF ReadLibrary, At, Go, LibraryExists, serviceVars, TypeOK
    <3>2. QED
      BY <2>1, <3>1 DEF Ids
  <2>5. CASE ReadLibraries(t)
    <3>1. phase'[t] = "running" /\ snapshot' = snapshot /\ step'[t] = "next"
      BY <2>5 DEF ReadLibraries, At, Go, serviceVars, TypeOK
    <3>2. QED
      BY <2>1, <3>1 DEF Ids
  <2>6. CASE ReadName(t) /\ Head(todo[t]) \in Libraries
    <3>1. ~ dead' /\ phase'[t] = "running"
      BY <2>6 DEF ReadName, LibraryExists, At, serviceVars
    <3> DEFINE l == Head(todo[t])
    <3>2. /\ step'[t] = "trees" /\ UNCHANGED todo /\ todo[t] # <<>> /\ l \in usedIds
          /\ snapshot'[t] # <<>> /\ Ids(snapshot[t])' = Ids(snapshot[t]) \union {l}
          /\ Len(snapshot'[t]) = Len(snapshot[t]) + 1
          /\ snapshot'[t][Len(snapshot[t]) + 1] = LibraryEntry(l, 0)
      BY <2>6, <3>1, NameRead
    <3>3. LibraryEntry(l, 0).id = l
      BY DEF LibraryEntry
    <3>4. QED
      BY <2>1, <3>1, <3>2, <3>3
  <2>7. CASE ReadName(t) /\ Head(todo[t]) \notin Libraries
    BY <2>7, DyingIsElsewhere
  <2>8. CASE ReadTrees(t)
    <3>1. phase'[t] = "running"
      BY <2>8 DEF ReadTrees, At, serviceVars
    <3>2. step'[t] = "next" /\ Ids(snapshot[t])' = Ids(snapshot[t])
      BY <2>8, TreesRead
    <3>3. QED
      BY <2>1, <3>1, <3>2
  <2>9. QED
    BY <1>4, <2>2, <2>3, <2>4, <2>5, <2>6, <2>7, <2>8 DEF WorkerStep
<1>5. \A u \in Tasks : R(u)'
  BY <1>2, <1>3, <1>4, ElsewhereOrTask
<1>6. QED
  BY <1>5 DEF Reading

\* What a task reports is posted, unless it has failed.
LEMMA Reported ==
  ASSUME TypeOK, NEW t \in Tasks, ReportTask(t)
  PROVE  \E p : /\ p.items = snapshot[t] /\ (p.branch <=> target[t] # 0)
                /\ ToSet(posted)' = IF step[t] = "Failed" THEN ToSet(posted)
                                    ELSE ToSet(posted) \union {p}
<1> DEFINE P == [branch : BOOLEAN, items : Seq(Item)]
           p == [branch |-> target[t] # 0, items |-> snapshot[t]]
<1>1. p \in P /\ p.items = snapshot[t] /\ (p.branch <=> target[t] # 0)
  BY DEF TypeOK
<1>2. posted' = IF step[t] = "Failed" THEN posted ELSE Append(posted, p)
  BY DEF ReportTask
<1>3. posted \in Seq(P)
  BY DEF TypeOK
<1> HIDE DEF P, p
<1>4. ToSet(Append(posted, p)) = ToSet(posted) \union {p}
  BY <1>1, <1>3, SetOfAppended
<1>5. QED
  BY <1>1, <1>2, <1>4 DEF ToSet

\* No library is read twice.
LEMMA ReadOnceStep ==
  ASSUME TypeOK, Table, Reading, ReadOnce, ~ dead, [Next]_vars
  PROVE  ReadOnce'
<1> DEFINE O(u) ==
      phase[u] = "running" /\ step[u] \in {"next", "trees"} =>
        /\ HasEachOnce(snapshot[u])
        /\ IsInjective(todo[u])
        /\ Ids(snapshot[u]) \intersect ToSet(Left(u)) = {}
        /\ target[u] # 0 =>
             /\ Ids(snapshot[u]) \union ToSet(Left(u)) = {target[u]}
             /\ Len(snapshot[u]) + Len(Left(u)) = 1
<1>1. \A u \in Tasks : O(u)
  BY DEF ReadOnce
<1>2. ASSUME NEW u \in Tasks, target'[u] = target[u] \/ phase'[u] # "running",
             phase'[u] = "running" => phase[u] = "running",
             step'[u] = step[u], todo'[u] = todo[u], snapshot'[u] = snapshot[u]
      PROVE  O(u)'
  <2>1. Left(u)' = Left(u) /\ Ids(snapshot[u])' = Ids(snapshot[u])
    BY <1>2 DEF Left, Ids
  <2>2. HasEachOnce(snapshot[u])' <=> HasEachOnce(snapshot[u])
    BY <1>2 DEF HasEachOnce
  <2>3. IsInjective(todo[u])' <=> IsInjective(todo[u])
    BY <1>2 DEF IsInjective
  <2>4. O(u)
    BY <1>1
  <2>5. QED
    BY <1>2, <2>1, <2>2, <2>3, <2>4 DEF ToSet
<1>3. ASSUME Elsewhere, NEW u \in Tasks
      PROVE  O(u)'
  BY <1>2, <1>3 DEF Elsewhere
<1>4. ASSUME NEW t \in Tasks, StartTask(t) \/ WorkerStep(t), NEW u \in Tasks \ {t}
      PROVE  O(u)'
  BY <1>2, <1>4, OnlyItsOwn
<1>5. ASSUME NEW t \in Tasks, StartTask(t) \/ WorkerStep(t)
      PROVE  O(t)' \/ Elsewhere
  <2>1. target'[t] = target[t] /\ todo[t] \in Seq(LibraryIds)
    BY <1>5, OnlyItsOwn DEF TypeOK
  <2>2. CASE StartTask(t)
    BY <2>2, TaskMoves DEF StartTask, Reading, taskVars
  <2>3. CASE ReportTask(t) \/ FinalizeTask(t)
    BY <2>3, TaskMoves DEF TypeOK, Service!TypeOK
  <2>4. CASE ReadLibrary(t)
    <3>1. CASE target[t] \in Libraries
      <4>1. /\ step'[t] = "next" /\ todo'[t] = <<target[t]>> /\ snapshot'[t] = <<>>
        BY <2>4, <3>1 DEF ReadLibrary, At, Go, LibraryExists, TypeOK, Reading
      <4>2. Left(t)' = <<target[t]>>
        BY <4>1 DEF Left
      <4>3. /\ ToSet(<<target[t]>>) = {target[t]} /\ IsInjective(<<target[t]>>)
            /\ Ids(<<>>) = {} /\ HasEachOnce(<<>>)
            /\ Len(<<>>) + Len(<<target[t]>>) = 1
        BY DEF ToSet, IsInjective, Ids, HasEachOnce
      <4>4. /\ HasEachOnce(snapshot[t])' /\ IsInjective(todo[t])'
            /\ Ids(snapshot[t])' = {} /\ ToSet(Left(t))' = {target[t]}
            /\ Len(snapshot'[t]) + Len(Left(t)') = 1
        BY <4>1, <4>2, <4>3 DEF HasEachOnce, IsInjective, Ids, ToSet
      <4>5. QED
        BY <2>1, <4>4
    <3>2. CASE target[t] \notin Libraries
      BY <2>4, <3>2 DEF ReadLibrary, At, Go, LibraryExists, TypeOK
    <3>3. QED
      BY <3>1, <3>2
  <2>5. CASE ReadLibraries(t)
    <3>1. PICK s \in LibraryIdsByName : todo' = [todo EXCEPT ![t] = s]
      BY <2>5 DEF ReadLibraries
    <3>2. IsInjective(s)
      BY OrderOfLibraries DEF Table
    <3>3. target[t] = 0 /\ todo'[t] = s /\ snapshot'[t] = <<>>
      BY <2>5, <3>1 DEF ReadLibraries, At, TypeOK, Reading
    <3>4. Ids(<<>>) = {} /\ HasEachOnce(<<>>)
      BY DEF Ids, HasEachOnce
    <3>5. HasEachOnce(snapshot[t])' /\ IsInjective(todo[t])' /\ Ids(snapshot[t])' = {}
      BY <3>2, <3>3, <3>4 DEF HasEachOnce, IsInjective, Ids
    <3>6. QED
      BY <2>1, <3>3, <3>5
  <2>6. CASE ReadName(t) /\ Head(todo[t]) \in Libraries
    <3>1. ~ dead' /\ phase'[t] = "running" /\ phase[t] = "running"
      BY <2>6 DEF ReadName, LibraryExists, At, serviceVars
    <3> DEFINE l == Head(todo[t])
               s == snapshot[t]
    <3>2. /\ step[t] = "next" /\ step'[t] = "trees" /\ UNCHANGED todo /\ todo[t] # <<>>
          /\ Len(s) \in Nat /\ Len(snapshot'[t]) = Len(s) + 1
          /\ DOMAIN s = 1..Len(s) /\ DOMAIN snapshot'[t] = 1..(Len(s) + 1)
          /\ \A i \in DOMAIN s : snapshot'[t][i] = s[i] /\ i # Len(s) + 1
          /\ snapshot'[t][Len(s) + 1] = LibraryEntry(l, 0)
          /\ Ids(snapshot[t])' = Ids(s) \union {l}
      BY <2>6, <3>1, NameRead
    <3>3. LibraryEntry(l, 0).id = l
      BY DEF LibraryEntry
    <3>4. /\ ToSet(todo[t]) = {l} \union ToSet(Tail(todo[t]))
          /\ IsInjective(todo[t]) => l \notin ToSet(Tail(todo[t]))
          /\ Len(Tail(todo[t])) = Len(todo[t]) - 1 /\ Len(todo[t]) \in Nat
      BY <2>1, <3>2, FirstOfList
    <3>5. Left(t) = todo[t] /\ Left(t)' = Tail(todo[t])
      BY <3>2 DEF Left
    <3>6. O(t)
      BY <1>1
    <3> HIDE DEF l, s
    <3>7. HasEachOnce(s) /\ IsInjective(todo[t]) /\ Ids(s) \intersect ToSet(todo[t]) = {}
      BY <3>1, <3>2, <3>5, <3>6 DEF s
    <3>8. HasEachOnce(snapshot[t])'
      <4>1. \A i \in DOMAIN s : s[i].id # l
        BY <3>4, <3>7 DEF Ids
      <4>2. \A i \in DOMAIN snapshot'[t] : i \in DOMAIN s \/ i = Len(s) + 1
        BY <3>2
      <4>3. QED
        BY <3>2, <3>3, <3>7, <4>1, <4>2 DEF HasEachOnce
    <3>9. /\ Ids(snapshot[t])' \intersect ToSet(Left(t))' = {}
          /\ Ids(snapshot[t])' \union ToSet(Left(t))' = Ids(s) \union ToSet(Left(t))
      <4>1. ToSet(Left(t))' = ToSet(Tail(todo[t]))
        BY <3>5 DEF ToSet
      <4>2. QED
        BY <3>2, <3>4, <3>5, <3>7, <4>1
    <3>10. Len(snapshot'[t]) + Len(Left(t)') = Len(s) + Len(Left(t))
      <4>1. Len(Left(t)') = Len(todo[t]) - 1 /\ Len(Left(t)) = Len(todo[t])
        BY <3>4, <3>5
      <4>2. Len(snapshot'[t]) = Len(s) + 1 /\ Len(s) \in Nat /\ Len(todo[t]) \in Nat
        BY <3>2, <3>4
      <4>3. \A a, b \in Nat : (a + 1) + (b - 1) = a + b
        OBVIOUS
      <4>4. QED
        BY <4>1, <4>2, <4>3, Zenon
    <3>11. IsInjective(todo[t])'
      BY <3>2, <3>7 DEF IsInjective
    <3>12. QED
      BY <2>1, <3>1, <3>2, <3>6, <3>8, <3>9, <3>10, <3>11 DEF s
  <2>7. CASE ReadName(t) /\ Head(todo[t]) \notin Libraries
    BY <2>7, DyingIsElsewhere
  <2>8. CASE ReadTrees(t)
    <3>1. phase'[t] = "running" /\ phase[t] = "running"
      BY <2>8 DEF ReadTrees, At, serviceVars
    <3>2. /\ step[t] = "trees" /\ step'[t] = "next"
          /\ todo[t] # <<>> /\ todo'[t] = Tail(todo[t])
          /\ DOMAIN snapshot'[t] = DOMAIN snapshot[t]
          /\ Len(snapshot'[t]) = Len(snapshot[t])
          /\ \A i \in DOMAIN snapshot[t] : snapshot'[t][i].id = snapshot[t][i].id
          /\ Ids(snapshot[t])' = Ids(snapshot[t])
      BY <2>8, TreesRead
    <3>3. Left(t)' = Left(t)
      BY <3>2 DEF Left
    <3>4. O(t)
      BY <1>1
    <3>5. HasEachOnce(snapshot[t])'
      BY <3>1, <3>2, <3>4 DEF HasEachOnce
    <3>6. IsInjective(todo[t])'
      <4>1. IsInjective(todo[t]) => IsInjective(Tail(todo[t]))
        BY <2>1, <3>2, FirstOfList
      <4>2. QED
        BY <3>1, <3>2, <3>4, <4>1 DEF IsInjective
    <3>7. ToSet(Left(t))' = ToSet(Left(t))
      BY <3>3 DEF ToSet
    <3>8. QED
      BY <2>1, <3>1, <3>2, <3>3, <3>4, <3>5, <3>6, <3>7
  <2>9. QED
    BY <1>5, <2>2, <2>3, <2>4, <2>5, <2>6, <2>7, <2>8 DEF WorkerStep
<1>6. \A u \in Tasks : O(u)'
  BY <1>3, <1>4, <1>5, ElsewhereOrTask
<1>7. QED
  BY <1>6 DEF ReadOnce

\* What is posted is what a task has read.
LEMMA PostedOnceStep ==
  ASSUME TypeOK, Table, Reading, ReadOnce, PostedOnce, ~ dead, [Next]_vars
  PROVE  PostedOnce'
<1> DEFINE P(p) ==
      /\ HasEachOnce(p.items)
      /\ Ids(p.items) \subseteq usedIds
      /\ p.branch => Len(p.items) = 1
<1>1. \A i \in DOMAIN posted : P(posted[i])
  BY DEF PostedOnce
<1>2. usedIds \subseteq usedIds'
  BY RowChanges
<1>3. \A p : P(p) => P(p)'
  BY <1>2 DEF HasEachOnce, Ids
<1>4. CASE posted' = posted
  BY <1>1, <1>3, <1>4 DEF PostedOnce
<1>5. CASE posted # <<>> /\ posted' = Tail(posted)
  <2>1. \A i \in DOMAIN posted' : i + 1 \in DOMAIN posted /\ posted'[i] = posted[i + 1]
    BY <1>5, HeadPosted
  <2>2. QED
    BY <1>1, <1>3, <2>1 DEF PostedOnce
<1>6. ASSUME NEW t \in Tasks, ReportTask(t), step[t] # "Failed"
      PROVE  PostedOnce'
  <2> DEFINE p == [branch |-> target[t] # 0, items |-> snapshot[t]]
  <2>1. /\ phase[t] = "running" /\ step[t] = "next" /\ todo[t] = <<>>
        /\ posted' = Append(posted, p)
    BY <1>6, TaskMoves DEF ReportTask, Ended, At
  <2>2. p \in [branch : BOOLEAN, items : Seq(Item)]
    BY DEF TypeOK
  <2>3. P(p)
    <3>1. /\ HasEachOnce(snapshot[t]) /\ Ids(snapshot[t]) \subseteq usedIds
          /\ target[t] # 0 => Len(snapshot[t]) + Len(Left(t)) = 1
      BY <2>1 DEF ReadOnce, Reading
    <3>2. Left(t) = <<>> /\ Len(<<>>) = 0
      BY <2>1 DEF Left
    <3>3. Len(snapshot[t]) \in Nat
      BY LenProperties DEF TypeOK
    <3>4. p.items = snapshot[t] /\ (p.branch <=> target[t] # 0)
      OBVIOUS
    <3> HIDE DEF p
    <3>5. p.branch => Len(p.items) = 1
      BY <3>1, <3>2, <3>3, <3>4
    <3>6. QED
      BY <3>1, <3>4, <3>5
  <2>4. posted \in Seq([branch : BOOLEAN, items : Seq(Item)])
    BY DEF TypeOK
  <2> HIDE DEF p
  <2>5. /\ DOMAIN posted' = 1..(Len(posted) + 1) /\ DOMAIN posted = 1..Len(posted)
        /\ \A i \in DOMAIN posted : posted'[i] = posted[i]
        /\ posted'[Len(posted) + 1] = p /\ Len(posted) \in Nat
    BY <2>1, <2>2, <2>4, LastOfList
  <2>6. \A i \in DOMAIN posted' : i \in DOMAIN posted \/ i = Len(posted) + 1
    BY <2>5
  <2>7. \A i \in DOMAIN posted' : P(posted'[i])
    BY <1>1, <2>3, <2>5, <2>6
  <2>8. QED
    BY <1>3, <2>7 DEF PostedOnce
<1>7. ASSUME NEW t \in Tasks, StartTask(t) \/ WorkerStep(t),
             ~ (ReportTask(t) /\ step[t] # "Failed")
      PROVE  posted' = posted
  <2>1. CASE ReportTask(t)
    BY <1>7, <2>1 DEF ReportTask
  <2>2. CASE ~ ReportTask(t)
    BY <1>7, <2>2, OnlyItsOwn
  <2>3. QED
    BY <2>1, <2>2
<1>8. QED
  BY <1>4, <1>5, <1>6, <1>7, ElsewhereOrTask DEF Elsewhere

-----------------------------------------------------------------------------
(* Snapshots tell the truth.                                               *)

\* Nothing happens to l.
Untouched(l) ==
  /\ l \in Libraries' <=> l \in Libraries
  /\ l \in Libraries => name'[l] = name[l]
  /\ content'[l] = content[l]

\* What has happened to a library while a snapshot was under way is known.
LEMMA TouchedIsOutdated ==
  ASSUME TypeOK, [Next]_vars, \A t \in Tasks : ~ StartTask(t) /\ ~ WorkerStep(t)
  PROVE  \A l \in LibraryIds \ outdated' :
           l \notin outdated /\ (Untouched(l) \/ ~ UnderWay)
<1> USE DEF Untouched, TypeOK
<1>1. CASE UNCHANGED vars
  BY <1>1 DEF vars, dbVars, Libraries
<1>2. ASSUME NEW k \in LibraryIds, Overtakes(k), NEW l \in LibraryIds \ outdated'
      PROVE  l \notin outdated /\ (l # k \/ ~ UnderWay)
  BY <1>2 DEF Overtakes
<1>3. ASSUME NEW k \in LibraryIds, NEW n \in Names, AddLibrary(k, n) \/ UpdateLibraryName(k, n),
             NEW l \in LibraryIds \ outdated'
      PROVE  l \notin outdated /\ (Untouched(l) \/ ~ UnderWay)
  <2>1. Overtakes(k)
    BY <1>3 DEF AddLibrary, UpdateLibraryName
  <2>2. l # k => Untouched(l)
    BY <1>3 DEF AddLibrary, InsertLibrary, UpdateLibraryName, RenameLibrary, Libraries
  <2>3. QED
    BY <1>2, <2>1, <2>2
<1>4. ASSUME NEW k \in LibraryIds, RemoveLibrary(k), NEW l \in LibraryIds \ outdated'
      PROVE  l \notin outdated /\ (Untouched(l) \/ ~ UnderWay)
  <2>1. Overtakes(k)
    BY <1>4 DEF RemoveLibrary
  <2>2. l # k => Untouched(l)
    BY <1>4 DEF RemoveLibrary, DeleteLibrary, Libraries
  <2>3. QED
    BY <1>2, <2>1, <2>2
<1>5. ASSUME NEW k \in LibraryIds, Import(k), NEW l \in LibraryIds \ outdated'
      PROVE  l \notin outdated /\ (Untouched(l) \/ ~ UnderWay)
  <2>1. Overtakes(k) \/ outdated' = outdated \union {k}
    BY <1>5 DEF Import
  <2>2. l # k => Untouched(l)
    BY <1>5 DEF Import, Libraries
  <2>3. QED
    BY <1>2, <2>1, <2>2
<1>6. ASSUME NEW k \in LibraryIds, AddLibraryAgain(k) \/ ClickLibrary(k) \/ FolderImported(k),
             NEW l \in LibraryIds \ outdated'
      PROVE  l \notin outdated /\ (Untouched(l) \/ ~ UnderWay)
  BY <1>6 DEF AddLibraryAgain, ClickLibrary, FolderImported, dbVars, Libraries
<1>7. ASSUME Deliver, NEW l \in LibraryIds \ outdated'
      PROVE  l \notin outdated /\ (Untouched(l) \/ ~ UnderWay)
  BY <1>7 DEF Deliver, OnTreeUpdated, OnLibraryBranchUpdated, dbVars, Libraries
<1>8. QED
  BY <1>1, <1>3, <1>4, <1>5, <1>6, <1>7 DEF Next

\* What has been said of l stays true while nothing happens to it.
LEMMA StaysTrue ==
  ASSUME NEW l, Untouched(l), NEW items
  PROVE  /\ TrueOf(l, items) => TrueOf(l, items)'
         /\ ShowsAll(l, items) => ShowsAll(l, items)'
BY DEF Untouched, TrueOf, ShowsAll, Ids

LEMMA StillTells ==
  ASSUME NEW l, Untouched(l), NEW t \in Tasks, TaskTells(t, l), step'[t] = step[t],
         todo'[t] = todo[t], snapshot'[t] = snapshot[t], target'[t] = target[t]
  PROVE  TaskTells(t, l)'
<1>1. Left(t)' = Left(t) /\ Ids(snapshot[t])' = Ids(snapshot[t])
  BY DEF Left, Ids
<1>2. ToSet(Left(t))' = ToSet(Left(t))
  BY <1>1 DEF ToSet
<1>3. QED
  BY <1>1, <1>2 DEF TaskTells, Untouched

\* A task that reads goes on telling the truth.
LEMMA ReaderTells ==
  ASSUME TypeOK, Table, Reading, ~ dead, NEW t \in Tasks, NEW l \in LibraryIds,
         ReadLibrary(t) \/ ReadLibraries(t) \/ ReadName(t) \/ ReadTrees(t),
         step[t] \in {"next", "trees"} => TaskTells(t, l),
         step'[t] \in {"next", "trees"}
  PROVE  TaskTells(t, l)'
<1>1. /\ UNCHANGED <<name, content, target>> /\ Libraries' = Libraries
      /\ todo[t] \in Seq(LibraryIds)
  BY OnlyItsOwn DEF WorkerStep, TypeOK
<1>2. CASE ReadLibrary(t)
  <2>1. /\ target[t] # 0 /\ target[t] \in Libraries
        /\ step'[t] = "next" /\ todo'[t] = <<target[t]>> /\ snapshot'[t] = <<>>
    BY <1>2 DEF ReadLibrary, At, Go, LibraryExists, TypeOK, Reading
  <2>2. Left(t)' = <<target[t]>> /\ ToSet(<<target[t]>>) = {target[t]}
    BY <2>1 DEF Left, ToSet
  <2>3. ToSet(Left(t))' = {target[t]}
    BY <2>2 DEF ToSet
  <2>4. QED
    BY <1>1, <2>1, <2>3 DEF TaskTells
<1>3. CASE ReadLibraries(t)
  <2>1. PICK s \in LibraryIdsByName : todo' = [todo EXCEPT ![t] = s]
    BY <1>3 DEF ReadLibraries
  <2>2. ToSet(s) = Libraries
    BY OrderOfLibraries DEF Table
  <2>3. step'[t] = "next" /\ todo'[t] = s /\ snapshot'[t] = <<>>
    BY <1>3, <2>1 DEF ReadLibraries, At, Go, TypeOK, Reading
  <2>4. ToSet(Left(t))' = Libraries
    BY <2>2, <2>3 DEF Left, ToSet
  <2>5. QED
    BY <1>1, <2>3, <2>4 DEF TaskTells
<1>4. CASE ReadName(t) /\ Head(todo[t]) \in Libraries
  <2>1. ~ dead'
    BY <1>4 DEF ReadName, LibraryExists
  <2> DEFINE k == Head(todo[t])
             s == snapshot[t]
  <2>2. /\ step[t] = "next" /\ step'[t] = "trees" /\ UNCHANGED todo /\ todo[t] # <<>>
        /\ k \in Libraries /\ Len(snapshot'[t]) = Len(s) + 1
        /\ DOMAIN s = 1..Len(s) /\ DOMAIN snapshot'[t] = 1..(Len(s) + 1)
        /\ \A i \in DOMAIN s : snapshot'[t][i] = s[i] /\ i # Len(s) + 1
        /\ snapshot'[t][Len(s) + 1] = LibraryEntry(k, 0) /\ Len(s) \in Nat
        /\ Ids(snapshot[t])' = Ids(s) \union {k}
    BY <1>4, <2>1, NameRead
  <2>3. LibraryEntry(k, 0).id = k /\ LibraryEntry(k, 0).name = name[k]
    BY DEF LibraryEntry
  <2>4. ToSet(todo[t]) = {k} \union ToSet(Tail(todo[t]))
    BY <1>1, <2>2, FirstOfList
  <2>5. Left(t) = todo[t] /\ Left(t)' = Tail(todo[t])
    BY <2>2 DEF Left
  <2>6. ToSet(Left(t))' = ToSet(Tail(todo[t]))
    BY <2>5 DEF ToSet
  <2>7. TaskTells(t, l)
    BY <2>2
  <2> HIDE DEF k
  <2>8. ASSUME NEW i \in DOMAIN snapshot'[t], snapshot'[t][i].id = l
        PROVE  /\ l \in Libraries /\ snapshot'[t][i].name = name[l]
               /\ \/ snapshot'[t][i].content = content[l]
                  \/ i = Len(snapshot'[t])
    <3>1. CASE i \in DOMAIN s
      BY <2>2, <2>7, <2>8, <3>1 DEF TaskTells
    <3>2. CASE i = Len(s) + 1
      BY <2>2, <2>3, <2>8, <3>2
    <3>3. QED
      BY <2>2, <3>1, <3>2
  <2>9. /\ l \in ToSet(Left(t))' => l \in Libraries
        /\ target[t] = 0 /\ l \in Libraries => l \in Ids(snapshot[t])' \union ToSet(Left(t))'
    BY <2>2, <2>4, <2>5, <2>6, <2>7 DEF TaskTells
  <2>10. QED
    BY <1>1, <2>2, <2>8, <2>9 DEF TaskTells
<1>5. CASE ReadName(t) /\ Head(todo[t]) \notin Libraries
  <2>1. UNCHANGED <<step, todo, snapshot>> /\ Untouched(l)
    BY <1>1, <1>5, DyingIsElsewhere DEF taskVars, Untouched
  <2>2. QED
    BY <1>1, <2>1, StillTells
<1>6. CASE ReadTrees(t)
  <2>1. /\ step[t] = "trees" /\ step'[t] = "next"
        /\ todo[t] # <<>> /\ todo'[t] = Tail(todo[t])
        /\ DOMAIN snapshot'[t] = DOMAIN snapshot[t]
        /\ \A i \in DOMAIN snapshot[t] :
              /\ snapshot'[t][i].id = snapshot[t][i].id
              /\ snapshot'[t][i].name = snapshot[t][i].name
              /\ snapshot'[t][i].content =
                   IF i = Len(snapshot[t]) THEN content[Head(todo[t])]
                   ELSE snapshot[t][i].content
        /\ snapshot[t][Len(snapshot[t])].id = Head(todo[t])
        /\ Ids(snapshot[t])' = Ids(snapshot[t])
    BY <1>6, TreesRead
  <2>2. Left(t)' = Left(t)
    BY <2>1 DEF Left
  <2>3. ToSet(Left(t))' = ToSet(Left(t))
    BY <2>2 DEF ToSet
  <2>4. TaskTells(t, l)
    BY <2>1
  <2>5. ASSUME NEW i \in DOMAIN snapshot'[t], snapshot'[t][i].id = l
        PROVE  /\ l \in Libraries /\ snapshot'[t][i].name = name[l]
               /\ snapshot'[t][i].content = content[l]
    BY <2>1, <2>4, <2>5 DEF TaskTells
  <2>6. QED
    BY <1>1, <2>1, <2>3, <2>4, <2>5 DEF TaskTells
<1>7. QED
  BY <1>2, <1>3, <1>4, <1>5, <1>6

\* Snapshots go on telling the truth, whatever happens meanwhile.
LEMMA SnapshotsTellStep ==
  ASSUME TypeOK, Table, Reading, SnapshotsTell, ~ dead, [Next]_vars
  PROVE  SnapshotsTell'
<1>1. ASSUME NEW l \in LibraryIds \ outdated
      PROVE  /\ \A t \in Tasks :
                  phase[t] = "running" /\ step[t] \in {"next", "trees"} => TaskTells(t, l)
             /\ \A p \in ToSet(posted) : PostTells(l, p)
  BY DEF SnapshotsTell
<1>2. ASSUME NEW l, Untouched(l), NEW p, PostTells(l, p)
      PROVE  PostTells(l, p)'
  BY <1>2, StaysTrue DEF PostTells
<1>3. CASE \A t \in Tasks : ~ StartTask(t) /\ ~ WorkerStep(t)
  <2>1. Elsewhere
    BY <1>3, ElsewhereOrTask
  <2> SUFFICES ASSUME NEW l \in LibraryIds \ outdated'
               PROVE  /\ \A t \in Tasks :
                           phase'[t] = "running" /\ step'[t] \in {"next", "trees"}
                             => TaskTells(t, l)'
                      /\ \A p \in ToSet(posted)' : PostTells(l, p)'
    BY DEF SnapshotsTell
  <2>2. l \notin outdated /\ (Untouched(l) \/ ~ UnderWay)
    BY <1>3, TouchedIsOutdated
  <2>3. \A t \in Tasks : phase'[t] = "running" =>
          /\ phase[t] = "running" /\ target'[t] = target[t]
          /\ UNCHANGED <<step, todo, snapshot>>
    BY <2>1 DEF Elsewhere
  <2>4. CASE Untouched(l)
    <3>1. ASSUME NEW t \in Tasks, phase'[t] = "running", step'[t] \in {"next", "trees"}
          PROVE  TaskTells(t, l)'
      <4>1. TaskTells(t, l)
        BY <1>1, <2>2, <2>3, <3>1
      <4>2. QED
        BY <2>3, <2>4, <3>1, <4>1, StillTells
    <3>2. CASE posted' = posted
      BY <1>1, <1>2, <2>2, <2>4, <3>1, <3>2 DEF ToSet
    <3>3. CASE posted # <<>> /\ posted' = Tail(posted)
      <4>1. ToSet(posted)' \subseteq ToSet(posted)
        BY <3>3, HeadPosted DEF ToSet
      <4>2. QED
        BY <1>1, <1>2, <2>2, <2>4, <3>1, <4>1
    <3>4. QED
      BY <2>1, <3>2, <3>3 DEF Elsewhere
  <2>5. CASE ~ UnderWay
    <3>1. posted = <<>> /\ \A t \in Tasks : phase[t] # "running"
      BY <2>5 DEF UnderWay, Service!InPhase
    <3>2. posted' = <<>>
      BY <2>1, <3>1 DEF Elsewhere
    <3>3. ToSet(posted)' = {}
      BY <3>2 DEF ToSet
    <3>4. QED
      BY <2>3, <3>1, <3>3
  <2>6. QED
    BY <2>2, <2>4, <2>5
<1>4. ASSUME NEW t \in Tasks, StartTask(t) \/ WorkerStep(t), NEW l \in LibraryIds \ outdated'
      PROVE  /\ \A u \in Tasks :
                  phase'[u] = "running" /\ step'[u] \in {"next", "trees"} => TaskTells(u, l)'
             /\ \A p \in ToSet(posted)' : PostTells(l, p)'
  <2>1. /\ UNCHANGED <<name, content, target>> /\ Libraries' = Libraries
        /\ \A u \in Tasks \ {t} :
             /\ phase'[u] = phase[u] /\ step'[u] = step[u]
             /\ todo'[u] = todo[u] /\ snapshot'[u] = snapshot[u]
        /\ ~ ReportTask(t) => posted' = posted
    BY <1>4, OnlyItsOwn
  <2>2. Untouched(l)
    BY <2>1 DEF Untouched
  <2>3. \/ l \notin outdated
        \/ /\ ReadLibraries(t) /\ posted = <<>>
           /\ \A u \in Tasks \ {t} : phase[u] # "running"
    BY <1>4 DEF StartTask, WorkerStep, ReadLibrary, ReadLibraries, ReadName, ReadTrees,
                ReportTask, FinalizeTask, Service!InPhase
  <2>4. ASSUME NEW u \in Tasks \ {t}, phase'[u] = "running", step'[u] \in {"next", "trees"}
        PROVE  TaskTells(u, l)'
    <3>1. l \notin outdated
      BY <2>1, <2>3, <2>4
    <3>2. TaskTells(u, l)
      BY <1>1, <2>1, <2>4, <3>1
    <3>3. QED
      BY <2>1, <2>2, <2>4, <3>2, StillTells
  <2>5. ASSUME phase'[t] = "running", step'[t] \in {"next", "trees"}
        PROVE  TaskTells(t, l)'
    <3>1. CASE StartTask(t)
      BY <2>5, <3>1, TaskMoves DEF StartTask, Reading, taskVars
    <3>2. CASE ReportTask(t) \/ FinalizeTask(t)
      BY <2>5, <3>2, TaskMoves DEF TypeOK, Service!TypeOK
    <3>3. CASE ReadLibrary(t) \/ ReadLibraries(t) \/ ReadName(t) \/ ReadTrees(t)
      <4>1. phase[t] = "running" /\ (ReadLibraries(t) => step[t] = "start")
        BY <3>3 DEF ReadLibrary, ReadLibraries, ReadName, ReadTrees, At
      <4>2. step[t] \in {"next", "trees"} => TaskTells(t, l)
        BY <1>1, <2>3, <4>1
      <4>3. QED
        BY <2>5, <3>3, <4>2, ReaderTells
    <3>4. QED
      BY <1>4, <3>1, <3>2, <3>3 DEF WorkerStep
  <2>6. \A p \in ToSet(posted) : PostTells(l, p)'
    <3>1. CASE l \notin outdated
      BY <1>1, <1>2, <2>2, <3>1
    <3>2. CASE posted = <<>>
      BY <3>2 DEF ToSet
    <3>3. QED
      BY <2>3, <3>1, <3>2
  <2>7. CASE ~ ReportTask(t) \/ step[t] = "Failed"
    <3>1. posted' = posted
      BY <2>1, <2>7 DEF ReportTask
    <3>2. QED
      BY <2>4, <2>5, <2>6, <3>1 DEF ToSet
  <2>8. CASE ReportTask(t) /\ step[t] # "Failed"
    <3>1. /\ phase[t] = "running" /\ step[t] = "next" /\ todo[t] = <<>>
          /\ outdated' = outdated
      BY <2>8, TaskMoves DEF ReportTask, Ended, At
    <3>2. TaskTells(t, l)
      BY <1>1, <2>8, <3>1 DEF ReportTask
    <3>3. PICK p :
            /\ p.items = snapshot[t] /\ (p.branch <=> target[t] # 0)
            /\ ToSet(posted)' = ToSet(posted) \union {p}
      BY <2>8, Reported
    <3>4. ToSet(Left(t)) = {}
      BY <3>1 DEF Left, ToSet
    <3>5. PostTells(l, p)
      BY <3>1, <3>2, <3>3, <3>4 DEF PostTells, TaskTells, TrueOf, ShowsAll
    <3>6. PostTells(l, p)'
      BY <1>2, <2>2, <3>5
    <3>7. QED
      BY <2>4, <2>5, <2>6, <3>3, <3>6
  <2>9. QED
    BY <2>7, <2>8
<1>5. CASE \E t \in Tasks : StartTask(t) \/ WorkerStep(t)
  BY <1>4, <1>5 DEF SnapshotsTell
<1>6. QED
  BY <1>3, <1>5

-----------------------------------------------------------------------------
(* The rows at rest.                                                       *)

\* What is to come comes, unless it is delivered in this step.
LEMMA StillToCome ==
  ASSUME TypeOK, Table, Reading, ReadOnce, ~ dead, [Next]_vars, ~ Deliver
  PROVE  /\ TreeToCome => TreeToCome'
         /\ \A l \in LibraryIds : l \in Libraries /\ BranchToCome(l) => BranchToCome(l)'
<1>1. CASE Elsewhere
  <2>1. /\ ToSet(posted)' = ToSet(posted)
        /\ \A t \in Tasks : phase[t] \in {"pending", "running"} =>
             phase'[t] = phase[t] /\ target'[t] = target[t] /\ step'[t] = step[t]
    BY <1>1 DEF Elsewhere, ToSet
  <2>2. TreeToCome => TreeToCome'
    BY <2>1 DEF TreeToCome
  <2>3. \A l \in LibraryIds : BranchToCome(l) => BranchToCome(l)'
    BY <2>1 DEF BranchToCome, Ids
  <2>4. QED
    BY <2>2, <2>3
<1>2. ASSUME NEW t \in Tasks, StartTask(t) \/ WorkerStep(t), ~ ReportTask(t)
      PROVE  /\ TreeToCome => TreeToCome'
             /\ \A l \in LibraryIds : l \in Libraries /\ BranchToCome(l) => BranchToCome(l)'
  <2>1. /\ target' = target /\ posted' = posted
        /\ \A u \in Tasks \ {t} : phase'[u] = phase[u] /\ step'[u] = step[u]
    BY <1>2, OnlyItsOwn
  <2>2. /\ phase[t] \in {"pending", "running"} => phase'[t] \in {"pending", "running"}
        /\ \/ step'[t] # "Failed" \/ step'[t] = step[t]
           \/ target[t] \notin Libraries
    <3>1. CASE StartTask(t) \/ FinalizeTask(t)
      BY <3>1, TaskMoves DEF StartTask, FinalizeTask, taskVars, TypeOK, Service!TypeOK
    <3>2. CASE ReadLibrary(t) \/ ReadLibraries(t) \/ ReadName(t) \/ ReadTrees(t)
      <4>1. phase' = phase
        BY <3>2, TypeOfReading
      <4>2. \/ step'[t] # "Failed" \/ step'[t] = step[t]
            \/ target[t] \notin Libraries
        BY <3>2 DEF ReadLibrary, ReadLibraries, ReadName, ReadTrees, Go, LibraryExists, TypeOK
      <4>3. QED
        BY <4>1, <4>2
    <3>3. QED
      BY <1>2, <3>1, <3>2 DEF WorkerStep
  <2>3. TreeToCome => TreeToCome'
    BY <2>1, <2>2 DEF TreeToCome, ToSet
  <2>4. ASSUME NEW l \in LibraryIds, l \in Libraries, BranchToCome(l)
        PROVE  BranchToCome(l)'
    <3>1. ToSet(posted)' = ToSet(posted)
      BY <2>1 DEF ToSet
    <3>2. QED
      BY <2>1, <2>2, <2>4, <3>1 DEF BranchToCome, Ids
  <2>5. QED
    BY <2>3, <2>4
<1>3. ASSUME NEW t \in Tasks, ReportTask(t)
      PROVE  /\ TreeToCome => TreeToCome'
             /\ \A l \in LibraryIds : l \in Libraries /\ BranchToCome(l) => BranchToCome(l)'
  <2>1. /\ target' = target /\ step' = step
        /\ \A u \in Tasks \ {t} : phase'[u] = phase[u]
        /\ phase[t] = "running" /\ (step[t] = "Failed" \/ (step[t] = "next" /\ todo[t] = <<>>))
    <3>1. WorkerStep(t)
      BY <1>3 DEF WorkerStep
    <3>2. target' = target /\ \A u \in Tasks \ {t} : phase'[u] = phase[u]
      BY <3>1, OnlyItsOwn
    <3>3. phase[t] = "running"
      BY <1>3, TaskMoves
    <3>4. step[t] = "Failed" \/ (step[t] = "next" /\ todo[t] = <<>>)
      BY <1>3 DEF ReportTask, Ended, At
    <3>5. step' = step
      BY <1>3 DEF ReportTask
    <3>6. QED
      BY <3>2, <3>3, <3>4, <3>5
  <2>2. PICK p :
          /\ p.items = snapshot[t] /\ (p.branch <=> target[t] # 0)
          /\ ToSet(posted)' = IF step[t] = "Failed" THEN ToSet(posted)
                              ELSE ToSet(posted) \union {p}
    BY <1>3, Reported
  <2>3. TreeToCome => TreeToCome'
    <3>1. target[t] = 0 => step[t] # "Failed"
      BY DEF Reading
    <3>2. QED
      BY <2>1, <2>2, <3>1 DEF TreeToCome
  <2>4. ASSUME NEW l \in LibraryIds, BranchToCome(l)
        PROVE  BranchToCome(l)'
    <3>1. CASE target[t] = l /\ step[t] # "Failed"
      <4>1. l # 0
        BY TreeAssumption
      <4>2. Ids(snapshot[t]) \union ToSet(Left(t)) = {l}
        BY <2>1, <3>1, <4>1 DEF ReadOnce
      <4>3. ToSet(Left(t)) = {}
        BY <2>1, <3>1 DEF Left, ToSet
      <4>4. p \in ToSet(posted)' /\ p.branch /\ l \in Ids(p.items)
        BY <2>2, <3>1, <4>1, <4>2, <4>3
      <4>5. QED
        BY <4>4 DEF BranchToCome, Ids
    <3>2. CASE ~ (target[t] = l /\ step[t] # "Failed")
      BY <2>1, <2>2, <2>4, <3>2 DEF BranchToCome, Ids
    <3>3. QED
      BY <3>1, <3>2
  <2>5. QED
    BY <2>3, <2>4
<1>4. QED
  BY <1>1, <1>2, <1>3, ElsewhereOrTask

\* What is so of l in a state.
MadeTrue(l) ==
  \/ ShowsAll(l, rows)
  \/ l \in importing \/ TreeToCome
  \/ l \in Libraries /\ l \notin Ids(rows) /\ BranchToCome(l)

\* The rows of l and what it is stay as they are.
LEMMA RowStaysTrue ==
  ASSUME TypeOK, Table, Reading, ReadOnce, ~ dead, [Next]_vars, ~ Deliver,
         NEW l \in LibraryIds, Untouched(l), MadeTrue(l),
         l \in importing => l \in importing' \/ TreeToCome',
         l \in Ids(rows)' <=> l \in Ids(rows),
         ShowsAll(l, rows) => TrueOf(l, rows)'
  PROVE  MadeTrue(l)'
<1>1. ShowsAll(l, rows) => ShowsAll(l, rows)'
  BY DEF ShowsAll, Untouched
<1>2. TreeToCome => TreeToCome'
  BY StillToCome
<1>3. l \in Libraries /\ BranchToCome(l) => BranchToCome(l)'
  BY StillToCome
<1>4. QED
  BY <1>1, <1>2, <1>3 DEF MadeTrue, Untouched

LEMMA SameRows ==
  ASSUME NEW l, Untouched(l), rows' = rows
  PROVE  (l \in Ids(rows)' <=> l \in Ids(rows)) /\ (TrueOf(l, rows) => TrueOf(l, rows)')
BY DEF Ids, TrueOf, Untouched

\* A request is a task to come.
LEMMA RequestComes ==
  ASSUME TypeOK, Reading, NEW l, Request(l), UNCHANGED step
  PROVE  /\ l = 0 => TreeToCome'
         /\ BranchToCome(l)'
<1>1. PICK t \in Tasks :
        /\ phase[t] = "new" /\ phase' = [phase EXCEPT ![t] = "pending"]
        /\ target' = [target EXCEPT ![t] = l]
  BY Requested
<1>2. phase'[t] = "pending" /\ target'[t] = l /\ step'[t] # "Failed"
  BY <1>1 DEF TypeOK, Service!TypeOK, Reading
<1>3. QED
  BY <1>2 DEF TreeToCome, BranchToCome

\* The steps of the user and of imports.
LEMMA UserKeepsRows ==
  ASSUME TypeOK, OneRowEach, Table, Reading, ReadOnce, ~ dead, Next,
         NEW k \in LibraryIds, NEW n \in Names,
         \/ AddLibrary(k, n) \/ UpdateLibraryName(k, n) \/ AddLibraryAgain(k)
         \/ RemoveLibrary(k) \/ ClickLibrary(k) \/ Import(k) \/ FolderImported(k),
         ~ Deliver, NEW l \in LibraryIds, MadeTrue(l), l = k => k \notin outdated'
  PROVE  MadeTrue(l)'
<1>0. rows \in Seq(Item) /\ HasEachOnce(rows) /\ [Next]_vars
  BY DEF TypeOK, OneRowEach, HasEachOnce
<1>1. ShowsAll(l, rows) => TrueOf(l, rows)
  BY DEF ShowsAll
<1>2. CASE AddLibrary(k, n)
  <2>1. rows' = rows /\ importing' = importing /\ step' = step
    BY <1>2 DEF AddLibrary, guiVars
  <2>2. CASE l # k
    <3>1. Untouched(l)
      BY <1>2, <2>2 DEF AddLibrary, InsertLibrary, Libraries, Untouched
    <3>2. QED
      BY <1>0, <1>1, <2>1, <3>1, SameRows, RowStaysTrue
  <2>3. CASE l = k
    <3>1. Request(k) /\ k \in Libraries' /\ k \notin usedIds
      BY <1>2 DEF AddLibrary, InsertLibrary, Libraries
    <3>2. BranchToCome(k)'
      BY <2>1, <3>1, RequestComes
    <3>3. k \notin Ids(rows)'
      BY <2>1, <3>1 DEF Table, Ids
    <3>4. QED
      BY <2>3, <3>1, <3>2, <3>3 DEF MadeTrue
  <2>4. QED
    BY <2>2, <2>3
<1>3. CASE UpdateLibraryName(k, n)
  <2>1. /\ k \in Ids(rows) /\ name' = [name EXCEPT ![k] = n] /\ k \in Libraries
        /\ importing' = importing /\ content' = content
    BY <1>3 DEF UpdateLibraryName, RenameLibrary, LibraryExists
  <2>2. /\ DOMAIN rows' = DOMAIN rows /\ Ids(rows)' = Ids(rows)
        /\ \A i \in DOMAIN rows :
             /\ rows'[i].id = rows[i].id /\ rows'[i].content = rows[i].content
             /\ rows'[i].name = IF i = RowOf(k) THEN n ELSE rows[i].name
    BY <1>0, <1>3, RowRenamed
  <2>3. RowOf(k) \in DOMAIN rows /\ rows[RowOf(k)].id = k
    BY <2>1, RowOfShown
  <2>4. Libraries' = Libraries
    BY <2>1 DEF Libraries
  <2>5. CASE l # k
    <3>1. Untouched(l)
      BY <2>1, <2>4, <2>5 DEF Untouched, Libraries
    <3>2. TrueOf(l, rows) => TrueOf(l, rows)'
      BY <2>2, <2>3, <2>5, <3>1 DEF TrueOf, Untouched
    <3>3. QED
      BY <1>0, <1>1, <2>1, <2>2, <3>1, <3>2, RowStaysTrue
  <2>6. CASE l = k
    <3>1. name'[k] = n
      BY <2>1 DEF Libraries
    <3>2. \A i \in DOMAIN rows : rows[i].id = k => i = RowOf(k)
      BY <1>0, <2>3 DEF HasEachOnce
    <3>3. ShowsAll(k, rows) => ShowsAll(k, rows)'
      BY <2>1, <2>2, <2>4, <3>1, <3>2 DEF ShowsAll, TrueOf
    <3>4. TreeToCome => TreeToCome'
      BY <1>0, StillToCome
    <3>5. QED
      BY <2>1, <2>6, <3>3, <3>4 DEF MadeTrue
  <2>7. QED
    BY <2>5, <2>6
<1>4. CASE AddLibraryAgain(k) \/ ClickLibrary(k)
  <2>1. Untouched(l) /\ rows' = rows /\ importing' = importing
    BY <1>4 DEF AddLibraryAgain, ClickLibrary, dbVars, guiVars, Untouched, Libraries
  <2>2. QED
    BY <1>0, <1>1, <2>1, SameRows, RowStaysTrue
<1>5. CASE RemoveLibrary(k)
  <2>1. /\ k \in Ids(rows) /\ rows' = RemoveAt(rows, RowOf(k))
        /\ Libraries' = Libraries \ {k} /\ importing' = importing
    BY <1>5 DEF RemoveLibrary, DeleteLibrary, Libraries
  <2>2. /\ \A i \in DOMAIN rows' :
             \E j \in DOMAIN rows : rows'[i] = rows[j] /\ rows[j].id # k
        /\ Ids(rows)' = Ids(rows) \ {k}
    BY <1>0, <2>1, RowTakenOut
  <2>3. CASE l # k
    <3>1. Untouched(l)
      BY <1>5, <2>3 DEF RemoveLibrary, DeleteLibrary, Libraries, Untouched
    <3>2. TrueOf(l, rows) => TrueOf(l, rows)'
      BY <2>2, <3>1 DEF TrueOf, Untouched
    <3>3. QED
      BY <1>0, <1>1, <2>1, <2>2, <2>3, <3>1, <3>2, RowStaysTrue
  <2>4. CASE l = k
    <3>1. TrueOf(k, rows)'
      BY <2>2 DEF TrueOf
    <3>2. QED
      BY <2>1, <2>4, <3>1 DEF MadeTrue, ShowsAll
  <2>5. QED
    BY <2>3, <2>4
<1>6. CASE Import(k)
  <2>1. rows' = rows /\ importing \subseteq importing'
    BY <1>6 DEF Import, guiVars
  <2>2. CASE l # k
    <3>1. Untouched(l)
      BY <1>6, <2>2 DEF Import, Libraries, Untouched, TypeOK
    <3>2. QED
      BY <1>0, <1>1, <2>1, <3>1, SameRows, RowStaysTrue
  <2>3. CASE l = k
    <3>1. k \in importing'
      BY <1>6, <2>3 DEF Import
    <3>2. QED
      BY <2>3, <3>1 DEF MadeTrue
  <2>4. QED
    BY <2>2, <2>3
<1>7. CASE FolderImported(k)
  BY <1>7, RequestComes DEF FolderImported, MadeTrue
<1>8. QED
  BY <1>2, <1>3, <1>4, <1>5, <1>6, <1>7

\* A delivery brings the truth, or a branch for a library that has its row.
LEMMA DeliveryKeepsRows ==
  ASSUME TypeOK, OneRowEach, Table, PostedOnce, SnapshotsTell, Deliver,
         NEW l \in LibraryIds \ outdated, MadeTrue(l)
  PROVE  MadeTrue(l)'
<1>1. /\ posted # <<>> /\ posted' = Tail(posted)
      /\ UNCHANGED <<name, content, importing, target, phase, step>> /\ Libraries' = Libraries
  BY DEF Deliver, OnTreeUpdated, OnLibraryBranchUpdated, dbVars, taskVars, serviceVars, Libraries
<1> DEFINE p == Head(posted)
           s == p.items
<1>2. /\ s \in Seq(Item) /\ p = posted[1] /\ 1 \in DOMAIN posted
      /\ \A q \in ToSet(posted) : q = p \/ q \in ToSet(posted)'
  <2>1. /\ s \in Seq(Item) /\ p = posted[1] /\ 1 \in DOMAIN posted
        /\ \A i \in DOMAIN posted : i # 1 =>
             i - 1 \in DOMAIN Tail(posted) /\ Tail(posted)[i - 1] = posted[i]
    BY <1>1, HeadPosted
  <2>2. \A q \in ToSet(posted) : q = p \/ q \in ToSet(posted)'
    BY <1>1, <2>1 DEF ToSet
  <2>3. QED
    BY <2>1, <2>2
<1>3. PostTells(l, p)
  BY <1>2 DEF SnapshotsTell, ToSet
<1>4. p.branch => Len(s) = 1
  BY <1>2 DEF PostedOnce
<1>5. rows \in Seq(Item)
  BY DEF TypeOK
<1>6. CASE OnTreeUpdated
  <2>1. rows' = s /\ ~ p.branch
    BY <1>6 DEF OnTreeUpdated
  <2>2. ShowsAll(l, s)
    BY <1>3, <2>1 DEF PostTells
  <2> HIDE DEF p, s
  <2>3. ShowsAll(l, rows)'
    BY <1>1, <2>1, <2>2 DEF ShowsAll, TrueOf, Ids
  <2>4. QED
    BY <2>3 DEF MadeTrue
<1>7. CASE OnLibraryBranchUpdated
  <2>1. p.branch /\ Len(s) = 1 /\ TrueOf(l, s)
    BY <1>3, <1>4, <1>7 DEF OnLibraryBranchUpdated, PostTells
  <2>2. DOMAIN s = 1..1
    BY <1>2, <2>1, LenProperties
  <2>3. \/ s[1].id \in Ids(rows) /\ rows' = rows
        \/ s[1].id \notin Ids(rows) /\ rows' = rows \o s
    BY <1>7 DEF OnLibraryBranchUpdated, guiVars
  <2> HIDE DEF p, s
  <2>4. Ids(s) = {s[1].id}
    BY <2>2 DEF Ids
  <2>5. TreeToCome => TreeToCome'
    BY <1>1, <1>2, <2>1 DEF TreeToCome
  <2>6. BranchToCome(l) => BranchToCome(l)' \/ s[1].id = l
    <3>1. ASSUME NEW q \in ToSet(posted), q.branch, l \in Ids(q.items)
          PROVE  BranchToCome(l)' \/ s[1].id = l
      <4>1. CASE q = p
        <5>1. q.items = s
          BY <4>1 DEF s
        <5>2. QED
          BY <2>4, <3>1, <5>1
      <4>2. CASE q \in ToSet(posted)'
        BY <3>1, <4>2 DEF BranchToCome, Ids
      <4>3. QED
        BY <1>2, <4>1, <4>2
    <3>2. QED
      BY <1>1, <3>1 DEF BranchToCome
  <2>7. CASE s[1].id \in Ids(rows) /\ rows' = rows
    <3>1. ShowsAll(l, rows) => ShowsAll(l, rows)'
      BY <1>1, <2>7 DEF ShowsAll, TrueOf, Ids
    <3>2. l \in Ids(rows)' <=> l \in Ids(rows)
      BY <2>7 DEF Ids
    <3>3. QED
      BY <1>1, <2>5, <2>6, <2>7, <3>1, <3>2 DEF MadeTrue
  <2>8. CASE s[1].id \notin Ids(rows) /\ rows' = rows \o s
    <3>1. /\ Len(rows \o s) = Len(rows) + Len(s) /\ rows \o s \in Seq(Item)
          /\ \A i \in 1..(Len(rows) + Len(s)) :
               (rows \o s)[i] = IF i <= Len(rows) THEN rows[i] ELSE s[i - Len(rows)]
      BY <1>2, <1>5, ConcatProperties, Zenon
    <3>2. DOMAIN rows = 1..Len(rows) /\ Len(rows) \in Nat
      BY <1>5, LenProperties
    <3>3. DOMAIN (rows \o s) = 1..(Len(rows) + 1)
      BY <2>1, <3>1, LenProperties
    <3>4. /\ \A i \in DOMAIN rows : i \in DOMAIN rows' /\ rows'[i] = rows[i]
          /\ Len(rows) + 1 \in DOMAIN rows' /\ rows'[Len(rows) + 1] = s[1]
          /\ \A i \in DOMAIN rows' : i \in DOMAIN rows \/ i = Len(rows) + 1
      BY <2>1, <2>8, <3>1, <3>2, <3>3
    <3>5. \A k : k \in Ids(rows)' <=> k \in Ids(rows) \/ k = s[1].id
      BY <3>4 DEF Ids
    <3>6. CASE s[1].id = l
      <4>1. \A i \in DOMAIN rows : rows[i].id # l
        BY <2>8, <3>6 DEF Ids
      <4>2. l \in Libraries /\ s[1].name = name[l] /\ s[1].content = content[l]
        BY <2>1, <2>2, <3>6 DEF TrueOf
      <4>3. TrueOf(l, rows)'
        BY <1>1, <3>4, <4>1, <4>2 DEF TrueOf
      <4>4. QED
        BY <3>5, <3>6, <4>3 DEF MadeTrue, ShowsAll
    <3>7. CASE s[1].id # l
      <4>1. TrueOf(l, rows) => TrueOf(l, rows)'
        BY <1>1, <3>4, <3>7 DEF TrueOf
      <4>2. QED
        BY <1>1, <2>5, <2>6, <3>5, <3>7, <4>1 DEF MadeTrue, ShowsAll
    <3>8. QED
      BY <3>6, <3>7
  <2>9. QED
    BY <2>3, <2>7, <2>8
<1>8. QED
  BY <1>6, <1>7 DEF Deliver

\* A task changes no row.
LEMMA TaskKeepsRows ==
  ASSUME TypeOK, Table, Reading, ReadOnce, ~ dead, [Next]_vars, ~ Deliver,
         NEW t \in Tasks, StartTask(t) \/ WorkerStep(t),
         NEW l \in LibraryIds \ outdated', l \notin outdated => MadeTrue(l)
  PROVE  MadeTrue(l)'
<1>1. UNCHANGED <<name, content, importing, rows>> /\ Libraries' = Libraries
  BY OnlyItsOwn
<1>2. Untouched(l)
  BY <1>1 DEF Untouched
<1>3. CASE l \notin outdated
  BY <1>1, <1>2, <1>3, SameRows, RowStaysTrue DEF ShowsAll
<1>4. CASE l \in outdated
  <2>1. ReadLibraries(t)
    BY <1>4 DEF StartTask, WorkerStep, ReadLibrary, ReadName, ReadTrees, ReportTask,
                FinalizeTask
  <2>2. phase'[t] = "running" /\ target'[t] = 0
    BY <2>1 DEF ReadLibraries, At, serviceVars
  <2>3. QED
    BY <2>2 DEF MadeTrue, TreeToCome
<1>5. QED
  BY <1>3, <1>4

\* Where the rows are not true, something is to come, after every step.
LEMMA RowsAreMadeTrueStep ==
  ASSUME TypeOK, OneRowEach, Table, Reading, ReadOnce, PostedOnce, SnapshotsTell,
         RowsAreMadeTrue, ~ dead, [Next]_vars
  PROVE  RowsAreMadeTrue'
<1> SUFFICES ASSUME NEW l \in LibraryIds \ outdated'
             PROVE  MadeTrue(l)'
  BY DEF RowsAreMadeTrue, MadeTrue
<1>1. l \notin outdated => MadeTrue(l)
  BY DEF RowsAreMadeTrue, MadeTrue
<1>2. CASE Deliver
  <2>1. outdated' = outdated
    BY <1>2 DEF Deliver, OnTreeUpdated, OnLibraryBranchUpdated
  <2>2. QED
    BY <1>1, <1>2, <2>1, DeliveryKeepsRows
<1>3. CASE ~ Deliver /\ \E t \in Tasks : StartTask(t) \/ WorkerStep(t)
  BY <1>1, <1>3, TaskKeepsRows
<1>4. CASE ~ Deliver /\ \A t \in Tasks : ~ StartTask(t) /\ ~ WorkerStep(t)
  <2>1. MadeTrue(l)
    BY <1>1, <1>4, TouchedIsOutdated
  <2>2. CASE UNCHANGED vars
    <3>1. Untouched(l) /\ rows' = rows /\ importing' = importing
      BY <2>2 DEF vars, dbVars, guiVars, Untouched, Libraries
    <3>2. QED
      BY <1>4, <2>1, <3>1, SameRows, RowStaysTrue DEF ShowsAll
  <2>3. CASE Next
    <3>1. PICK k \in LibraryIds, n \in Names :
            \/ AddLibrary(k, n) \/ UpdateLibraryName(k, n) \/ AddLibraryAgain(k)
            \/ RemoveLibrary(k) \/ ClickLibrary(k) \/ Import(k) \/ FolderImported(k)
      <4>1. 1 \in Names
        BY TreeAssumption
      <4>2. QED
        BY <1>4, <2>3, <4>1 DEF Next
    <3>2. l = k => k \notin outdated'
      OBVIOUS
    <3>3. QED
      BY <1>4, <2>1, <2>3, <3>1, <3>2, UserKeepsRows
  <2>4. QED
    BY <2>2, <2>3
<1>5. QED
  BY <1>2, <1>3, <1>4

-----------------------------------------------------------------------------
(* The theorem.                                                            *)

LEMMA IInvInit == Init => IInv
<1> SUFFICES ASSUME Init PROVE IInv
  OBVIOUS
<1>1. TypeOK
  BY TypeInit
<1>2. Ids(<<>>) = {} /\ HasEachOnce(<<>>)
  BY DEF Ids, HasEachOnce
<1>3. OneRowEach
  BY DEF Init, OneRowEach
<1>4. Libraries = {1} /\ rows = <<>> /\ posted = <<>>
  BY DEF Init, Libraries
<1>5. \A t \in Tasks :
        /\ target[t] = 0 /\ step[t] = "start" /\ snapshot[t] = <<>>
        /\ phase[t] \in {"new", "pending"}
  BY DEF Init
<1>6. Table
  BY <1>2, <1>4, <1>5, FS_Singleton DEF Table
<1>7. Reading
  BY <1>2, <1>5 DEF Reading
<1>8. ReadOnce /\ PostedOnce
  BY <1>4, <1>5 DEF ReadOnce, PostedOnce
<1>9. SnapshotsTell
  BY <1>4, <1>5 DEF SnapshotsTell, ToSet
<1>10. RowsAreMadeTrue
  <2>1. 1 \in Tasks /\ target[1] = 0 /\ phase[1] = "pending"
    BY TreeAssumption DEF Init
  <2>2. QED
    BY <2>1 DEF RowsAreMadeTrue, TreeToCome
<1>11. QED
  BY <1>1, <1>3, <1>6, <1>7, <1>8, <1>9, <1>10 DEF IInv

\* A process that is dead does nothing.
LEMMA DeadStays == dead /\ [Next]_vars => UNCHANGED vars
BY DEF Next

LEMMA IInvStays ==
  ASSUME IInv, UNCHANGED vars
  PROVE  IInv'
<1>1. UNCHANGED <<phase, priority, cancelled, name, usedIds, content, importing, target,
                  step, todo, snapshot, posted, rows, listCurrent, currentLibrary, outdated>>
  BY DEF vars, serviceVars, dbVars, taskVars, guiVars
<1>2. Libraries' = Libraries
  BY <1>1 DEF Libraries
<1>3. TypeOK' /\ OneRowEach' /\ Table'
  BY TypeStep, RowsStep, TableStep DEF IInv
<1>4. Reading' /\ ReadOnce' /\ PostedOnce'
  <2>1. Reading'
    BY <1>1, <1>2 DEF IInv, Reading, Ids
  <2>2. \A t \in Tasks : Left(t)' = Left(t)
    BY <1>1 DEF Left
  <2>3. \A t \in Tasks :
          /\ ToSet(Left(t))' = ToSet(Left(t)) /\ Ids(snapshot[t])' = Ids(snapshot[t])
          /\ HasEachOnce(snapshot[t])' <=> HasEachOnce(snapshot[t])
          /\ IsInjective(todo[t])' <=> IsInjective(todo[t])
    BY <1>1, <2>2 DEF Ids, HasEachOnce, IsInjective, ToSet
  <2>4. ReadOnce'
    BY <1>1, <2>2, <2>3 DEF IInv, ReadOnce
  <2>5. PostedOnce'
    BY <1>1 DEF IInv, PostedOnce, Ids, HasEachOnce
  <2>6. QED
    BY <2>1, <2>4, <2>5
<1>5. \A l \in LibraryIds : Untouched(l)
  BY <1>1, <1>2 DEF Untouched
<1>6. ToSet(posted)' = ToSet(posted)
  BY <1>1 DEF ToSet
<1>7. SnapshotsTell'
  <2>1. \A l \in LibraryIds : \A p : PostTells(l, p) => PostTells(l, p)'
    BY <1>5, StaysTrue DEF PostTells
  <2>2. \A l \in LibraryIds : \A t \in Tasks : TaskTells(t, l) => TaskTells(t, l)'
    BY <1>1, <1>5, StillTells
  <2>3. QED
    BY <1>1, <1>6, <2>1, <2>2 DEF IInv, SnapshotsTell
<1>8. RowsAreMadeTrue'
  <2>1. TreeToCome => TreeToCome'
    BY <1>1, <1>6 DEF TreeToCome
  <2>2. \A l \in LibraryIds : BranchToCome(l) => BranchToCome(l)'
    BY <1>1, <1>6 DEF BranchToCome, Ids
  <2>3. \A l \in LibraryIds : ShowsAll(l, rows) => ShowsAll(l, rows)'
    BY <1>1, <1>2 DEF ShowsAll, TrueOf, Ids
  <2>4. Ids(rows)' = Ids(rows)
    BY <1>1 DEF Ids
  <2>5. QED
    BY <1>1, <1>2, <2>1, <2>2, <2>3, <2>4 DEF IInv, RowsAreMadeTrue
<1>9. QED
  BY <1>3, <1>4, <1>7, <1>8 DEF IInv

LEMMA IInvStep == IInv /\ [Next]_vars => IInv'
<1> SUFFICES ASSUME IInv, [Next]_vars PROVE IInv'
  OBVIOUS
<1>1. CASE dead
  BY <1>1, DeadStays, IInvStays
<1>2. CASE ~ dead
  <2> USE <1>2 DEF IInv
  <2>1. TypeOK' /\ OneRowEach' /\ Table'
    BY TypeStep, RowsStep, TableStep
  <2>2. Reading' /\ ReadOnce' /\ PostedOnce'
    BY ReadingStep, ReadOnceStep, PostedOnceStep
  <2>3. SnapshotsTell' /\ RowsAreMadeTrue'
    BY SnapshotsTellStep, RowsAreMadeTrueStep
  <2>4. QED
    BY <2>1, <2>2, <2>3
<1>3. QED
  BY <1>1, <1>2

\* The tree shows each library once, with its row selected as the state has it,
\* and at rest it shows what is in the database: in whatever order snapshots of
\* the tree and of branches are taken and delivered while the user adds, renames
\* and removes libraries and imports end.
THEOREM TreeSound == Spec => []TreeIsSound
<1>1. IInv => TreeIsSound
  <2> SUFFICES ASSUME IInv, Quiet, NEW l \in LibraryIds \ outdated
               PROVE  {r \in ToSet(rows) : r.id = l} =
                        IF l \in Libraries THEN {LibraryEntry(l, content[l])} ELSE {}
    BY DEF IInv, TreeIsSound, TreeIsTrueAtRest
  <2>1. /\ posted = <<>> /\ importing = {}
        /\ \A t \in Tasks : phase[t] \notin {"pending", "running"}
    BY DEF Quiet, Service!InPhase, Service!Active
  <2>2. ShowsAll(l, rows)
    BY <2>1 DEF IInv, RowsAreMadeTrue, TreeToCome, BranchToCome, ToSet
  <2>3. \A i \in DOMAIN rows : rows[i] \in Item
    BY DEF IInv, TypeOK
  <2>4. \A i \in DOMAIN rows : rows[i].id = l =>
          l \in Libraries /\ rows[i] = LibraryEntry(l, content[l])
    BY <2>2, <2>3 DEF ShowsAll, TrueOf, Item, LibraryEntry
  <2>5. LibraryEntry(l, content[l]).id = l
    BY DEF LibraryEntry
  <2>6. l \in Libraries => \E i \in DOMAIN rows : rows[i].id = l
    BY <2>2 DEF ShowsAll, Ids
  <2>7. {r \in ToSet(rows) : r.id = l}
          \subseteq IF l \in Libraries THEN {LibraryEntry(l, content[l])} ELSE {}
    BY <2>4 DEF ToSet
  <2>8. l \in Libraries => LibraryEntry(l, content[l]) \in {r \in ToSet(rows) : r.id = l}
    BY <2>4, <2>5, <2>6 DEF ToSet
  <2>9. QED
    BY <2>7, <2>8
<1>2. QED
  BY IInvInit, IInvStep, <1>1, PTL DEF Spec

=============================================================================
