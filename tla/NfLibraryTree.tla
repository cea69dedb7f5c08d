--------------------------- MODULE NfLibraryTree ---------------------------
(***************************************************************************)
(* The library tree: NfLibraryTreeModel and NfLibraryBrowser on the GUI    *)
(* thread, NfLibraryTreeTask on the foreground pool, NfLibraryAdapter and  *)
(* NfLibraryManager between them, and the rows of the libraries table.     *)
(*                                                                         *)
(* A task reads one library after the other and hands its snapshot to the  *)
(* GUI thread by a queued signal.  Meanwhile the user adds, renames and    *)
(* removes libraries, and imports on the background pool change what is in *)
(* them.  What a library contains is a version number here: its trees are  *)
(* in NfLibraryQueries.  Tree tasks are never cancelled.                   *)
(***************************************************************************)
EXTENDS Integers, FiniteSets, Sequences, SequencesExt

CONSTANTS Tasks,      \* ids of the tree tasks there may be
          LibraryIds, \* ids the libraries table may give out
          Names,      \* names of libraries, as integers in their order
          MaxContent, \* no import after this many into one library
          PoolSize    \* threads of the foreground pool

ASSUME TreeAssumption ==
  /\ Tasks \subseteq Nat /\ 1 \in Tasks
  /\ LibraryIds \subseteq Nat \ {0} /\ 1 \in LibraryIds
  /\ Names \subseteq Int /\ 1 \in Names
  /\ MaxContent \in Nat /\ PoolSize \in Nat \ {0}

Immediate == 10
Priorities == {Immediate}

VARIABLES
  phase, priority, cancelled, \* the task service
  name,        \* name[l]: the name of library l; its domain is the table
  usedIds,     \* sqlite_sequence of libraries
  content,     \* content[l]: version of the folders and photos of l
  importing,   \* libraries whose import has not called m_folderImportedCb
  target,      \* NfLibraryTreeTask::m_libraryId, 0 for all libraries
  step,        \* where a task is in execute
  todo,        \* libraries execute has not come to
  snapshot,    \* NfLibraryTreeTask::m_snapshot
  posted,      \* signals of the adapter not delivered to the GUI thread
  rows,        \* the library items below NfLibraryTreeModel::m_root
  listCurrent, \* the current row of NfLibraryListView, 0 for none
  currentLibrary, \* NfUiLibraryModeState::m_currentLibrary
  dead,        \* the process has crashed
  outdated     \* history: libraries the tree was overtaken by

serviceVars == <<phase, priority, cancelled>>
dbVars == <<name, usedIds, content, importing>>
taskVars == <<target, step, todo, snapshot>>
guiVars == <<rows, listCurrent, currentLibrary>>
vars == <<serviceVars, dbVars, taskVars, posted, guiVars, dead, outdated>>

Service == INSTANCE NfTaskService

\* Rows of the libraries table: libraryExists, and what library reads of one,
\* beside what its trees were made from.
Libraries == DOMAIN name
LibraryExists(l) == l \in Libraries
LibraryEntry(l, c) == [id |-> l, name |-> name[l], content |-> c]

\* All of them in the order of their names (of which there is one: names are
\* UNIQUE).
LibraryIdsByName ==
  {s \in [1..Cardinality(Libraries) -> Libraries] :
     /\ ToSet(s) = Libraries
     /\ \A i, j \in DOMAIN s : i < j => name[s[i]] < name[s[j]]}

Steps == {"start", "next", "trees", "Failed"}
Item == [id : LibraryIds, name : Names, content : 0..MaxContent]
Ids(items) == {items[i].id : i \in DOMAIN items}
RowOf(l) == CHOOSE i \in DOMAIN rows : rows[i].id = l

\* A snapshot is being taken, or is on its way to the model.
UnderWay == Service!InPhase("running") # {} \/ posted # <<>>

\* What happens to l now may be missing from that snapshot.
Overtakes(l) == outdated' = IF UnderWay THEN outdated \union {l} ELSE outdated

-----------------------------------------------------------------------------
\* The constructor of the model has requested the tree: task 1 is queued.
Init ==
  /\ phase = [t \in Tasks |-> IF t = 1 THEN "pending" ELSE "new"]
  /\ priority \in [Tasks -> Priorities] /\ cancelled = {}
  /\ name = [l \in {1} |-> 1] /\ usedIds = {1}
  /\ content = [l \in LibraryIds |-> 0] /\ importing = {}
  /\ target = [t \in Tasks |-> 0]
  /\ step = [t \in Tasks |-> "start"]
  /\ todo = [t \in Tasks |-> <<>>]
  /\ snapshot = [t \in Tasks |-> <<>>]
  /\ posted = <<>> /\ rows = <<>>
  /\ listCurrent = 0 /\ currentLibrary \in LibraryIds \union {0} \* as saved
  /\ dead = FALSE /\ outdated = {}

\* loadTreeAsync, loadLibraryBranchAsync
Request(l) ==
  \E t \in Service!InPhase("new") :
    /\ \A u \in Service!InPhase("new") : t <= u
    /\ Service!Submit(t, Immediate)
    /\ target' = [target EXCEPT ![t] = l]

-----------------------------------------------------------------------------
(* The GUI thread: what the user does.                                     *)

\* The UNIQUE constraint on names.
FreeName(n) == \A k \in Libraries : name[k] # n

\* A row of a new name; ids are given out in order, never twice.
InsertLibrary(l, n) ==
  /\ l \in LibraryIds \ usedIds /\ \A k \in LibraryIds \ usedIds : l <= k
  /\ FreeName(n)
  /\ name' = [k \in Libraries \union {l} |-> IF k = l THEN n ELSE name[k]]
  /\ usedIds' = usedIds \union {l}

\* updateLibrary and removeLibrary of NfLibraryManager.
RenameLibrary(l, n) == LibraryExists(l) /\ FreeName(n) /\ name' = [name EXCEPT ![l] = n]
DeleteLibrary(l) == LibraryExists(l) /\ name' = [k \in Libraries \ {l} |-> name[k]]

SetCurrentLibrary(l) == currentLibrary' = l

\* Show rows r with m_state naming library l: its row becomes current, or
\* the first one, which m_state is told.
Select(r, l) ==
  LET chosen == IF l \in Ids(r) THEN l ELSE IF r # <<>> THEN r[1].id ELSE 0 IN
  /\ listCurrent' = chosen
  /\ SetCurrentLibrary(IF chosen # 0 THEN chosen ELSE l)

\* Mutant: no branch is requested.
AddLibraryNoRequest(l, n) ==
  /\ InsertLibrary(l, n)
  /\ Overtakes(l)
  /\ UNCHANGED <<serviceVars, content, importing, taskVars, posted, guiVars, dead>>

\* addLibrary of a new name.
AddLibrary(l, n) ==
  /\ InsertLibrary(l, n)
  /\ Request(l)
  /\ Overtakes(l)
  /\ UNCHANGED <<content, importing, step, todo, snapshot, posted, guiVars, dead>>

\* addLibrary of a name there is: the branch of that library is requested.
AddLibraryAgain(l) ==
  /\ l \in Libraries
  /\ Request(l)
  /\ UNCHANGED <<dbVars, step, todo, snapshot, posted, guiVars, dead, outdated>>

\* updateLibraryName: the library must have a row, and the name be free.
UpdateLibraryName(l, n) ==
  /\ l \in Ids(rows)
  /\ RenameLibrary(l, n)
  /\ rows' = [rows EXCEPT ![RowOf(l)].name = n]
  /\ Overtakes(l)
  /\ UNCHANGED <<serviceVars, usedIds, content, importing, taskVars, posted,
                 listCurrent, currentLibrary, dead>>

\* The current row of a list view when the row of l is about to go: the next
\* one, else the one before, which m_state is told.
Neighbour(l) ==
  IF listCurrent # l THEN currentLibrary
  ELSE IF RowOf(l) < Len(rows) THEN rows[RowOf(l) + 1].id
  ELSE IF Len(rows) > 1 THEN rows[Len(rows) - 1].id ELSE 0

\* NfLibraryBrowser::removeLibrary, of the last row or another one.
SelectAfterRemoval(l) ==
  IF rows' # <<>> THEN Select(rows', Neighbour(l))
  ELSE listCurrent' = 0 /\ SetCurrentLibrary(0)

\* removeLibrary of a library that has a row.
RemoveLibrary(l) ==
  /\ l \in Ids(rows)
  /\ DeleteLibrary(l)
  /\ rows' = RemoveAt(rows, RowOf(l))
  /\ SelectAfterRemoval(l)
  /\ Overtakes(l)
  /\ UNCHANGED <<serviceVars, usedIds, content, importing, taskVars, posted, dead>>

\* The user clicks on a library.
ClickLibrary(l) ==
  /\ l \in Ids(rows)
  /\ listCurrent' = l /\ SetCurrentLibrary(l)
  /\ UNCHANGED <<serviceVars, dbVars, taskVars, posted, rows, dead, outdated>>

-----------------------------------------------------------------------------
(* The GUI thread: snapshots.                                              *)

\* onTreeUpdated: the model is reset, which leaves the views without a
\* current row; treeLoaded selects one.
OnTreeUpdated ==
  /\ posted # <<>> /\ ~ Head(posted).branch
  /\ posted' = Tail(posted)
  /\ rows' = Head(posted).items
  /\ Select(rows', currentLibrary)
  /\ UNCHANGED <<serviceVars, dbVars, taskVars, dead, outdated>>

\* onLibraryBranchUpdated: a library that has a row is left alone.
OnLibraryBranchUpdated ==
  /\ posted # <<>> /\ Head(posted).branch
  /\ posted' = Tail(posted)
  /\ IF Head(posted).items[1].id \in Ids(rows) THEN UNCHANGED guiVars
     ELSE /\ rows' = rows \o Head(posted).items
          /\ Select(rows', currentLibrary)
  /\ UNCHANGED <<serviceVars, dbVars, taskVars, dead, outdated>>

-----------------------------------------------------------------------------
(* The background pool: imports.                                           *)

\* An import changes what l contains.  If it fails later the tree is not told.
Import(l) ==
  /\ l \in Libraries
  /\ \A k \in LibraryIds : content[k] < MaxContent
  /\ content' = [content EXCEPT ![l] = @ + 1]
  /\ \/ importing' = importing \union {l} /\ Overtakes(l)
     \/ importing' = importing /\ outdated' = outdated \union {l}
  /\ UNCHANGED <<serviceVars, name, usedIds, taskVars, posted, guiVars, dead>>

\* Mutant: the callback is not called.
FolderImportedNoRequest(l) ==
  /\ l \in importing
  /\ importing' = importing \ {l}
  /\ UNCHANGED <<serviceVars, name, usedIds, content, taskVars, posted, guiVars,
                 dead, outdated>>

\* The result handler of the import calls m_folderImportedCb.
FolderImported(l) ==
  /\ l \in importing
  /\ importing' = importing \ {l}
  /\ Request(0)
  /\ UNCHANGED <<name, usedIds, content, step, todo, snapshot, posted, guiVars,
                 dead, outdated>>

-----------------------------------------------------------------------------
(* The foreground pool: execute.                                           *)

StartTask(t) ==
  /\ Cardinality(Service!Active) < PoolSize
  /\ Service!Start(t)
  /\ UNCHANGED <<dbVars, taskVars, posted, guiVars, dead, outdated>>

At(t, s) == phase[t] = "running" /\ step[t] = s
Go(t, s) == step' = [step EXCEPT ![t] = s]

\* getLibrary: the branch of a library that is gone fails.
ReadLibrary(t) ==
  /\ At(t, "start") /\ target[t] # 0
  /\ IF LibraryExists(target[t])
     THEN Go(t, "next") /\ todo' = [todo EXCEPT ![t] = <<target[t]>>]
     ELSE Go(t, "Failed") /\ UNCHANGED todo
  /\ UNCHANGED <<serviceVars, dbVars, target, snapshot, posted, guiVars, dead, outdated>>

\* libraries(), in the order of their names.  A whole tree that is read while
\* nothing else is under way makes up for what earlier ones missed.
ReadLibraries(t) ==
  /\ At(t, "start") /\ target[t] = 0
  /\ Go(t, "next")
  /\ \E s \in LibraryIdsByName : todo' = [todo EXCEPT ![t] = s]
  /\ outdated' = IF posted = <<>> /\ Service!InPhase("running") = {t} /\ importing = {}
                 THEN {} ELSE outdated
  /\ UNCHANGED <<serviceVars, dbVars, target, snapshot, posted, guiVars, dead>>

\* snapshotLibrary: the name of the next library.  NfLibrary::name looks at
\* the row without asking whether there is one.
ReadName(t) ==
  /\ At(t, "next") /\ todo[t] # <<>>
  /\ LET l == Head(todo[t]) IN
     IF LibraryExists(l)
     THEN /\ Go(t, "trees")
          /\ snapshot' = [snapshot EXCEPT ![t] = Append(@, LibraryEntry(l, 0))]
          /\ UNCHANGED dead
     ELSE dead' = TRUE /\ UNCHANGED <<step, snapshot>>
  /\ UNCHANGED <<serviceVars, dbVars, target, todo, posted, guiVars, outdated>>

\* ... and its trees, which are empty if it has gone since.
ReadTrees(t) ==
  /\ At(t, "trees")
  /\ Go(t, "next")
  /\ snapshot' = [snapshot EXCEPT ![t][Len(snapshot[t])].content = content[Head(todo[t])]]
  /\ todo' = [todo EXCEPT ![t] = Tail(@)]
  /\ UNCHANGED <<serviceVars, dbVars, target, posted, guiVars, dead, outdated>>

\* execute is through with the libraries, or has failed.
Ended(t) == At(t, "Failed") \/ (At(t, "next") /\ todo[t] = <<>>)

\* The result handler takes the snapshot, which the adapter emits: to the GUI
\* thread.
ReportTask(t) ==
  /\ Ended(t)
  /\ Service!Report(t)
  /\ posted' = IF step[t] = "Failed" THEN posted
               ELSE Append(posted, [branch |-> target[t] # 0, items |-> snapshot[t]])
  /\ snapshot' = [snapshot EXCEPT ![t] = <<>>]
  /\ UNCHANGED <<dbVars, target, step, todo, guiVars, dead, outdated>>

FinalizeTask(t) ==
  /\ Service!Finalize(t)
  /\ UNCHANGED <<dbVars, taskVars, posted, guiVars, dead, outdated>>

WorkerStep(t) ==
  \/ ReadLibrary(t) \/ ReadLibraries(t) \/ ReadName(t) \/ ReadTrees(t)
  \/ ReportTask(t) \/ FinalizeTask(t)

-----------------------------------------------------------------------------
Deliver == OnTreeUpdated \/ OnLibraryBranchUpdated

Next ==
  /\ ~ dead
  /\ \/ \E l \in LibraryIds, n \in Names : AddLibrary(l, n) \/ UpdateLibraryName(l, n)
     \/ \E l \in LibraryIds :
          AddLibraryAgain(l) \/ RemoveLibrary(l) \/ ClickLibrary(l)
          \/ Import(l) \/ FolderImported(l)
     \/ Deliver
     \/ \E t \in Tasks : StartTask(t) \/ WorkerStep(t)

Spec == Init /\ [][Next]_vars

\* Worker threads run and take what is queued, the GUI thread handles events.
Fairness ==
  /\ \A t \in Tasks : WF_vars(~ dead /\ WorkerStep(t))
  /\ WF_vars(~ dead /\ \E t \in Tasks : StartTask(t))
  /\ WF_vars(~ dead /\ Deliver)

FairSpec == Spec /\ Fairness

-----------------------------------------------------------------------------
(* Properties.                                                             *)

\* Every variable keeps its type.
TypeOK ==
  /\ Service!TypeOK
  /\ Libraries \subseteq usedIds /\ usedIds \subseteq LibraryIds
  /\ name \in [Libraries -> Names]
  /\ content \in [LibraryIds -> 0..MaxContent]
  /\ importing \subseteq usedIds
  /\ target \in [Tasks -> LibraryIds \union {0}]
  /\ step \in [Tasks -> Steps]
  /\ todo \in [Tasks -> Seq(LibraryIds)] /\ snapshot \in [Tasks -> Seq(Item)]
  /\ posted \in Seq([branch : BOOLEAN, items : Seq(Item)])
  /\ rows \in Seq(Item)
  /\ {listCurrent, currentLibrary} \subseteq LibraryIds \union {0}
  /\ outdated \subseteq LibraryIds

\* No library has two rows, although trees and branches of it arrive in any
\* order, and the selected row, if there is one, is the library m_state names.
OneRowEach ==
  /\ \A i, j \in DOMAIN rows : rows[i].id = rows[j].id => i = j
  /\ rows # <<>> => listCurrent = currentLibrary /\ listCurrent \in Ids(rows)

Quiet == /\ Service!InPhase("pending") \union Service!Active = {}
         /\ posted = <<>> /\ importing = {} /\ ~ dead

\* When all requests are answered, the tree shows each library of the database
\* and no other, with its name and contents, except for libraries that were
\* added, renamed, removed or imported into while a snapshot was being taken
\* or was on its way, or whose import failed after it had stored something.
TreeIsTrueAtRest ==
  Quiet =>
    \A l \in LibraryIds \ outdated :
      {r \in ToSet(rows) : r.id = l} =
        IF l \in Libraries THEN {LibraryEntry(l, content[l])} ELSE {}

\* A library that is added gets its row, unless it is removed again, the process
\* crashes in name() (dead), or the tree may be older than the library is
\* (outdated): that was added, renamed, removed or imported into while any tree
\* was being taken or was on its way, or an import into it failed.
LibraryShowsUp ==
  \A l \in LibraryIds :
    l \in Libraries ~> l \in Ids(rows) \/ l \notin Libraries \/ l \in outdated \/ dead

\* The rows of the tree view.
TreeIsSound == TypeOK /\ OneRowEach /\ TreeIsTrueAtRest
=============================================================================
