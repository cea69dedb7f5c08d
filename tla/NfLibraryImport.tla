--------------------------- MODULE NfLibraryImport ---------------------------
(***************************************************************************)
(* The photo libraries: what NfLibraryManager and NfLibrary keep in the    *)
(* database, and the tasks that import folders into it.                    *)
(*                                                                         *)
(* Libraries share folders: a photo belongs to its folder, and a library   *)
(* shows the photos of the folders it is associated with.  One action is   *)
(* one NfLibraryDatabase::Transaction, or one step of an import between    *)
(* two of them.  Transactions are atomic, foreign keys are enforced and    *)
(* cascade, AUTOINCREMENT never gives an id twice: that is SQLite's part.  *)
(* The tasks run in NfTaskService, on the threads of the background pool.  *)
(* They are not cancelled: the only cancelAll of the background scheduler  *)
(* is in its destructor, when the pool is gone.                            *)
(*                                                                         *)
(* The directories on disk do not change.  The process may die at any time *)
(* and is started again; the database survives.                            *)
(***************************************************************************)
EXTENDS Integers, FiniteSets

CONSTANTS Tasks,       \* ids of the import tasks there may be
          LibraryIds,  \* ids the libraries table may give out
          Paths,       \* directories
          Below,       \* Below[d]: the directories below d, at any depth
          PhotosIn,    \* PhotosIn[d]: the photos in d itself
          NoPath,      \* no directory
          PoolSize     \* threads of the background pool

Photos == UNION {PhotosIn[d] : d \in Paths}

ASSUME ImportAssumption ==
  /\ Tasks \subseteq Nat /\ 1 \in LibraryIds /\ LibraryIds \subseteq Nat \ {0}
  /\ NoPath \notin Paths
  /\ Below \in [Paths -> SUBSET Paths]
  /\ \A d \in Paths : d \notin Below[d] /\ \A e \in Below[d] : Below[e] \subseteq Below[d]
  /\ DOMAIN PhotosIn = Paths
  /\ PoolSize \in Nat \ {0}

Immediate == 10
Priorities == {Immediate}

VARIABLES
  phase, priority, cancelled,  \* the task service
  libraries,       \* rows of libraries
  usedIds,         \* sqlite_sequence of libraries
  folders,         \* rows of folders
  libraryFolders,  \* rows of library_folders
  images,          \* rows of images: <<folder, photo>>
  importPath,      \* NfLibraryFolderImportTask::m_path
  importLibrary,   \* id of NfLibraryFolderImportTask::m_library
  step,            \* where a task is in execute
  directory,       \* the directory a task is at
  dirsLeft,        \* directories its iterator has not yielded
  photosLeft,      \* photos the iterator of directory has not yielded
  interrupted      \* history: tasks that left something out

serviceVars == <<phase, priority, cancelled>>
dbVars == <<libraries, usedIds, folders, libraryFolders, images>>
paramVars == <<importPath, importLibrary>>
scanVars == <<directory, dirsLeft, photosLeft>>
vars == <<serviceVars, dbVars, paramVars, step, scanVars, interrupted>>

Service == INSTANCE NfTaskService

Steps == {"start", "add", "photos", "next", "check", "Success", "Failed"}

Tree(d) == {d} \union Below[d]

\* The photos a library shows.
Shown(l) == {i \in images : <<l, i[1]>> \in libraryFolders}

-----------------------------------------------------------------------------
Init ==
  /\ Service!Init
  /\ libraries = {1} /\ usedIds = {1} \* "Default Library"
  /\ folders = {} /\ libraryFolders = {} /\ images = {}
  /\ importPath = [t \in Tasks |-> NoPath]
  /\ importLibrary = [t \in Tasks |-> 0]
  /\ step = [t \in Tasks |-> "start"]
  /\ directory = [t \in Tasks |-> NoPath]
  /\ dirsLeft = [t \in Tasks |-> {}]
  /\ photosLeft = [t \in Tasks |-> {}]
  /\ interrupted = {}

-----------------------------------------------------------------------------
(* The GUI thread.                                                         *)

\* addLibrary of a new name.
AddLibrary(l) ==
  /\ l \in LibraryIds \ usedIds /\ \A k \in LibraryIds \ usedIds : l <= k
  /\ libraries' = libraries \union {l}
  /\ usedIds' = usedIds \union {l}
  /\ UNCHANGED <<serviceVars, folders, libraryFolders, images, paramVars, step,
                 scanVars, interrupted>>

\* Mutant: all folders of the library go, also those another one has.
RemoveLibraryWithFolders(l) ==
  /\ l \in libraries
  /\ libraries' = libraries \ {l}
  /\ folders' = {d \in folders : <<l, d>> \notin libraryFolders}
  /\ libraryFolders' = {m \in libraryFolders : m[1] # l /\ m[2] \in folders'}
  /\ images' = {i \in images : i[1] \in folders'}
  /\ UNCHANGED <<serviceVars, usedIds, paramVars, step, scanVars, interrupted>>

\* removeLibrary: its memberships cascade, then folders no library has are
\* deleted, and their images cascade.
RemoveLibrary(l) ==
  /\ l \in libraries
  /\ libraries' = libraries \ {l}
  /\ libraryFolders' = {m \in libraryFolders : m[1] # l}
  /\ folders' = {d \in folders : \E m \in libraryFolders' : m[2] = d}
  /\ images' = {i \in images : i[1] \in folders'}
  /\ UNCHANGED <<serviceVars, usedIds, paramVars, step, scanVars, interrupted>>

\* importPath, for a library that exists.
ImportPath(t, d, l) ==
  /\ phase[t] = "new" /\ \A u \in Service!InPhase("new") : t <= u
  /\ l \in libraries
  /\ Service!Submit(t, Immediate)
  /\ importPath' = [importPath EXCEPT ![t] = d]
  /\ importLibrary' = [importLibrary EXCEPT ![t] = l]
  /\ UNCHANGED <<dbVars, step, scanVars, interrupted>>

-----------------------------------------------------------------------------
(* The worker threads: execute and importPhotosFromDirectory.              *)

StartTask(t) ==
  /\ Cardinality(Service!Active) < PoolSize
  /\ Service!Start(t)
  /\ UNCHANGED <<dbVars, paramVars, step, scanVars, interrupted>>

At(t, s) == phase[t] = "running" /\ step[t] = s
Go(t, s) == step' = [step EXCEPT ![t] = s]

\* Mutant: a folder any library has counts.
FolderExistsAnywhere(l, d) == d \in folders

\* folderExists
FolderExists(l, d) == <<l, d>> \in libraryFolders

\* The path of the import: if the library has it, all below it is skipped.
CheckPath(t) ==
  /\ At(t, "start")
  /\ IF FolderExists(importLibrary[t], importPath[t])
     THEN Go(t, "Success") /\ UNCHANGED scanVars
     ELSE /\ Go(t, "add")
          /\ directory' = [directory EXCEPT ![t] = importPath[t]]
          /\ dirsLeft' = [dirsLeft EXCEPT ![t] = Below[importPath[t]]]
          /\ UNCHANGED photosLeft
  /\ UNCHANGED <<serviceVars, dbVars, paramVars, interrupted>>

\* addFolder
StoreFolder(l, d) ==
  /\ folders' = folders \union {d}
  /\ libraryFolders' = libraryFolders \union {<<l, d>>}

\* addImage: one row for each file of a folder, whoever imports it.
StoreImage(d, p) == images' = images \union {<<d, p>>}

\* Transaction: what is not committed is rolled back.  Without its library
\* (a foreign key) a folder is not stored, and nothing that goes with it.
Transaction(l, Changes) ==
  IF l \in libraries THEN Changes ELSE UNCHANGED <<folders, libraryFolders, images>>

\* NfLibrary::addFolder, whose failure the import does not see.
AddFolder(t) ==
  /\ At(t, "add")
  /\ \/ Transaction(importLibrary[t],
                    StoreFolder(importLibrary[t], directory[t]) /\ UNCHANGED images)
     \/ UNCHANGED <<folders, libraryFolders, images>>  \* a database error
  /\ Go(t, "photos")
  /\ photosLeft' = [photosLeft EXCEPT ![t] = PhotosIn[directory[t]]]
  /\ UNCHANGED <<serviceVars, libraries, usedIds, paramVars, directory, dirsLeft,
                 interrupted>>

\* NfLibrary::addPhoto of the next photo, folder and image in one transaction.
AddPhoto(t) ==
  /\ At(t, "photos")
  /\ \E p \in photosLeft[t] :
       /\ Transaction(importLibrary[t],
                      /\ StoreFolder(importLibrary[t], directory[t])
                      /\ StoreImage(directory[t], p))
       /\ photosLeft' = [photosLeft EXCEPT ![t] = @ \ {p}]
  /\ UNCHANGED <<serviceVars, libraries, usedIds, paramVars, step, directory,
                 dirsLeft, interrupted>>

\* The next photo cannot be read or stored: the import goes on without it.
SkipPhoto(t) ==
  /\ At(t, "photos")
  /\ \E p \in photosLeft[t] :
       photosLeft' = [photosLeft EXCEPT ![t] = @ \ {p}]
  /\ interrupted' = interrupted \union {t}
  /\ UNCHANGED <<serviceVars, dbVars, paramVars, step, directory, dirsLeft>>

\* Mutant: a photo that was stored ends the directory.
EndDirectoryEarly(t) ==
  /\ At(t, "photos")
  /\ Go(t, "next")
  /\ UNCHANGED <<serviceVars, dbVars, paramVars, scanVars, interrupted>>

\* The iterator has no more photos of the directory.
EndDirectory(t) ==
  /\ At(t, "photos")
  /\ photosLeft[t] = {}
  /\ Go(t, "next")
  /\ UNCHANGED <<serviceVars, dbVars, paramVars, scanVars, interrupted>>

\* The loop of execute turns to the next directory below, one only after the
\* directories it is in ...
NextDirectory(t) ==
  /\ At(t, "next")
  /\ \E d \in dirsLeft[t] :
       /\ \A e \in dirsLeft[t] : d \notin Below[e]
       /\ directory' = [directory EXCEPT ![t] = d]
       /\ dirsLeft' = [dirsLeft EXCEPT ![t] = @ \ {d}]
  /\ Go(t, "check")
  /\ UNCHANGED <<serviceVars, dbVars, paramVars, photosLeft, interrupted>>

\* ... imports it unless the library has it ...
CheckDirectory(t) ==
  /\ At(t, "check")
  /\ Go(t, IF FolderExists(importLibrary[t], directory[t]) THEN "next" ELSE "add")
  /\ UNCHANGED <<serviceVars, dbVars, paramVars, scanVars, interrupted>>

\* ... and ends when there is none.
EndImport(t) ==
  /\ At(t, "next")
  /\ dirsLeft[t] = {}
  /\ Go(t, "Success")
  /\ UNCHANGED <<serviceVars, dbVars, paramVars, scanVars, interrupted>>

\* An iterator fails: that of the directories, at its start or later, or that
\* of the photos in one.
FailImport(t) ==
  /\ \/ At(t, "start") /\ ~ FolderExists(importLibrary[t], importPath[t])
     \/ At(t, "photos") \/ At(t, "next")
  /\ Go(t, "Failed")
  /\ interrupted' = interrupted \union {t}
  /\ UNCHANGED <<serviceVars, dbVars, paramVars, scanVars>>

\* notifyCompletion: the UI is told to load the trees again.
ReportImport(t) ==
  /\ step[t] \in {"Success", "Failed"}
  /\ Service!Report(t)
  /\ UNCHANGED <<dbVars, paramVars, step, scanVars, interrupted>>

FinalizeTask(t) ==
  /\ Service!Finalize(t)
  /\ UNCHANGED <<dbVars, paramVars, step, scanVars, interrupted>>

WorkerStep(t) ==
  \/ CheckPath(t) \/ AddFolder(t) \/ AddPhoto(t) \/ SkipPhoto(t) \/ EndDirectory(t)
  \/ NextDirectory(t) \/ CheckDirectory(t) \/ EndImport(t) \/ FailImport(t)
  \/ ReportImport(t) \/ FinalizeTask(t)

\* The process ends, with tasks queued or running, and is started again.
Crash ==
  /\ Service!InPhase("pending") \union Service!Active # {}
  /\ phase' = [t \in Tasks |-> IF phase[t] \in {"new", "finalized"}
                               THEN phase[t] ELSE "discarded"]
  /\ interrupted' = interrupted \union {t \in Service!InPhase("running") : step[t] # "Success"}
  /\ UNCHANGED <<priority, cancelled, dbVars, paramVars, step, scanVars>>

-----------------------------------------------------------------------------
Next ==
  \/ \E l \in LibraryIds : AddLibrary(l) \/ RemoveLibrary(l)
  \/ \E t \in Tasks, d \in Paths, l \in LibraryIds : ImportPath(t, d, l)
  \/ \E t \in Tasks : StartTask(t) \/ WorkerStep(t)
  \/ Crash

Spec == Init /\ [][Next]_vars

\* The worker threads run and take what is queued.
Fairness ==
  /\ \A t \in Tasks : WF_vars(WorkerStep(t))
  /\ WF_vars(\E t \in Tasks : StartTask(t))

FairSpec == Spec /\ Fairness

-----------------------------------------------------------------------------
(* Properties.                                                             *)

\* Every variable keeps its type.
TypeOK ==
  /\ Service!TypeOK
  /\ libraries \subseteq usedIds /\ usedIds \subseteq LibraryIds
  /\ folders \subseteq Paths
  /\ libraryFolders \subseteq LibraryIds \X Paths
  /\ images \subseteq Paths \X Photos
  /\ importPath \in [Tasks -> Paths \union {NoPath}]
  /\ importLibrary \in [Tasks -> LibraryIds \union {0}]
  /\ \A t \in Tasks : phase[t] = "new" <=> importLibrary[t] = 0
  /\ step \in [Tasks -> Steps]
  /\ directory \in [Tasks -> Paths \union {NoPath}]
  /\ dirsLeft \in [Tasks -> SUBSET Paths]
  /\ photosLeft \in [Tasks -> SUBSET Photos]
  /\ interrupted \subseteq Tasks

\* Nothing outlives its owner, although imports go on while their library is
\* removed: every association has its library and its folder, every folder a
\* library, every photo its folder.
NoOrphans ==
  /\ \A m \in libraryFolders : m[1] \in libraries /\ m[2] \in folders
  /\ \A d \in folders : \E m \in libraryFolders : m[2] = d
  /\ \A i \in images : i[1] \in folders

\* A folder a library has is whole, or an import is still at it, or one that
\* was to import it was interrupted or left a photo out.  ("Folder already
\* exists, skip" rests on the first case.)
FolderWholeOrBusy ==
  \A m \in libraryFolders :
    \/ \A p \in PhotosIn[m[2]] : <<m[2], p>> \in images
    \/ \E t \in Tasks :
         /\ importLibrary[t] = m[1]
         /\ \/ At(t, "photos") /\ directory[t] = m[2]
            \/ t \in interrupted /\ m[2] \in Tree(importPath[t])

\* The photos a library shows stay as long as the library does, whatever is
\* removed and imported elsewhere.
PhotosStay ==
  [][\A l \in libraries \intersect libraries' : Shown(l) \subseteq Shown(l)']_vars

\* The photos of path d that library l should show.
PhotosBelow(d) == {i \in Tree(d) \X Photos : i[2] \in PhotosIn[i[1]]}

\* What the user imports shows up whole, also when imports of overlapping
\* paths skip each other's folders, unless an import of some of it into the
\* same library was interrupted, the process died, or the library is gone.
ImportShowsUp ==
  \A t \in Tasks :
    phase[t] = "pending" ~>
      \/ phase[t] = "discarded" \/ importLibrary[t] \notin libraries
      \/ \E u \in interrupted :
           /\ importLibrary[u] = importLibrary[t]
           /\ Tree(importPath[u]) \intersect Tree(importPath[t]) # {}
      \/ PhotosBelow(importPath[t]) \subseteq Shown(importLibrary[t])

\* The tables, after each transaction.
DatabaseIsSound == TypeOK /\ NoOrphans /\ FolderWholeOrBusy
=============================================================================
