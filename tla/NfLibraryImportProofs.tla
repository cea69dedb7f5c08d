----------------------- MODULE NfLibraryImportProofs -----------------------
(***************************************************************************)
(* Proofs about NfLibraryImport and NfLibraryQueries for all trees of      *)
(* directories, all photos in them with all they say of themselves, and    *)
(* any number of libraries, imports and threads: the tables are sound      *)
(* after each transaction, no library loses a photo through what is done   *)
(* to another, and the trees lead to the photos.                           *)
(***************************************************************************)
EXTENDS NfLibraryQueries, FiniteSetTheorems, WellFoundedInduction, TLAPS

-----------------------------------------------------------------------------
(* The inductive invariant.                                                *)

\* An import stays inside of the path it was given, and its library's id is
\* one that was given out, so no later library gets it.
ImportInBounds(t) ==
  /\ t \in interrupted => phase[t] # "new"
  /\ phase[t] # "new" => importLibrary[t] \in usedIds /\ importPath[t] \in Paths
  /\ phase[t] \in {"new", "pending"} => step[t] = "start"
  /\ step[t] \in {"add", "photos", "next", "check"} =>
       /\ directory[t] \in Tree(importPath[t])
       /\ dirsLeft[t] \subseteq Tree(importPath[t])

Imports == \A t \in Tasks : ImportInBounds(t)

\* Of the directory an import is at, each photo it is through with is stored,
\* and the folder is its library's, as long as there is the library.
StoredSoFar(t) ==
  At(t, "photos") /\ importLibrary[t] \in libraries /\ t \notin interrupted =>
    \A p \in PhotosIn[directory[t]] \ photosLeft[t] :
      /\ <<directory[t], p>> \in images
      /\ <<importLibrary[t], directory[t]>> \in libraryFolders

PhotosStored == \A t \in Tasks : StoredSoFar(t)

IInv == TypeOK /\ NoOrphans /\ Imports /\ PhotosStored /\ FolderWholeOrBusy

-----------------------------------------------------------------------------
(* Lemmas about the steps.                                                 *)

\* A step of an import is one of t's, which has started; it adds to the tables
\* of folders, associations and images, and nothing else of what others see.
LEMMA WorkerMoves ==
  ASSUME TypeOK, NEW t \in Tasks, WorkerStep(t)
  PROVE  /\ UNCHANGED <<libraries, usedIds, importPath, importLibrary, priority, cancelled>>
         /\ phase' \in [Tasks -> Service!Phases]
         /\ phase[t] \in {"running", "reported"}
         /\ phase'[t] \in {"running", "reported", "finalized"}
         /\ step' \in [Tasks -> Steps]
         /\ \A u \in Tasks : u # t => /\ phase'[u] = phase[u] /\ step'[u] = step[u]
                                      /\ directory'[u] = directory[u]
                                      /\ dirsLeft'[u] = dirsLeft[u]
                                      /\ photosLeft'[u] = photosLeft[u]
                                      /\ u \in interrupted' <=> u \in interrupted
         /\ interrupted \subseteq interrupted'
<1> USE DEF TypeOK, Service!TypeOK, Service!Phases, Service!Move, Steps, At, Go,
            serviceVars, dbVars, paramVars, scanVars
<1>1. CASE CheckPath(t)       BY <1>1 DEF CheckPath
<1>2. CASE AddFolder(t)       BY <1>2 DEF AddFolder
<1>3. CASE AddPhoto(t)        BY <1>3 DEF AddPhoto
<1>4. CASE SkipPhoto(t)       BY <1>4 DEF SkipPhoto
<1>5. CASE EndDirectory(t)    BY <1>5 DEF EndDirectory
<1>6. CASE NextDirectory(t)   BY <1>6 DEF NextDirectory
<1>7. CASE CheckDirectory(t)  BY <1>7 DEF CheckDirectory
<1>8. CASE EndImport(t)       BY <1>8 DEF EndImport
<1>9. CASE FailImport(t)      BY <1>9 DEF FailImport
<1>10. CASE ReportImport(t)   BY <1>10 DEF ReportImport, Service!Report
<1>11. CASE FinalizeTask(t)   BY <1>11 DEF FinalizeTask, Service!Finalize
<1>12. QED
  BY <1>1, <1>2, <1>3, <1>4, <1>5, <1>6, <1>7, <1>8, <1>9, <1>10, <1>11
     DEF WorkerStep

\* What a step of an import does to the tables: nothing, or it stores the
\* folder it is at, alone or with a photo of that folder.
LEMMA WorkerStores ==
  ASSUME TypeOK, NEW t \in Tasks, WorkerStep(t)
  PROVE  \/ UNCHANGED <<folders, libraryFolders, images>>
         \/ /\ At(t, "add") /\ importLibrary[t] \in libraries
            /\ StoreFolder(importLibrary[t], directory[t]) /\ UNCHANGED images
            /\ AddFolder(t)
         \/ /\ At(t, "photos") /\ importLibrary[t] \in libraries
            /\ StoreFolder(importLibrary[t], directory[t])
            /\ \E p \in photosLeft[t] : StoreImage(directory[t], p)
            /\ AddPhoto(t)
<1> USE DEF dbVars
<1>1. CASE CheckPath(t)       BY <1>1 DEF CheckPath
<1>2. CASE AddFolder(t)       BY <1>2 DEF AddFolder, Transaction
<1>3. CASE AddPhoto(t)        BY <1>3 DEF AddPhoto, Transaction
<1>4. CASE SkipPhoto(t)       BY <1>4 DEF SkipPhoto
<1>5. CASE EndDirectory(t)    BY <1>5 DEF EndDirectory
<1>6. CASE NextDirectory(t)   BY <1>6 DEF NextDirectory
<1>7. CASE CheckDirectory(t)  BY <1>7 DEF CheckDirectory
<1>8. CASE EndImport(t)       BY <1>8 DEF EndImport
<1>9. CASE FailImport(t)      BY <1>9 DEF FailImport
<1>10. CASE ReportImport(t)   BY <1>10 DEF ReportImport
<1>11. CASE FinalizeTask(t)   BY <1>11 DEF FinalizeTask
<1>12. QED
  BY <1>1, <1>2, <1>3, <1>4, <1>5, <1>6, <1>7, <1>8, <1>9, <1>10, <1>11
     DEF WorkerStep

\* The tables only grow while imports work, by rows of t's library.
LEMMA WorkerOnlyAdds ==
  ASSUME TypeOK, NEW t \in Tasks, WorkerStep(t)
  PROVE  /\ folders \subseteq folders' /\ libraryFolders \subseteq libraryFolders'
         /\ images \subseteq images'
BY WorkerStores DEF StoreFolder, StoreImage

-----------------------------------------------------------------------------
(* Each part of the invariant.                                             *)

LEMMA TypeInductive ==
  /\ Init => TypeOK
  /\ TypeOK /\ Imports /\ [Next]_vars => TypeOK'
<1> USE ImportAssumption
<1>1. Init => TypeOK
  BY DEF Init, Service!Init, TypeOK, Service!TypeOK, Service!Phases, Steps
<1>2. ASSUME TypeOK, Imports, [Next]_vars
      PROVE  TypeOK'
  <2> USE <1>2
  <2>1. CASE UNCHANGED vars
    BY <2>1 DEF vars, serviceVars, dbVars, paramVars, scanVars, TypeOK, Service!TypeOK
  <2>2. ASSUME NEW l \in LibraryIds, AddLibrary(l)
        PROVE  TypeOK'
    BY <2>2 DEF AddLibrary, serviceVars, paramVars, scanVars, TypeOK, Service!TypeOK
  <2>3. ASSUME NEW l \in LibraryIds, RemoveLibrary(l)
        PROVE  TypeOK'
    BY <2>3 DEF RemoveLibrary, serviceVars, paramVars, scanVars, TypeOK, Service!TypeOK
  <2>4. ASSUME NEW t \in Tasks, NEW d \in Paths, NEW l \in LibraryIds, ImportPath(t, d, l)
        PROVE  TypeOK'
    BY <2>4 DEF ImportPath, Service!Submit, Service!Move, Service!Phases, dbVars, scanVars,
                Immediate, Priorities, TypeOK, Service!TypeOK
  <2>5. ASSUME NEW t \in Tasks, StartTask(t)
        PROVE  TypeOK'
    BY <2>5 DEF StartTask, Service!Start, Service!Move, Service!Phases, dbVars, paramVars,
                scanVars, TypeOK, Service!TypeOK
  <2>6. ASSUME NEW t \in Tasks, WorkerStep(t)
        PROVE  TypeOK'
    <3> USE <2>6
    <3>1. /\ Service!TypeOK' /\ step' \in [Tasks -> Steps]
          /\ UNCHANGED <<libraries, usedIds, importPath, importLibrary>>
          /\ \A u \in Tasks : phase'[u] = "new" <=> phase[u] = "new"
      BY WorkerMoves DEF TypeOK, Service!TypeOK
    <3>2. step[t] \in {"add", "photos", "next", "check"} => directory[t] \in Paths
      BY WorkerMoves DEF Imports, ImportInBounds, Tree
    <3>3. /\ directory' \in [Tasks -> Paths \union {NoPath}]
          /\ dirsLeft' \in [Tasks -> SUBSET Paths]
          /\ photosLeft' \in [Tasks -> SUBSET Photos]
          /\ interrupted' \subseteq Tasks
      <4> USE DEF TypeOK, At, scanVars
      <4>1. CASE CheckPath(t)       BY <4>1 DEF CheckPath, Imports, ImportInBounds
      <4>2. CASE AddFolder(t)       BY <3>2, <4>2 DEF AddFolder, Photos
      <4>3. CASE AddPhoto(t)        BY <4>3 DEF AddPhoto
      <4>4. CASE SkipPhoto(t)       BY <4>4 DEF SkipPhoto
      <4>5. CASE EndDirectory(t)    BY <4>5 DEF EndDirectory
      <4>6. CASE NextDirectory(t)   BY <4>6 DEF NextDirectory
      <4>7. CASE CheckDirectory(t)  BY <4>7 DEF CheckDirectory
      <4>8. CASE EndImport(t)       BY <4>8 DEF EndImport
      <4>9. CASE FailImport(t)      BY <4>9 DEF FailImport
      <4>10. CASE ReportImport(t)   BY <4>10 DEF ReportImport
      <4>11. CASE FinalizeTask(t)   BY <4>11 DEF FinalizeTask
      <4>12. QED
        BY <4>1, <4>2, <4>3, <4>4, <4>5, <4>6, <4>7, <4>8, <4>9, <4>10, <4>11
           DEF WorkerStep
    <3>4. /\ folders' \subseteq Paths
          /\ libraryFolders' \subseteq LibraryIds \X Paths
          /\ images' \subseteq Paths \X Photos
      BY <3>2, WorkerStores DEF TypeOK, StoreFolder, StoreImage, At
    <3>5. QED
      BY <3>1, <3>3, <3>4 DEF TypeOK
  <2>7. CASE Crash
    BY <2>7 DEF Crash, Service!InPhase, Service!Active, Service!Phases, dbVars, paramVars,
                scanVars, TypeOK, Service!TypeOK
  <2>8. QED
    BY <2>1, <2>2, <2>3, <2>4, <2>5, <2>6, <2>7 DEF Next
<1>3. QED
  BY <1>1, <1>2

\* Nothing outlives its owner: a removal takes what it orphans with it, and an
\* import stores a folder for a library there is, and a photo with its folder.
LEMMA OrphansInductive ==
  /\ Init => NoOrphans
  /\ TypeOK /\ NoOrphans /\ [Next]_vars => NoOrphans'
<1>1. Init => NoOrphans
  BY DEF Init, NoOrphans
<1>2. ASSUME TypeOK, NoOrphans, [Next]_vars
      PROVE  NoOrphans'
  <2> USE <1>2
  <2>1. CASE UNCHANGED <<libraries, folders, libraryFolders, images>>
    BY <2>1 DEF NoOrphans
  <2>2. ASSUME NEW l \in LibraryIds, AddLibrary(l)
        PROVE  NoOrphans'
    BY <2>2 DEF AddLibrary, NoOrphans
  <2>3. ASSUME NEW l \in LibraryIds, RemoveLibrary(l)
        PROVE  NoOrphans'
    BY <2>3 DEF RemoveLibrary, NoOrphans
  <2>4. ASSUME NEW t \in Tasks, WorkerStep(t)
        PROVE  NoOrphans'
    <3>1. libraries' = libraries
      BY <2>4, WorkerMoves
    <3>2. CASE UNCHANGED <<folders, libraryFolders, images>>
      BY <2>1, <3>1, <3>2
    <3>3. ASSUME importLibrary[t] \in libraries,
                 StoreFolder(importLibrary[t], directory[t]),
                 UNCHANGED images \/ \E p \in photosLeft[t] : StoreImage(directory[t], p)
          PROVE  NoOrphans'
      <4> DEFINE l == importLibrary[t]
                 d == directory[t]
      <4>1. /\ folders' = folders \union {d}
            /\ libraryFolders' = libraryFolders \union {<<l, d>>}
        BY <3>3 DEF StoreFolder
      <4>2. \A i \in images' : i \in images \/ i[1] = d
        BY <3>3 DEF StoreImage
      <4>3. l \in libraries'
        BY <3>1, <3>3
      <4> HIDE DEF l, d
      <4>4. \A m \in libraryFolders' : m[1] \in libraries' /\ m[2] \in folders'
        BY <3>1, <4>1, <4>3 DEF NoOrphans
      <4>5. \A f \in folders' : \E m \in libraryFolders' : m[2] = f
        <5>1. <<l, d>> \in libraryFolders' /\ <<l, d>>[2] = d
          BY <4>1
        <5>2. QED
          BY <4>1, <5>1 DEF NoOrphans
      <4>6. \A i \in images' : i[1] \in folders'
        BY <4>1, <4>2 DEF NoOrphans
      <4>7. QED
        BY <4>4, <4>5, <4>6 DEF NoOrphans
    <3>4. QED
      BY <2>4, <3>2, <3>3, WorkerStores
  <2>5. QED
    BY <2>1, <2>2, <2>3, <2>4
       DEF Next, vars, dbVars, ImportPath, StartTask, Crash
<1>3. QED
  BY <1>1, <1>2

\* An import keeps to its path, and its library's id was given out.
LEMMA ImportsInductive ==
  /\ Init => Imports
  /\ TypeOK /\ Imports /\ [Next]_vars => Imports'
<1> USE ImportAssumption
<1>1. Init => Imports
  BY DEF Init, Service!Init, Imports, ImportInBounds
<1>2. ASSUME TypeOK, Imports, [Next]_vars
      PROVE  Imports'
  <2> USE <1>2
  <2>1. CASE UNCHANGED vars
    BY <2>1 DEF vars, serviceVars, dbVars, paramVars, scanVars, Imports, ImportInBounds, Tree
  <2>2. ASSUME NEW l \in LibraryIds, AddLibrary(l) \/ RemoveLibrary(l)
        PROVE  Imports'
    BY <2>2 DEF AddLibrary, RemoveLibrary, serviceVars, paramVars, scanVars, Imports,
                ImportInBounds, Tree
  <2>3. ASSUME NEW t \in Tasks, NEW d \in Paths, NEW l \in LibraryIds, ImportPath(t, d, l)
        PROVE  Imports'
    <3>1. /\ UNCHANGED <<usedIds, step, directory, dirsLeft, interrupted>>
          /\ phase[t] = "new" /\ step[t] = "start" /\ l \in usedIds
          /\ phase'[t] = "pending" /\ importPath'[t] = d /\ importLibrary'[t] = l
          /\ \A u \in Tasks \ {t} : /\ phase'[u] = phase[u] /\ importPath'[u] = importPath[u]
                                    /\ importLibrary'[u] = importLibrary[u]
      BY <2>3 DEF ImportPath, Service!Submit, Service!Move, dbVars, scanVars, TypeOK,
                  Imports, ImportInBounds
    <3>2. QED
      BY <3>1 DEF Imports, ImportInBounds, Tree
  <2>4. ASSUME NEW t \in Tasks, StartTask(t)
        PROVE  Imports'
    <3>1. /\ UNCHANGED <<usedIds, step, directory, dirsLeft, interrupted>>
          /\ UNCHANGED <<importPath, importLibrary>>
          /\ phase[t] = "pending" /\ phase'[t] = "running"
          /\ \A u \in Tasks \ {t} : phase'[u] = phase[u]
      BY <2>4 DEF StartTask, Service!Start, Service!Move, dbVars, paramVars, scanVars
    <3>2. QED
      BY <3>1 DEF Imports, ImportInBounds, Tree
  <2>5. ASSUME NEW t \in Tasks, WorkerStep(t)
        PROVE  Imports'
    <3> USE <2>5
    <3>1. phase[t] \notin {"new", "pending"} /\ phase'[t] \notin {"new", "pending"}
      BY WorkerMoves
    <3>2. step'[t] \in {"add", "photos", "next", "check"} =>
            /\ directory'[t] \in Tree(importPath[t])
            /\ dirsLeft'[t] \subseteq Tree(importPath[t])
      <4> USE DEF TypeOK, At, Go, scanVars, Imports, ImportInBounds, Tree
      <4>1. CASE CheckPath(t)       BY <4>1 DEF CheckPath
      <4>2. CASE AddFolder(t)       BY <4>2 DEF AddFolder
      <4>3. CASE AddPhoto(t)        BY <4>3 DEF AddPhoto
      <4>4. CASE SkipPhoto(t)       BY <4>4 DEF SkipPhoto
      <4>5. CASE EndDirectory(t)    BY <4>5 DEF EndDirectory
      <4>6. CASE NextDirectory(t)   BY <4>6 DEF NextDirectory
      <4>7. CASE CheckDirectory(t)  BY <4>7 DEF CheckDirectory
      <4>8. CASE EndImport(t)       BY <4>8 DEF EndImport
      <4>9. CASE FailImport(t)      BY <4>9 DEF FailImport
      <4>10. CASE ReportImport(t)   BY <4>10 DEF ReportImport
      <4>11. CASE FinalizeTask(t)   BY <4>11 DEF FinalizeTask
      <4>12. QED
        BY <4>1, <4>2, <4>3, <4>4, <4>5, <4>6, <4>7, <4>8, <4>9, <4>10, <4>11
           DEF WorkerStep
    <3>3. /\ UNCHANGED <<usedIds, importPath, importLibrary>>
          /\ \A u \in Tasks \ {t} : /\ phase'[u] = phase[u] /\ step'[u] = step[u]
                                    /\ directory'[u] = directory[u]
                                    /\ dirsLeft'[u] = dirsLeft[u]
                                    /\ u \in interrupted' <=> u \in interrupted
      BY WorkerMoves
    <3>4. ASSUME NEW u \in Tasks \ {t}
          PROVE  ImportInBounds(u)'
      BY <3>3 DEF Imports, ImportInBounds, Tree
    <3>5. ImportInBounds(t)'
      BY <3>1, <3>2, <3>3 DEF Imports, ImportInBounds, Tree
    <3>6. QED
      BY <3>4, <3>5 DEF Imports
  <2>6. CASE Crash
    <3>1. /\ UNCHANGED <<usedIds, step, directory, dirsLeft, importPath, importLibrary>>
          /\ \A u \in Tasks : /\ phase'[u] = "new" <=> phase[u] = "new"
                              /\ phase'[u] # "pending"
                              /\ u \in interrupted' => u \in interrupted \/ phase[u] = "running"
      BY <2>6 DEF Crash, Service!InPhase, dbVars, paramVars, scanVars
    <3>2. QED
      BY <3>1 DEF Imports, ImportInBounds, Tree
  <2>7. QED
    BY <2>1, <2>2, <2>3, <2>4, <2>5, <2>6 DEF Next
<1>3. QED
  BY <1>1, <1>2

\* What an import has stored of its directory stays until its library goes:
\* the folder is kept by the association with that library.
LEMMA StoredInductive ==
  /\ Init => PhotosStored
  /\ TypeOK /\ NoOrphans /\ Imports /\ PhotosStored /\ [Next]_vars => PhotosStored'
<1>1. Init => PhotosStored
  BY DEF Init, Service!Init, PhotosStored, StoredSoFar, At
<1>2. ASSUME TypeOK, NoOrphans, Imports, PhotosStored, [Next]_vars
      PROVE  PhotosStored'
  <2> USE <1>2
  <2>1. CASE UNCHANGED vars
    BY <2>1 DEF vars, serviceVars, dbVars, paramVars, scanVars, PhotosStored, StoredSoFar, At
  <2>2. ASSUME NEW l \in LibraryIds, AddLibrary(l)
        PROVE  PhotosStored'
    <3>1. l \notin usedIds
      BY <2>2 DEF AddLibrary
    <3>2. /\ UNCHANGED <<phase, step, directory, photosLeft, importLibrary, images,
                         libraryFolders, interrupted>>
          /\ libraries' = libraries \union {l}
      BY <2>2 DEF AddLibrary, serviceVars, paramVars, scanVars
    <3>3. \A t \in Tasks : At(t, "photos") => importLibrary[t] # l
      BY <3>1 DEF At, Imports, ImportInBounds
    <3>4. QED
      BY <3>2, <3>3 DEF PhotosStored, StoredSoFar, At
  <2>3. ASSUME NEW l \in LibraryIds, RemoveLibrary(l)
        PROVE  PhotosStored'
    <3>1. /\ UNCHANGED <<phase, step, directory, photosLeft, importLibrary, interrupted>>
          /\ libraries' = libraries \ {l}
          /\ libraryFolders' = {m \in libraryFolders : m[1] # l}
          /\ folders' = {d \in folders : \E m \in libraryFolders' : m[2] = d}
          /\ images' = {i \in images : i[1] \in folders'}
      BY <2>3 DEF RemoveLibrary, serviceVars, paramVars, scanVars
    <3>2. ASSUME NEW k \in libraries', NEW d, <<k, d>> \in libraryFolders, d \in folders
          PROVE  <<k, d>> \in libraryFolders' /\ d \in folders'
      BY <3>1, <3>2
    <3>3. ASSUME NEW t \in Tasks, At(t, "photos")', importLibrary'[t] \in libraries',
                 t \notin interrupted', NEW p \in (PhotosIn[directory[t]] \ photosLeft[t])'
          PROVE  /\ <<directory[t], p>> \in images'
                 /\ <<importLibrary[t], directory[t]>> \in libraryFolders'
      <4>1. /\ <<directory[t], p>> \in images
            /\ <<importLibrary[t], directory[t]>> \in libraryFolders
        BY <3>1, <3>3 DEF PhotosStored, StoredSoFar, At
      <4>2. QED
        BY <3>1, <3>2, <3>3, <4>1 DEF NoOrphans
    <3>4. QED
      BY <3>1, <3>3 DEF PhotosStored, StoredSoFar
  <2>4. ASSUME NEW t \in Tasks, NEW d \in Paths, NEW l \in LibraryIds, ImportPath(t, d, l)
        PROVE  PhotosStored'
    <3>1. /\ UNCHANGED <<libraries, images, libraryFolders, step, directory, photosLeft,
                         interrupted>>
          /\ phase'[t] = "pending"
          /\ \A u \in Tasks \ {t} : /\ phase'[u] = phase[u]
                                    /\ importLibrary'[u] = importLibrary[u]
      BY <2>4 DEF ImportPath, Service!Submit, Service!Move, dbVars, scanVars, TypeOK
    <3>2. QED
      BY <3>1 DEF PhotosStored, StoredSoFar, At
  <2>5. ASSUME NEW t \in Tasks, StartTask(t)
        PROVE  PhotosStored'
    <3>1. /\ UNCHANGED <<libraries, images, libraryFolders, step, directory, photosLeft,
                         importLibrary, interrupted>>
          /\ phase[t] = "pending"
          /\ \A u \in Tasks \ {t} : phase'[u] = phase[u]
      BY <2>5 DEF StartTask, Service!Start, Service!Move, dbVars, paramVars, scanVars
    <3>2. step[t] = "start"
      BY <3>1 DEF Imports, ImportInBounds
    <3>3. QED
      BY <3>1, <3>2 DEF PhotosStored, StoredSoFar, At
  <2>6. ASSUME NEW t \in Tasks, WorkerStep(t)
        PROVE  PhotosStored'
    <3> USE <2>6
    <3>1. \A u \in Tasks \ {t} : StoredSoFar(u)'
      BY WorkerMoves, WorkerOnlyAdds DEF PhotosStored, StoredSoFar, At
    <3>2. StoredSoFar(t)'
      <4> USE DEF TypeOK, At, Go, scanVars, dbVars, paramVars, serviceVars, StoredSoFar,
                  PhotosStored
      <4>1. CASE CheckPath(t)       BY <4>1 DEF CheckPath
      <4>2. CASE AddFolder(t)       BY <4>2 DEF AddFolder
      <4>3. CASE AddPhoto(t)
        BY <4>3 DEF AddPhoto, Transaction, StoreFolder, StoreImage
      <4>4. CASE SkipPhoto(t)       BY <4>4 DEF SkipPhoto
      <4>5. CASE EndDirectory(t)    BY <4>5 DEF EndDirectory
      <4>6. CASE NextDirectory(t)   BY <4>6 DEF NextDirectory
      <4>7. CASE CheckDirectory(t)  BY <4>7 DEF CheckDirectory
      <4>8. CASE EndImport(t)       BY <4>8 DEF EndImport
      <4>9. CASE FailImport(t)      BY <4>9 DEF FailImport
      <4>10. CASE ReportImport(t)   BY <4>10 DEF ReportImport
      <4>11. CASE FinalizeTask(t)   BY <4>11 DEF FinalizeTask, Service!Finalize, Service!Move
      <4>12. QED
        BY <4>1, <4>2, <4>3, <4>4, <4>5, <4>6, <4>7, <4>8, <4>9, <4>10, <4>11
           DEF WorkerStep
    <3>3. QED
      BY <3>1, <3>2 DEF PhotosStored
  <2>7. CASE Crash
    BY <2>7 DEF Crash, Service!InPhase, PhotosStored, StoredSoFar, At
  <2>8. QED
    BY <2>1, <2>2, <2>3, <2>4, <2>5, <2>6, <2>7 DEF Next
<1>3. QED
  BY <1>1, <1>2

\* An import leaves a directory with all its photos stored, or it left one out.
LEMMA LeavesWhole ==
  ASSUME TypeOK, NEW t \in Tasks, WorkerStep(t), At(t, "photos")
  PROVE  \/ At(t, "photos")' /\ directory'[t] = directory[t]
         \/ photosLeft[t] = {}
         \/ t \in interrupted'
<1> USE DEF TypeOK, At, Go, Steps, scanVars, serviceVars
<1>1. CASE CheckPath(t)       BY <1>1 DEF CheckPath
<1>2. CASE AddFolder(t)       BY <1>2 DEF AddFolder
<1>3. CASE AddPhoto(t)        BY <1>3 DEF AddPhoto
<1>4. CASE SkipPhoto(t)       BY <1>4 DEF SkipPhoto
<1>5. CASE EndDirectory(t)    BY <1>5 DEF EndDirectory
<1>6. CASE NextDirectory(t)   BY <1>6 DEF NextDirectory
<1>7. CASE CheckDirectory(t)  BY <1>7 DEF CheckDirectory
<1>8. CASE EndImport(t)       BY <1>8 DEF EndImport
<1>9. CASE FailImport(t)      BY <1>9 DEF FailImport
<1>10. CASE ReportImport(t)   BY <1>10 DEF ReportImport
<1>11. CASE FinalizeTask(t)   BY <1>11 DEF FinalizeTask, Service!Finalize
<1>12. QED
  BY <1>1, <1>2, <1>3, <1>4, <1>5, <1>6, <1>7, <1>8, <1>9, <1>10, <1>11
     DEF WorkerStep

\* The two reasons for a folder of a library to be incomplete.
BeingImported(t, m) ==
  /\ importLibrary[t] = m[1]
  /\ \/ At(t, "photos") /\ directory[t] = m[2]
     \/ t \in interrupted /\ m[2] \in Tree(importPath[t])

Whole(m) == \A p \in PhotosIn[m[2]] : <<m[2], p>> \in images

\* An import under way stays under way, or its folder is whole.
LEMMA WorkerLeavesWholeOrBusy ==
  ASSUME TypeOK, NoOrphans, Imports, PhotosStored, NEW t \in Tasks, WorkerStep(t),
         NEW m \in libraryFolders, NEW u \in Tasks, BeingImported(u, m)
  PROVE  BeingImported(u, m)' \/ Whole(m)'
<1>1. CASE u # t
  BY <1>1, WorkerMoves DEF BeingImported, At, Tree
<1>2. CASE u = t /\ t \in interrupted
  BY <1>2, WorkerMoves DEF BeingImported, Tree, Imports, ImportInBounds, At
<1>3. CASE u = t /\ t \notin interrupted
  <2>1. At(t, "photos") /\ directory[t] = m[2] /\ importLibrary[t] = m[1]
    BY <1>3 DEF BeingImported
  <2>2. importLibrary'[t] = m[1] /\ importPath'[t] = importPath[t]
    BY <2>1, WorkerMoves
  <2>3. CASE At(t, "photos")' /\ directory'[t] = directory[t]
    BY <1>3, <2>1, <2>2, <2>3 DEF BeingImported
  <2>4. CASE t \in interrupted'
    BY <1>3, <2>1, <2>2, <2>4 DEF BeingImported, Imports, ImportInBounds, At, Tree
  <2>5. CASE photosLeft[t] = {}
    <3>1. m[1] \in libraries
      BY DEF NoOrphans
    <3>2. \A p \in PhotosIn[m[2]] : <<m[2], p>> \in images
      BY <1>3, <2>1, <2>5, <3>1 DEF PhotosStored, StoredSoFar
    <3>3. QED
      BY <3>2, WorkerOnlyAdds DEF Whole
  <2>6. QED
    BY <2>1, <2>3, <2>4, <2>5, LeavesWhole
<1>4. QED
  BY <1>1, <1>2, <1>3

\* A folder of a library is whole, or there is an import to account for it.
LEMMA WholeInductive ==
  /\ Init => FolderWholeOrBusy
  /\ IInv /\ [Next]_vars => FolderWholeOrBusy'
<1>1. Init => FolderWholeOrBusy
  BY DEF Init, FolderWholeOrBusy
<1>2. FolderWholeOrBusy <=>
        \A m \in libraryFolders : Whole(m) \/ \E t \in Tasks : BeingImported(t, m)
  BY DEF FolderWholeOrBusy, Whole, BeingImported
<1>3. ASSUME IInv, [Next]_vars
      PROVE  \A m \in libraryFolders' : Whole(m)' \/ \E t \in Tasks : BeingImported(t, m)'
  <2> SUFFICES ASSUME NEW m \in libraryFolders'
               PROVE  Whole(m)' \/ \E t \in Tasks : BeingImported(t, m)'
    OBVIOUS
  <2> USE <1>3 DEF IInv
  <2>1. m \in libraryFolders => Whole(m) \/ \E t \in Tasks : BeingImported(t, m)
    BY <1>2
  <2>2. CASE UNCHANGED vars \/ \E l \in LibraryIds : AddLibrary(l)
    BY <2>1, <2>2 DEF vars, AddLibrary, dbVars, paramVars, serviceVars, scanVars, Whole,
                      BeingImported, At, Tree
  <2>3. ASSUME NEW l \in LibraryIds, RemoveLibrary(l)
        PROVE  Whole(m)' \/ \E t \in Tasks : BeingImported(t, m)'
    <3>1. /\ m \in libraryFolders /\ UNCHANGED <<importLibrary, importPath, interrupted>>
          /\ UNCHANGED <<phase, step, directory>>
          /\ m[2] \in folders' /\ images' = {i \in images : i[1] \in folders'}
      BY <2>3 DEF RemoveLibrary, serviceVars, paramVars, scanVars, NoOrphans
    <3>2. QED
      BY <2>1, <3>1 DEF Whole, BeingImported, At, Tree
  <2>4. ASSUME NEW t \in Tasks, NEW d \in Paths, NEW l \in LibraryIds, ImportPath(t, d, l)
        PROVE  Whole(m)' \/ \E u \in Tasks : BeingImported(u, m)'
    <3>1. /\ UNCHANGED <<images, libraryFolders, step, directory, interrupted>>
          /\ phase[t] = "new" /\ t \notin interrupted
          /\ \A u \in Tasks \ {t} : /\ phase'[u] = phase[u]
                                    /\ importPath'[u] = importPath[u]
                                    /\ importLibrary'[u] = importLibrary[u]
      BY <2>4 DEF ImportPath, Service!Submit, Service!Move, dbVars, scanVars, TypeOK,
                  Imports, ImportInBounds
    <3>2. ~ BeingImported(t, m)
      BY <3>1 DEF BeingImported, At
    <3>3. QED
      BY <2>1, <3>1, <3>2 DEF Whole, BeingImported, At, Tree
  <2>5. ASSUME NEW t \in Tasks, StartTask(t)
        PROVE  Whole(m)' \/ \E u \in Tasks : BeingImported(u, m)'
    <3>1. /\ UNCHANGED <<images, libraryFolders, step, directory, interrupted>>
          /\ UNCHANGED <<importPath, importLibrary>>
          /\ \A u \in Tasks : phase[u] = "running" => phase'[u] = "running"
      BY <2>5 DEF StartTask, Service!Start, Service!Move, dbVars, paramVars, scanVars
    <3>2. QED
      BY <2>1, <3>1 DEF Whole, BeingImported, At, Tree
  <2>6. ASSUME NEW t \in Tasks, WorkerStep(t)
        PROVE  Whole(m)' \/ \E u \in Tasks : BeingImported(u, m)'
    <3> USE <2>6
    <3>1. CASE m \in libraryFolders
      <4>1. Whole(m) => Whole(m)'
        BY WorkerOnlyAdds DEF Whole
      <4>2. QED
        BY <2>1, <3>1, <4>1, WorkerLeavesWholeOrBusy
    <3>2. CASE m \notin libraryFolders
      <4>1. /\ m = <<importLibrary[t], directory[t]>>
            /\ AddFolder(t) \/ AddPhoto(t)
        BY <3>2, WorkerStores DEF StoreFolder
      <4>2. At(t, "photos")' /\ directory'[t] = directory[t]
        BY <4>1 DEF AddFolder, AddPhoto, At, Go, serviceVars, TypeOK
      <4>3. importLibrary'[t] = importLibrary[t]
        BY WorkerMoves
      <4>4. QED
        BY <4>1, <4>2, <4>3 DEF BeingImported
    <3>3. QED
      BY <3>1, <3>2
  <2>7. CASE Crash
    <3>1. /\ UNCHANGED <<images, libraryFolders, importPath, importLibrary>>
          /\ \A t \in Tasks :
               /\ At(t, "photos") => t \in interrupted'
               /\ t \in interrupted => t \in interrupted'
      BY <2>7 DEF Crash, Service!InPhase, dbVars, paramVars, At
    <3>2. \A t \in Tasks : BeingImported(t, m) => BeingImported(t, m)'
      BY <3>1 DEF BeingImported, Imports, ImportInBounds, At, Tree
    <3>3. QED
      BY <2>1, <3>1, <3>2 DEF Whole
  <2>8. QED
    BY <2>2, <2>3, <2>4, <2>5, <2>6, <2>7 DEF Next
<1>4. QED
  BY <1>1, <1>3 DEF FolderWholeOrBusy, Whole, BeingImported

-----------------------------------------------------------------------------
(* The theorems.                                                           *)

\* The inductive invariant holds in every reachable state.
THEOREM Invariance == Spec => []IInv
<1>1. Init => IInv
  BY TypeInductive, OrphansInductive, ImportsInductive, StoredInductive, WholeInductive
     DEF IInv
<1>2. IInv /\ [Next]_vars => IInv'
  BY TypeInductive, OrphansInductive, ImportsInductive, StoredInductive, WholeInductive
     DEF IInv
<1>3. QED
  BY <1>1, <1>2, PTL DEF Spec

\* After each transaction the tables are sound: what is removed takes along
\* what it orphans, and a folder a library has is whole, or is accounted for.
THEOREM DatabaseStaysSound == Spec => []DatabaseIsSound
<1>1. IInv => DatabaseIsSound
  BY DEF IInv, DatabaseIsSound
<1>2. QED
  BY <1>1, Invariance, PTL

\* A library that stays keeps the photos it shows, whatever is removed or
\* imported elsewhere: the folders it has are not deleted with another's.
THEOREM LibrariesKeepTheirPhotos == Spec => PhotosStay
<1> DEFINE Stays == \A l \in libraries \intersect libraries' : Shown(l) \subseteq Shown(l)'
<1>1. IInv /\ [Next]_vars => Stays
  <2> SUFFICES ASSUME IInv, [Next]_vars, NEW l \in libraries \intersect libraries',
                      NEW i \in images, <<l, i[1]>> \in libraryFolders
               PROVE  i \in images' /\ <<l, i[1]>> \in libraryFolders'
    BY DEF Shown
  <2> USE DEF IInv
  <2>1. CASE UNCHANGED <<images, libraryFolders>>
    BY <2>1
  <2>2. ASSUME NEW j \in LibraryIds, RemoveLibrary(j)
        PROVE  i \in images' /\ <<l, i[1]>> \in libraryFolders'
    <3>1. l # j
      BY <2>2 DEF RemoveLibrary
    <3>2. <<l, i[1]>> \in libraryFolders'
      BY <2>2, <3>1 DEF RemoveLibrary
    <3>3. i[1] \in folders'
      BY <2>2, <3>2 DEF RemoveLibrary, NoOrphans
    <3>4. QED
      BY <2>2, <3>2, <3>3 DEF RemoveLibrary
  <2>3. ASSUME NEW t \in Tasks, WorkerStep(t)
        PROVE  i \in images' /\ <<l, i[1]>> \in libraryFolders'
    BY <2>3, WorkerOnlyAdds
  <2>4. QED
    BY <2>1, <2>2, <2>3
       DEF Next, vars, dbVars, AddLibrary, ImportPath, StartTask, Crash
<1>2. PhotosStay <=> [][Stays]_vars
  BY DEF PhotosStay
<1> HIDE DEF Stays
<1>3. QED
  BY <1>1, <1>2, Invariance, PTL DEF Spec

-----------------------------------------------------------------------------
(* Queries, as functions of a sound database.                              *)

\* What a query of one library brings up.
LEMMA QueryOfLibrary ==
  ASSUME NEW l \in libraries, NEW x
  PROVE  /\ QueryPhotos(l, <<"Canonical", x>>) = GetImagesByFolderId(l, x)
         /\ QueryPhotos(l, <<"DateTime", x>>) = GetImagesByDate(l, x)
         /\ QueryPhotos(l, <<"Camera", x>>) = GetImagesByCamera(l, x)
         /\ QueryPhotos(l, <<"Lens", x>>) = GetImagesByLens(l, x)
BY DEF QueryPhotos, QueryLibrary

\* A query made from a node of any tree keeps to its library, but for folders.
LEMMA QueriesInside ==
  ASSUME TypeOK, NoOrphans
  PROVE  QueriesStayInside
<1> SUFFICES ASSUME NEW l \in libraries, NEW k \in libraries, NEW q \in NodeQueries(k),
                    NEW i \in QueryPhotos(l, q)
             PROVE  i \in Shown(l) \/ (q[1] = "Canonical" /\ i[1] \in Below[q[2]])
  BY DEF QueriesStayInside
<1>1. q \in UNION {Nodes(k, "DateTime"), Nodes(k, "Canonical"), Nodes(k, "Equipment")}
  BY DEF NodeQueries, Representations
<1>2. \E type \in {"DateTime", "Canonical", "Camera", "Lens"} : \E x : q = <<type, x>>
  BY <1>1 DEF Nodes
<1>3. PICK x : \E type \in {"DateTime", "Canonical", "Camera", "Lens"} : q = <<type, x>>
  BY <1>2
<1>4. CASE q = <<"Canonical", x>>
  <2>1. i \in images /\ i[1] \in FolderTree(l, x)
    BY <1>4, QueryOfLibrary DEF GetImagesByFolderId
  <2>2. <<l, x>> \in libraryFolders /\ i[1] \in {x} \union Below[x]
    BY <2>1 DEF FolderTree, Tree
  <2>3. QED
    BY <1>4, <2>1, <2>2 DEF Shown
<1>5. CASE q = <<"DateTime", x>>
  BY <1>5, QueryOfLibrary DEF GetImagesByDate
<1>6. CASE q = <<"Camera", x>>
  BY <1>6, QueryOfLibrary DEF GetImagesByCamera
<1>7. CASE q = <<"Lens", x>>
  BY <1>7, QueryOfLibrary DEF GetImagesByLens
<1>8. QED
  BY <1>3, <1>4, <1>5, <1>6, <1>7

\* A folder's node finds what is below it, and what the nodes below it find.
LEMMA FolderQueries ==
  ASSUME TypeOK, NoOrphans, NEW l \in libraries, NEW d \in FolderNodes(l)
  PROVE  /\ \A i \in Shown(l) : i \in QueryPhotos(l, <<"Canonical", d>>) <=> i[1] \in Tree(d)
         /\ FolderParent(l, d) # NoPath =>
              GetImagesByFolderId(l, d) \subseteq GetImagesByFolderId(l, FolderParent(l, d))
<1>1. d \in folders /\ d \in Paths /\ <<l, d>> \in libraryFolders
  BY DEF FolderNodes, SourceData, LibraryFolders, TypeOK
<1>2. FolderTree(l, d) = folders \intersect Tree(d)
  BY <1>1 DEF FolderTree
<1>3. \A i \in Shown(l) : i \in QueryPhotos(l, <<"Canonical", d>>) <=> i[1] \in Tree(d)
  BY <1>2, QueryOfLibrary DEF GetImagesByFolderId, Shown, NoOrphans
<1>4. ASSUME FolderParent(l, d) # NoPath
      PROVE  GetImagesByFolderId(l, d) \subseteq GetImagesByFolderId(l, FolderParent(l, d))
  <2> DEFINE e == ParentPath[d]
  <2>1. FolderParent(l, d) = e /\ e \in FolderNodes(l)
    BY <1>4 DEF FolderParent
  <2>2. e \in Paths /\ <<l, e>> \in libraryFolders
    BY <2>1 DEF FolderNodes, SourceData, LibraryFolders, TypeOK
  <2>3. d \in Below[e]
    BY <1>1, <2>2, QueriesAssumption, ImportAssumption
  <2> HIDE DEF e
  <2>4. Tree(d) \subseteq Tree(e)
    BY <2>2, <2>3, ImportAssumption DEF Tree
  <2>5. FolderTree(l, d) \subseteq FolderTree(l, e)
    BY <1>2, <2>2, <2>4 DEF FolderTree
  <2>6. QED
    BY <2>1, <2>5 DEF GetImagesByFolderId
<1>5. QED
  BY <1>3, <1>4

-----------------------------------------------------------------------------
(* Dates.                                                                  *)

\* The multiple of b that a is in is the only one.
LEMMA OneQuotient ==
  ASSUME NEW a \in Int, NEW b \in Nat \ {0}, NEW q \in Int
  PROVE  q * b <= a /\ a < (q + 1) * b <=> q = a \div b
<1> DEFINE r == a \div b
<1>1. r \in Int /\ r * b <= a /\ a < (r + 1) * b
  BY DEF r
<1> HIDE DEF r
<1>2. ASSUME q * b <= a, a < (q + 1) * b, q < r
      PROVE  FALSE
  <2>1. q + 1 <= r
    BY <1>1, <1>2
  <2>2. (q + 1) * b <= r * b
    BY <1>1, <2>1
  <2>3. q * b \in Int /\ r * b \in Int /\ (q + 1) * b \in Int
    BY <1>1
  <2>4. QED
    BY <1>1, <1>2, <2>2, <2>3
<1>3. ASSUME q * b <= a, a < (q + 1) * b, r < q
      PROVE  FALSE
  <2>1. r + 1 <= q
    BY <1>1, <1>3
  <2>2. (r + 1) * b <= q * b
    BY <1>1, <2>1
  <2>3. q * b \in Int /\ r * b \in Int /\ (r + 1) * b \in Int
    BY <1>1
  <2>4. QED
    BY <1>1, <1>3, <2>2, <2>3
<1>4. QED
  BY <1>1, <1>2, <1>3 DEF r

\* Dividing twice is dividing by the product.
LEMMA DividedTwice ==
  \A a \in Int, b, c \in Nat \ {0} : (a \div b) \div c = a \div (b * c)
<1> SUFFICES ASSUME NEW a \in Int, NEW b \in Nat \ {0}, NEW c \in Nat \ {0}
             PROVE  (a \div b) \div c = a \div (b * c)
  OBVIOUS
<1> DEFINE q == a \div b
           r == q \div c
<1>1. b * c \in Nat \ {0}
  OBVIOUS
<1>2. q \in Int /\ q * b <= a /\ a < (q + 1) * b
  BY OneQuotient
<1> HIDE DEF q
<1>3. r \in Int /\ r * c <= q /\ q < (r + 1) * c
  BY <1>2, OneQuotient
<1> HIDE DEF r
<1>4. r * (b * c) <= a
  <2>1. (r * c) * b <= q * b
    BY <1>2, <1>3
  <2>2. (r * c) * b = r * (b * c) /\ (r * c) * b \in Int /\ q * b \in Int
    BY <1>2, <1>3
  <2>3. QED
    BY <1>2, <2>1, <2>2
<1>5. a < (r + 1) * (b * c)
  <2>1. q + 1 <= (r + 1) * c /\ (r + 1) * c \in Int
    BY <1>2, <1>3
  <2>2. (q + 1) * b <= ((r + 1) * c) * b
    BY <1>2, <2>1
  <2>3. ((r + 1) * c) * b = (r + 1) * (b * c) /\ (q + 1) * b \in Int
    BY <1>2, <1>3
  <2>4. QED
    BY <1>2, <1>3, <2>1, <2>2, <2>3
<1>6. r = a \div (b * c)
  BY <1>1, <1>3, <1>4, <1>5, OneQuotient
<1>7. QED
  BY <1>6 DEF q, r

Within(t, range) == range.start <= t /\ t < range.end

LEMMA InDay ==
  ASSUME NEW t \in Int, NEW d \in Int
  PROVE  DayOf(t) \in Int /\ (Within(t, DayRange(d)) <=> d = DayOf(t))
<1>1. DayTicks \in Nat \ {0}
  BY QueriesAssumption
<1>2. d * DayTicks <= t /\ t < (d + 1) * DayTicks <=> d = t \div DayTicks
  BY <1>1, OneQuotient
<1>3. QED
  BY <1>1, <1>2 DEF DayOf, DayRange, Within

\* A month is the days that MonthDays divides to the same number, and that
\* number has its year and its month of the year.
LEMMA InMonth ==
  ASSUME NEW t \in Int, NEW d \in Int
  PROVE  Within(t, MonthRange(MonthOf(d))) <=> d \div MonthDays = DayOf(t) \div MonthDays
<1> DEFINE n == d \div MonthDays
           m == MonthOf(d)
<1>1. DayTicks \in Nat \ {0} /\ MonthDays \in Nat \ {0} /\ YearMonths \in Nat \ {0}
  BY QueriesAssumption
<1>2. n \in Int
  BY <1>1
<1>3. m.year = n \div YearMonths /\ m.month = n % YearMonths
  BY <1>1, DividedTwice DEF MonthOf
<1>4. MonthRange(m) = [start |-> ((m.year * YearMonths + m.month) * MonthDays) * DayTicks,
                       end |-> ((m.year * YearMonths + (m.month + 1)) * MonthDays) * DayTicks]
  BY DEF MonthRange, FirstDay, MonthOf
<1> HIDE DEF n, m
<1>5. m.year \in Int /\ m.month \in Int /\ m.year * YearMonths + m.month = n
  BY <1>1, <1>2, <1>3
<1>6. m.year * YearMonths + (m.month + 1) = n + 1
  BY <1>1, <1>2, <1>5
<1>7. /\ (n * MonthDays) * DayTicks = n * (DayTicks * MonthDays)
      /\ ((n + 1) * MonthDays) * DayTicks = (n + 1) * (DayTicks * MonthDays)
  BY <1>1, <1>2
<1>8. /\ DayTicks * MonthDays \in Nat \ {0}
      /\ (t \div DayTicks) \div MonthDays = t \div (DayTicks * MonthDays)
  <2>1. DayTicks * MonthDays \in Nat \ {0}
    BY <1>1
  <2>2. (t \div DayTicks) \div MonthDays = t \div (DayTicks * MonthDays)
    BY <1>1, DividedTwice
  <2>3. QED
    BY <2>1, <2>2
<1>9. n * (DayTicks * MonthDays) <= t /\ t < (n + 1) * (DayTicks * MonthDays)
        <=> n = t \div (DayTicks * MonthDays)
  BY <1>2, <1>8, OneQuotient
<1>10. Within(t, MonthRange(m)) <=> n = DayOf(t) \div MonthDays
  BY <1>4, <1>5, <1>6, <1>7, <1>8, <1>9 DEF Within, DayOf
<1>11. QED
  BY <1>10 DEF n, m

LEMMA InYear ==
  ASSUME NEW t \in Int, NEW d \in Int
  PROVE  Within(t, YearRange(MonthOf(d).year)) <=> MonthOf(d).year = MonthOf(DayOf(t)).year
<1> DEFINE b == MonthDays * YearMonths
           y == d \div b
<1>1. DayTicks \in Nat \ {0} /\ MonthDays \in Nat \ {0} /\ YearMonths \in Nat \ {0}
  BY QueriesAssumption
<1>2. b \in Nat \ {0} /\ y \in Int
  BY <1>1
<1>3. MonthOf(d).year = y /\ MonthOf(DayOf(t)).year = DayOf(t) \div b
  BY DEF MonthOf
<1>4. YearRange(y) = [start |-> ((y * YearMonths + 0) * MonthDays) * DayTicks,
                      end |-> (((y + 1) * YearMonths + 0) * MonthDays) * DayTicks]
  BY DEF YearRange, FirstDay
<1> HIDE DEF y
<1>5. /\ ((y * YearMonths + 0) * MonthDays) * DayTicks = y * (DayTicks * b)
      /\ (((y + 1) * YearMonths + 0) * MonthDays) * DayTicks = (y + 1) * (DayTicks * b)
  BY <1>1, <1>2
<1> HIDE DEF b
<1>6. /\ DayTicks * b \in Nat \ {0}
      /\ (t \div DayTicks) \div b = t \div (DayTicks * b)
  <2>1. DayTicks * b \in Nat \ {0}
    BY <1>1, <1>2
  <2>2. (t \div DayTicks) \div b = t \div (DayTicks * b)
    BY <1>1, <1>2, DividedTwice
  <2>3. QED
    BY <2>1, <2>2
<1>7. y * (DayTicks * b) <= t /\ t < (y + 1) * (DayTicks * b) <=> y = t \div (DayTicks * b)
  BY <1>2, <1>6, OneQuotient
<1>8. Within(t, YearRange(y)) <=> y = DayOf(t) \div b
  BY <1>4, <1>5, <1>6, <1>7 DEF Within, DayOf
<1>9. QED
  BY <1>3, <1>8

\* Of the nodes of any branch, a time whose day is the same everywhere is in
\* those that its own branch has too.
LEMMA InBranch ==
  ASSUME NEW t \in Int, NEW u \in Int, NEW r \in DateBranch(u), LocalDay(t) = DayOf(t)
  PROVE  Within(t, r) <=> r \in DateBranch(t)
<1> DEFINE d == DayOf(t)
           e == LocalDay(u)
           m == MonthOf(d)
           n == MonthOf(e)
<1>1. d \in Int /\ e \in Int
  BY QueriesAssumption, InDay DEF LocalDay
<1>2. /\ r \in {YearRange(n.year), MonthRange(n), DayRange(e)}
      /\ DateBranch(t) = {YearRange(m.year), MonthRange(m), DayRange(d)}
  BY DEF DateBranch
<1>3. /\ MonthDays \in Nat \ {0} /\ YearMonths \in Nat \ {0}
      /\ d \div MonthDays \in Int /\ e \div MonthDays \in Int
  BY <1>1, QueriesAssumption
<1>4. e \div MonthDays = d \div MonthDays => n = m
  BY <1>1, <1>3, DividedTwice DEF MonthOf
<1>5. Within(t, YearRange(m.year)) /\ Within(t, MonthRange(m)) /\ Within(t, DayRange(d))
  BY <1>1, InYear, InMonth, InDay
<1>6. /\ Within(t, YearRange(n.year)) => n.year = m.year
      /\ Within(t, MonthRange(n)) => n = m
      /\ Within(t, DayRange(e)) => e = d
  BY <1>1, <1>4, InYear, InMonth, InDay
<1> HIDE DEF d, e, m, n
<1>7. QED
  BY <1>2, <1>5, <1>6

\* A photo's date is found under the nodes of its branch and under no other.
LEMMA DateQueries ==
  ASSUME TypeOK, NEW l \in libraries, NEW i \in Shown(l)
  PROVE  /\ \A r \in DateNodes(l) :
              DayIsUtcDay(i) =>
                (i \in QueryPhotos(l, <<"DateTime", r>>) <=> r \in DateBranch(TakenAt[i[2]]))
         /\ ~ DayIsUtcDay(i) =>
              i \notin QueryPhotos(l, <<"DateTime", DayRange(LocalDay(TakenAt[i[2]]))>>)
<1>1. \A j \in Shown(l) : TakenAt[j[2]] \in Int
  BY QueriesAssumption DEF Shown, TypeOK
<1>2. \A x : i \in QueryPhotos(l, <<"DateTime", x>>) <=> Within(TakenAt[i[2]], x)
  BY QueryOfLibrary DEF GetImagesByDate, Within
<1>3. ASSUME NEW r \in DateNodes(l), DayIsUtcDay(i)
      PROVE  Within(TakenAt[i[2]], r) <=> r \in DateBranch(TakenAt[i[2]])
  <2>1. PICK j \in Shown(l) : r \in DateBranch(TakenAt[j[2]])
    BY DEF DateNodes, SourceData, Times
  <2>2. QED
    BY <1>1, <1>3, <2>1, InBranch DEF DayIsUtcDay
<1>4. ASSUME ~ DayIsUtcDay(i)
      PROVE  ~ Within(TakenAt[i[2]], DayRange(LocalDay(TakenAt[i[2]])))
  <2> DEFINE t == TakenAt[i[2]]
  <2>1. t \in Int /\ LocalDay(t) \in Int
    BY <1>1, QueriesAssumption, InDay DEF LocalDay
  <2>2. QED
    BY <1>4, <2>1, InDay DEF DayIsUtcDay
<1>5. QED
  BY <1>2, <1>3, <1>4

-----------------------------------------------------------------------------
(* Cameras and lenses.                                                     *)

\* Of finitely many rows one comes last in the order of their names.
LEMMA OneIsLast ==
  ASSUME NEW C, IsFiniteSet(C), C # {}, \A e \in C : NameRank[e] \in Int
  PROVE  \E e \in C : \A f \in C : NameRank[f] <= NameRank[e]
<1> DEFINE after(e) == {f \in C : NameRank[f] >= NameRank[e]}
           S == {after(e) : e \in C}
<1>1. S \subseteq FiniteSubsetsOf(C) /\ S # {}
  <2>1. ASSUME NEW e \in C
        PROVE  after(e) \in SUBSET C /\ IsFiniteSet(after(e))
    <3>1. after(e) \in SUBSET C
      OBVIOUS
    <3> HIDE DEF after
    <3>2. QED
      BY <3>1, FS_Subset
  <2> HIDE DEF after
  <2>2. QED
    BY <2>1 DEF FiniteSubsetsOf
<1>2. PICK x \in S : \A y \in S : <<y, x>> \notin StrictSubsetOrdering(C)
  BY <1>1, FS_StrictSubsetOrderingWellFounded, WFMin
<1>3. PICK e \in C : x = after(e)
  OBVIOUS
<1>4. ASSUME NEW f \in C, NameRank[f] > NameRank[e]
      PROVE  FALSE
  <2>1. e \in after(e) /\ e \notin after(f) /\ after(f) \subseteq after(e)
    BY <1>4
  <2>2. <<after(f), after(e)>> \in StrictSubsetOrdering(C)
    BY <2>1 DEF StrictSubsetOrdering
  <2>3. QED
    BY <1>2, <1>3, <2>2
<1>5. QED
  BY <1>4

\* So every row has a node that its name, or one of its spellings, leads to.
LEMMA EachHasNode ==
  ASSUME NEW rows, IsFiniteSet(rows), rows \subseteq Equipment, NEW e \in rows
  PROVE  \E c \in LastOfNode(rows) : SameNode(c, e) /\ NameRank[c] >= NameRank[e]
<1> DEFINE C == {f \in rows : SameNode(f, e)}
<1>1. \A f \in C : NameRank[f] \in Int
  BY QueriesAssumption
<1>2. IsFiniteSet(C) /\ e \in C
  BY FS_Subset DEF SameNode
<1>3. PICK c \in C : \A f \in C : NameRank[f] <= NameRank[c]
  BY <1>1, <1>2, OneIsLast
<1>4. c \in LastOfNode(rows)
  BY <1>3 DEF LastOfNode, SameNode
<1>5. NameRank[c] >= NameRank[e]
  BY <1>1, <1>2, <1>3
<1>6. QED
  BY <1>4, <1>5

\* The rows of a library's equipment, which its photos name.
LEMMA RowsOfPhotos ==
  ASSUME TypeOK, IsFiniteSet(images), NEW l
  PROVE  /\ IsFiniteSet(CameraRows(l)) /\ CameraRows(l) \subseteq Equipment
         /\ IsFiniteSet(LensRows(l)) /\ LensRows(l) \subseteq Equipment
<1> DEFINE cameras == [i \in Shown(l) |-> CameraOf(i)]
           lenses == [i \in Shown(l) |-> LensIdOf(i)]
<1>1. IsFiniteSet(Shown(l))
  BY FS_Subset DEF Shown
<1>2. cameras \in Surjection(Shown(l), {CameraOf(i) : i \in Shown(l)})
  BY DEF Surjection
<1>3. lenses \in Surjection(Shown(l), {LensIdOf(i) : i \in Shown(l)})
  BY DEF Surjection
<1> HIDE DEF cameras, lenses
<1>4. IsFiniteSet({CameraOf(i) : i \in Shown(l)})
  BY <1>1, <1>2, FS_Surjection
<1>5. IsFiniteSet({LensIdOf(i) : i \in Shown(l)})
  BY <1>1, <1>3, FS_Surjection
<1>6. IsFiniteSet(CameraRows(l)) /\ IsFiniteSet(LensRows(l))
  BY <1>4, <1>5, FS_Subset DEF CameraRows, LensRows
<1>7. \A i \in Shown(l) : i[2] \in Photos
  BY DEF Shown, TypeOK
<1>8. CameraRows(l) \subseteq Equipment
  BY <1>7 DEF CameraRows, CameraOf, AddCamera, Equipment
<1>9. LensRows(l) \subseteq Equipment
  BY <1>7 DEF LensRows, LensIdOf, AddLens, Equipment
<1>10. QED
  BY <1>6, <1>8, <1>9

\* A photo is found under its camera and its lens, unless a later spelling has
\* the node.
LEMMA EquipmentQueries ==
  ASSUME TypeOK, IsFiniteSet(images), NEW l \in libraries, NEW i \in Shown(l)
  PROVE  /\ CameraOf(i) # NoId =>
              \E c \in CameraNodes(l) :
                /\ SameNode(c, CameraOf(i)) /\ NameRank[c] >= NameRank[CameraOf(i)]
                /\ c = CameraOf(i) => i \in QueryPhotos(l, <<"Camera", c>>)
         /\ LensIdOf(i) # NoId =>
              \E e \in LensNodes(l) :
                /\ SameNode(e, LensIdOf(i)) /\ NameRank[e] >= NameRank[LensIdOf(i)]
                /\ e = LensIdOf(i) => i \in QueryPhotos(l, <<"Lens", e>>)
<1>1. CameraNodes(l) = LastOfNode(CameraRows(l)) /\ LensNodes(l) = LastOfNode(LensRows(l))
  BY DEF CameraNodes, LensNodes, SourceData
<1>2. /\ i \in QueryPhotos(l, <<"Camera", CameraOf(i)>>)
      /\ i \in QueryPhotos(l, <<"Lens", LensIdOf(i)>>)
  BY QueryOfLibrary DEF GetImagesByCamera, GetImagesByLens
<1>3. ASSUME CameraOf(i) # NoId
      PROVE  \E c \in CameraNodes(l) :
               SameNode(c, CameraOf(i)) /\ NameRank[c] >= NameRank[CameraOf(i)]
  <2>1. CameraOf(i) \in CameraRows(l)
    BY <1>3 DEF CameraRows
  <2>2. QED
    BY <1>1, <2>1, RowsOfPhotos, EachHasNode
<1>4. ASSUME LensIdOf(i) # NoId
      PROVE  \E e \in LensNodes(l) :
               SameNode(e, LensIdOf(i)) /\ NameRank[e] >= NameRank[LensIdOf(i)]
  <2>1. LensIdOf(i) \in LensRows(l)
    BY <1>4 DEF LensRows
  <2>2. QED
    BY <1>1, <2>1, RowsOfPhotos, EachHasNode
<1>5. QED
  BY <1>2, <1>3, <1>4

-----------------------------------------------------------------------------
(* The theorems about the queries.                                         *)

FinitelyMany == IsFiniteSet(images)

\* A step adds one image at most.
LEMMA ImagesFinite == Spec => []FinitelyMany
<1>1. Init => FinitelyMany
  BY FS_EmptySet DEF Init, FinitelyMany
<1>2. IInv /\ FinitelyMany /\ [Next]_vars => FinitelyMany'
  <2> SUFFICES ASSUME IInv, IsFiniteSet(images), [Next]_vars
               PROVE  IsFiniteSet(images')
    BY DEF FinitelyMany
  <2>1. CASE images' \subseteq images
    BY <2>1, FS_Subset
  <2>2. ASSUME NEW t \in Tasks, WorkerStep(t)
        PROVE  IsFiniteSet(images')
    <3>1. images' = images \/ \E i : images' = images \union {i}
      BY <2>2, WorkerStores DEF IInv, StoreImage
    <3>2. QED
      BY <3>1, FS_AddElement
  <2>3. ASSUME NEW l \in LibraryIds, AddLibrary(l) \/ RemoveLibrary(l)
        PROVE  images' \subseteq images
    BY <2>3 DEF AddLibrary, RemoveLibrary
  <2>4. ASSUME NEW t \in Tasks, NEW d \in Paths, NEW l \in LibraryIds, ImportPath(t, d, l)
        PROVE  images' \subseteq images
    BY <2>4 DEF ImportPath, dbVars
  <2>5. ASSUME NEW t \in Tasks, StartTask(t)
        PROVE  images' \subseteq images
    BY <2>5 DEF StartTask, dbVars
  <2>6. CASE Crash \/ UNCHANGED vars
    BY <2>1, <2>6 DEF Crash, vars, dbVars
  <2>7. QED
    BY <2>1, <2>2, <2>3, <2>4, <2>5, <2>6 DEF Next
<1>3. QED
  BY <1>1, <1>2, Invariance, PTL DEF Spec

\* Each photo of a library is found where its trees put it: by its folders, by
\* its year, month and day, by its camera and its lens.
THEOREM PhotosAreFound == Spec => []TreesFindPhotos
<1>1. IInv /\ FinitelyMany => TreesFindPhotos
  BY FolderQueries, DateQueries, EquipmentQueries DEF IInv, FinitelyMany, TreesFindPhotos
<1>2. QED
  BY <1>1, Invariance, ImagesFinite, PTL

\* No query of a library brings up what only others have, but for the folders
\* below one that is its own.
THEOREM QueriesKeepInside == Spec => []QueriesStayInside
<1>1. IInv => QueriesStayInside
  BY QueriesInside DEF IInv
<1>2. QED
  BY <1>1, Invariance, PTL

=============================================================================
