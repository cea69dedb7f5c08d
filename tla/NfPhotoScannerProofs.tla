----------------------- MODULE NfPhotoScannerProofs -----------------------
(***************************************************************************)
(* Proofs about NfPhotoScanner for all sources, contents and tasks: the    *)
(* photos the GUI is given are those of the current source, each once and  *)
(* all of them when its scan ends well, and the scans that are cancelled   *)
(* are those of the sources before it.                                     *)
(***************************************************************************)
EXTENDS NfPhotoScanner, TLAPS

-----------------------------------------------------------------------------
(* The inductive invariant.                                                *)

Unstarted == {"new", "pending", "discarded"}

\* Where setSource is, and what is tagged with which generation: from the
\* reset to the creation of the scan no task is of this generation, and after
\* it one is at most, which scans the current source.
Generations ==
  /\ gui # "idle" => generation > 0
  /\ generation > 0 => source \in Sources
  /\ created # {} => gui = "submitting"
  /\ \A t \in created : phase[t] = "new" /\ created = {t}
  /\ gui \in {"cancelling", "creating"} =>
       \A t \in Tasks : taskGeneration[t] < generation
  /\ \A t \in Tasks :
       /\ taskGeneration[t] <= generation
       /\ phase[t] = "new" /\ t \notin created => taskGeneration[t] = 0
       /\ t \in created => taskGeneration[t] = generation
       /\ taskGeneration[t] = generation /\ generation > 0 => taskSource[t] = source
  /\ \A t, u \in Tasks :
       taskGeneration[t] = generation /\ taskGeneration[u] = generation
         /\ generation > 0 => t = u

\* What a scan holds is of its own source; before it starts that is nothing.
Scans ==
  \A t \in Tasks :
    /\ phase[t] \in Unstarted =>
         remaining[t] = {} /\ visiting[t] = {} /\ queried[t] = {}
    /\ remaining[t] \intersect visiting[t] = {}
    /\ \A e \in remaining[t] \union visiting[t] \union queried[t] :
         taskSource[t] \in Sources /\ e \in Content[taskSource[t]]
    /\ taskSource[t] \in Libraries => remaining[t] = {} /\ visiting[t] = {}

\* What was found was found by a scan that has started, is not ahead of it any
\* more, and came with the report if it is from a library.
Records ==
  \A r \in loaded \union delivered :
    /\ phase[r.scan] \notin Unstarted
    /\ r.photo \notin remaining[r.scan] \union visiting[r.scan]
    /\ taskSource[r.scan] \in Libraries => phase[r.scan] # "running"

\* A scan asked to stop has started.
StartedBeforeCancelled ==
  \A t \in cancelled : phase[t] \in {"running", "reported", "finalized"}

-----------------------------------------------------------------------------
(* Lemmas about the steps.                                                 *)

\* A step of the worker is one of t's and leaves the GUI thread alone; t
\* starts, goes on, reports or is released, and nobody else moves.
LEMMA WorkerMoves ==
  ASSUME TypeOK, NEW t \in Tasks, WorkerStep(t)
  PROVE  /\ UNCHANGED <<gui, source, generation, delivered, created>>
         /\ UNCHANGED <<taskGeneration, taskSource, cancelled, priority>>
         /\ phase' \in [Tasks -> Service!Phases]
         /\ phase[t] \in {"pending", "running", "reported"}
         /\ phase'[t] \in {"running", "reported", "finalized"}
         /\ \A u \in Tasks : u # t => phase'[u] = phase[u]
<1> USE DEF TypeOK, Service!TypeOK, Service!Phases, Service!Move, guiVars, taskVars,
            serviceVars, scanVars
<1>1. CASE StartScan(t)     BY <1>1 DEF StartScan, Service!Start
<1>2. CASE VisitEntry(t)    BY <1>2 DEF VisitEntry, Scanning
<1>3. CASE ProcessEntry(t)  BY <1>3 DEF ProcessEntry, Scanning
<1>4. CASE EndScan(t)       BY <1>4 DEF EndScan, Scanning
<1>5. CASE QueryLibrary(t)  BY <1>5 DEF QueryLibrary, Scanning
<1>6. CASE ReportScan(t)    BY <1>6 DEF ReportScan, Service!Report
<1>7. CASE FinalizeScan(t)  BY <1>7 DEF FinalizeScan, Service!Finalize
<1>8. QED
  BY <1>1, <1>2, <1>3, <1>4, <1>5, <1>6, <1>7 DEF WorkerStep

\* What AddFound puts in the list: nothing, or what the current scan found.
LEMMA AddFoundAdds ==
  ASSUME NEW t \in Tasks, NEW S, AddFound(t, S)
  PROVE  /\ taskGeneration[t] # generation => loaded' = loaded
         /\ \A r \in loaded' : r \in loaded \/ (r \in [photo : S, scan : {t}]
                                               /\ taskGeneration[t] = generation)
         /\ loaded \subseteq loaded'
BY DEF AddFound, Found

\* The types hold initially and every step keeps them: a submitted task is one
\* that was created, and that has its generation.
LEMMA TypeInductive ==
  /\ Init => TypeOK
  /\ TypeOK /\ Generations /\ [Next]_vars => TypeOK'
<1> USE ScannerAssumption DEF TypeOK, Service!TypeOK, Service!Phases, GuiStates, Statuses,
          Priorities, Immediate, guiVars, taskVars, serviceVars, scanVars
<1>1. Init => TypeOK
  BY DEF Init, Service!Init
<1>2. ASSUME TypeOK, Generations, [Next]_vars
      PROVE  TypeOK'
  <2> USE <1>2
  <2>1. ASSUME NEW s \in Sources, SetSource(s)
        PROVE  TypeOK'
    BY <2>1 DEF SetSource
  <2>2. CASE CancelScans
    BY <2>2 DEF CancelScans, Service!Cancel, Service!Move, Service!InPhase, Service!Active
  <2>3. ASSUME NEW t \in Tasks, CreateTask(t)
        PROVE  TypeOK'
    BY <2>3 DEF CreateTask
  <2>4. CASE SubmitTask
    <3>1. PICK t \in created : Service!Submit(t, Immediate)
      BY <2>4 DEF SubmitTask
    <3>2. t \in Tasks /\ taskGeneration[t] = generation /\ generation > 0
      BY <2>4 DEF SubmitTask, Generations
    <3>3. QED
      BY <2>4, <3>1, <3>2 DEF SubmitTask, Service!Submit, Service!Move
  <2>5. CASE TakePhotos
    BY <2>5 DEF TakePhotos
  <2>6. ASSUME NEW t \in Tasks, WorkerStep(t)
        PROVE  TypeOK'
    <3>1. /\ UNCHANGED <<gui, source, generation, delivered, created>>
          /\ UNCHANGED <<taskGeneration, taskSource, cancelled, priority>>
          /\ phase' \in [Tasks -> Service!Phases]
          /\ \A u \in Tasks : phase'[u] # "new" => phase[u] # "new"
      BY <2>6, WorkerMoves
    <3>2. SUFFICES /\ loaded' \subseteq [photo : Entries, scan : Tasks]
                   /\ remaining' \in [Tasks -> SUBSET Entries]
                   /\ visiting' \in [Tasks -> SUBSET Entries]
                   /\ queried' \in [Tasks -> SUBSET Entries]
                   /\ status' \in [Tasks -> Statuses]
      BY <3>1
    <3>3. CASE StartScan(t)
      BY <3>3 DEF StartScan, Sources
    <3>4. CASE VisitEntry(t)
      BY <3>4 DEF VisitEntry
    <3>5. CASE ProcessEntry(t)
      BY <3>5, AddFoundAdds DEF ProcessEntry
    <3>6. CASE EndScan(t)
      BY <3>6 DEF EndScan
    <3>7. CASE QueryLibrary(t)
      BY <3>7 DEF QueryLibrary, Scanning, Sources
    <3>8. CASE ReportScan(t)
      BY <3>8, AddFoundAdds DEF ReportScan
    <3>9. CASE FinalizeScan(t)
      BY <3>9 DEF FinalizeScan
    <3>10. QED
      BY <2>6, <3>3, <3>4, <3>5, <3>6, <3>7, <3>8, <3>9 DEF WorkerStep
  <2>7. CASE UNCHANGED vars
    BY <2>7 DEF vars
  <2>8. QED
    BY <2>1, <2>2, <2>3, <2>4, <2>5, <2>6, <2>7 DEF Next, SetSourceStep
<1>3. QED
  BY <1>1, <1>2

\* One scan at most is of the current generation.
LEMMA GenerationsInductive ==
  /\ Init => Generations
  /\ TypeOK /\ Generations /\ [Next]_vars => Generations'
<1> USE ScannerAssumption DEF TypeOK, Service!TypeOK, Generations, GuiStates, guiVars,
          taskVars, serviceVars, scanVars
<1>1. Init => Generations
  BY DEF Init, Service!Init
<1>2. ASSUME TypeOK, Generations, [Next]_vars
      PROVE  Generations'
  <2> USE <1>2
  <2>1. ASSUME NEW s \in Sources, SetSource(s)
        PROVE  Generations'
    BY <2>1 DEF SetSource
  <2>2. CASE CancelScans
    BY <2>2 DEF CancelScans, Service!Cancel, Service!Move, Service!InPhase
  <2>3. ASSUME NEW t \in Tasks, CreateTask(t)
        PROVE  Generations'
    BY <2>3 DEF CreateTask
  <2>4. CASE SubmitTask
    BY <2>4 DEF SubmitTask, Service!Submit, Service!Move
  <2>5. CASE TakePhotos
    BY <2>5 DEF TakePhotos
  <2>6. ASSUME NEW t \in Tasks, WorkerStep(t)
        PROVE  Generations'
    <3>1. /\ UNCHANGED <<gui, source, generation, created, taskGeneration, taskSource>>
          /\ \A u \in Tasks : phase'[u] = "new" <=> phase[u] = "new"
      BY <2>6, WorkerMoves
    <3>2. QED
      BY <3>1
  <2>7. CASE UNCHANGED vars
    BY <2>7 DEF vars
  <2>8. QED
    BY <2>1, <2>2, <2>3, <2>4, <2>5, <2>6, <2>7 DEF Next, SetSourceStep
<1>3. QED
  BY <1>1, <1>2

\* A scan works through its own source.
LEMMA ScansInductive ==
  /\ Init => Scans
  /\ TypeOK /\ Generations /\ Scans /\ [Next]_vars => Scans'
<1> USE ScannerAssumption DEF TypeOK, Service!TypeOK, Service!Phases, Scans, Unstarted,
          guiVars, taskVars, serviceVars, scanVars
<1>1. Init => Scans
  BY DEF Init, Service!Init
<1>2. ASSUME TypeOK, Generations, Scans, [Next]_vars
      PROVE  Scans'
  <2> USE <1>2
  <2>1. ASSUME NEW s \in Sources, SetSource(s)
        PROVE  Scans'
    BY <2>1 DEF SetSource
  <2>2. CASE CancelScans
    BY <2>2 DEF CancelScans, Service!Cancel, Service!Move, Service!InPhase
  <2>3. ASSUME NEW t \in Tasks, CreateTask(t)
        PROVE  Scans'
    BY <2>3 DEF CreateTask, Generations
  <2>4. CASE SubmitTask
    <3>1. /\ UNCHANGED <<taskSource, remaining, visiting, queried>>
          /\ \A u \in Tasks : phase'[u] \in Unstarted => phase[u] \in Unstarted
      BY <2>4 DEF SubmitTask, Service!Submit, Service!Move
    <3>2. QED
      BY <3>1
  <2>5. CASE TakePhotos
    BY <2>5 DEF TakePhotos
  <2>6. ASSUME NEW t \in Tasks, WorkerStep(t)
        PROVE  Scans'
    <3>1. /\ UNCHANGED taskSource
          /\ \A u \in Tasks : phase'[u] \in Unstarted => phase[u] \in Unstarted
          /\ phase'[t] \notin Unstarted
      BY <2>6, WorkerMoves
    <3>3. CASE StartScan(t)
      <4>1. /\ phase[t] = "pending" /\ UNCHANGED <<visiting, queried>>
            /\ remaining'[t] = IF taskSource[t] \in Folders THEN Content[taskSource[t]] ELSE {}
            /\ \A u \in Tasks : u # t => remaining'[u] = remaining[u]
        BY <3>3 DEF StartScan, Service!Start
      <4>2. QED
        BY <3>1, <4>1 DEF Sources
    <3>4. CASE VisitEntry(t)
      <4>1. PICK e \in remaining[t] :
              /\ visiting' = [visiting EXCEPT ![t] = {e}]
              /\ remaining' = [remaining EXCEPT ![t] = @ \ {e}]
        BY <3>4 DEF VisitEntry
      <4>2. /\ taskSource[t] \notin Libraries /\ visiting[t] = {} /\ queried' = queried
            /\ visiting'[t] = {e} /\ remaining'[t] = remaining[t] \ {e}
            /\ \A u \in Tasks : u # t => /\ remaining'[u] = remaining[u]
                                          /\ visiting'[u] = visiting[u]
        BY <3>4, <4>1 DEF VisitEntry, Scanning
      <4>3. QED
        BY <3>1, <4>2
    <3>5. CASE ProcessEntry(t)
      BY <3>1, <3>5 DEF ProcessEntry
    <3>6. CASE EndScan(t)
      BY <3>1, <3>6 DEF EndScan
    <3>7. CASE QueryLibrary(t)
      BY <3>1, <3>7 DEF QueryLibrary, Scanning, Sources
    <3>8. CASE ReportScan(t)
      BY <3>1, <3>8 DEF ReportScan
    <3>9. CASE FinalizeScan(t)
      BY <3>1, <3>9 DEF FinalizeScan
    <3>10. QED
      BY <2>6, <3>3, <3>4, <3>5, <3>6, <3>7, <3>8, <3>9 DEF WorkerStep
  <2>7. CASE UNCHANGED vars
    BY <2>7 DEF vars
  <2>8. QED
    BY <2>1, <2>2, <2>3, <2>4, <2>5, <2>6, <2>7 DEF Next, SetSourceStep
<1>3. QED
  BY <1>1, <1>2

FoundSound == Records /\ OnlyCurrentPhotos /\ FoundOnce

\* The list stays sound when it does not change and the scans that found what
\* is in it only go on.
LEMMA KeepingIsSound ==
  ASSUME FoundSound, UNCHANGED <<source, generation, loaded, delivered>>,
         \A r \in loaded \union delivered :
           /\ taskGeneration'[r.scan] = taskGeneration[r.scan]
           /\ taskSource'[r.scan] = taskSource[r.scan]
           /\ phase'[r.scan] \notin Unstarted
           /\ phase'[r.scan] = "running" => phase[r.scan] = "running"
           /\ remaining'[r.scan] \union visiting'[r.scan]
                \subseteq remaining[r.scan] \union visiting[r.scan]
  PROVE  FoundSound'
BY DEF FoundSound, Records, OnlyCurrentPhotos, FoundOnce

\* What the scan t adds keeps the list sound, if t has not found it before and
\* is past it, and if it is from the source t scans.
LEMMA AddingIsSound ==
  ASSUME TypeOK, Generations, FoundSound, NEW t \in Tasks, NEW S, AddFound(t, S),
         UNCHANGED <<source, generation, delivered, taskGeneration, taskSource>>,
         phase[t] = "running", phase'[t] \notin Unstarted,
         \A u \in Tasks : /\ u # t => phase'[u] = phase[u]
                          /\ phase'[u] = "running" => phase[u] = "running"
                          /\ remaining'[u] \union visiting'[u]
                               \subseteq remaining[u] \union visiting[u],
         \A e \in S : /\ taskSource[t] \in Sources /\ e \in Content[taskSource[t]]
                      /\ e \notin remaining'[t] \union visiting'[t]
                      /\ taskSource[t] \in Libraries => phase'[t] # "running"
                      /\ \A r \in loaded \union delivered : r.scan = t => r.photo # e
  PROVE  FoundSound'
<1>1. taskGeneration[t] \in 1..generation
  BY DEF TypeOK
<1>2. \A r \in loaded \union delivered : r.scan \in Tasks
  BY DEF TypeOK
<1>3. \A r \in loaded \union delivered :
        /\ phase[r.scan] \notin Unstarted
        /\ r.photo \notin remaining[r.scan] \union visiting[r.scan]
        /\ taskSource[r.scan] \in Libraries => phase[r.scan] # "running"
  BY DEF FoundSound, Records
<1>4. ASSUME NEW r \in loaded \union delivered
      PROVE  /\ phase'[r.scan] \notin Unstarted
             /\ phase'[r.scan] = "running" => phase[r.scan] = "running"
             /\ remaining'[r.scan] \union visiting'[r.scan]
                  \subseteq remaining[r.scan] \union visiting[r.scan]
  <2>1. r.scan \in Tasks /\ phase[r.scan] \notin Unstarted
    BY <1>2, <1>3
  <2>2. QED
    BY <2>1
<1>5. CASE taskGeneration[t] # generation
  <2>1. loaded' = loaded
    BY <1>5, AddFoundAdds
  <2>2. QED
    BY <2>1, <1>4, KeepingIsSound
<1>6. CASE taskGeneration[t] = generation
  <2> DEFINE New == [photo : S, scan : {t}]
             Old == loaded \union delivered
  <2>1. taskSource[t] = source
    BY <1>1, <1>6 DEF Generations
  <2>2. ASSUME NEW r \in Old
        PROVE  r.scan = t
    <3>1. taskGeneration[r.scan] = generation
      BY DEF FoundSound, OnlyCurrentPhotos
    <3>2. QED
      BY <1>1, <1>2, <1>6, <3>1 DEF Generations
  <2>3. loaded' = loaded \union New
    BY <1>6 DEF AddFound, Found
  <2>4. \A r \in New : r.scan = t /\ r.photo \in S
    OBVIOUS
  <2>5. \A q, r \in New : q.photo = r.photo => q = r
    OBVIOUS
  <2>6. ASSUME NEW q \in New, NEW r \in Old
        PROVE  q.photo # r.photo
    <3>1. r.scan = t
      BY <2>2
    <3>2. q.photo \in S
      BY <2>4
    <3>3. QED
      BY <3>1, <3>2
  <2>7. loaded' \union delivered' = Old \union New
    BY <2>3
  <2> HIDE DEF New, Old
  <2>8. Records'
    <3>1. SUFFICES ASSUME NEW r \in Old \union New
                   PROVE  /\ phase'[r.scan] \notin Unstarted
                          /\ r.photo \notin remaining'[r.scan] \union visiting'[r.scan]
                          /\ taskSource[r.scan] \in Libraries => phase'[r.scan] # "running"
      BY <2>7 DEF Records
    <3>2. CASE r \in New
      <4>1. r.scan = t /\ r.photo \in S
        BY <3>2, <2>4
      <4>2. QED
        BY <4>1
    <3>3. CASE r \in Old
      BY <3>3, <1>3, <1>4 DEF Old
    <3>4. QED
      BY <3>1, <3>2, <3>3
  <2>9. OnlyCurrentPhotos'
    <3>1. SUFFICES ASSUME NEW r \in Old \union New
                   PROVE  /\ taskGeneration[r.scan] = generation
                          /\ taskSource[r.scan] = source
                          /\ r.photo \in Content[source]
      BY <2>7 DEF OnlyCurrentPhotos
    <3>2. CASE r \in New
      <4>1. r.scan = t /\ r.photo \in S
        BY <3>2, <2>4
      <4>2. QED
        BY <4>1, <1>6, <2>1
    <3>3. CASE r \in Old
      BY <3>3 DEF Old, FoundSound, OnlyCurrentPhotos
    <3>4. QED
      BY <3>1, <3>2, <3>3
  <2>10. FoundOnce'
    BY <2>3, <2>5, <2>6, <2>7 DEF Old, FoundSound, FoundOnce
  <2>11. QED
    BY <2>8, <2>9, <2>10 DEF FoundSound
<1>7. QED
  BY <1>5, <1>6

\* The list and what was taken of it are the current source's, each photo once.
LEMMA FoundInductive ==
  /\ Init => FoundSound
  /\ TypeOK /\ Generations /\ Scans /\ FoundSound /\ [Next]_vars => FoundSound'
<1> USE ScannerAssumption DEF guiVars, taskVars, serviceVars, scanVars
<1>1. Init => FoundSound
  BY DEF Init, FoundSound, Records, OnlyCurrentPhotos, FoundOnce
<1>2. ASSUME TypeOK, Generations, Scans, FoundSound, [Next]_vars
      PROVE  FoundSound'
  <2> USE <1>2
  <2>1. \A r \in loaded \union delivered :
          /\ r.scan \in Tasks /\ phase[r.scan] \notin Unstarted
          /\ phase[r.scan] \in Service!Phases
    BY DEF TypeOK, Service!TypeOK, FoundSound, Records
  <2>2. ASSUME NEW s \in Sources, SetSource(s)
        PROVE  FoundSound'
    BY <2>2 DEF SetSource, FoundSound, Records, OnlyCurrentPhotos, FoundOnce
  <2>3. CASE CancelScans
    <3>1. \A t \in Tasks : phase[t] \notin Unstarted => phase'[t] = phase[t]
      BY <2>3 DEF CancelScans, Service!Cancel, Service!Move, Service!InPhase, Unstarted
    <3>2. UNCHANGED <<source, generation, loaded, delivered, taskVars, scanVars>>
      BY <2>3 DEF CancelScans
    <3>3. QED
      BY <2>1, <3>1, <3>2, KeepingIsSound
  <2>4. ASSUME NEW t \in Tasks, CreateTask(t)
        PROVE  FoundSound'
    <3>1. /\ phase[t] \in Unstarted /\ phase' = phase
          /\ UNCHANGED <<source, generation, loaded, delivered, scanVars>>
      BY <2>4 DEF CreateTask, Unstarted
    <3>2. \A u \in Tasks \ {t} : /\ taskGeneration'[u] = taskGeneration[u]
                                 /\ taskSource'[u] = taskSource[u]
      BY <2>4 DEF CreateTask, TypeOK
    <3>3. QED
      BY <2>1, <3>1, <3>2, KeepingIsSound
  <2>5. CASE SubmitTask
    <3>1. \A t \in Tasks : phase[t] \notin Unstarted => phase'[t] = phase[t]
      BY <2>5 DEF SubmitTask, Service!Submit, Service!Move, Unstarted
    <3>2. UNCHANGED <<source, generation, loaded, delivered, taskVars, scanVars>>
      BY <2>5 DEF SubmitTask
    <3>3. QED
      BY <2>1, <3>1, <3>2, KeepingIsSound
  <2>6. CASE TakePhotos
    BY <2>6 DEF TakePhotos, FoundSound, Records, OnlyCurrentPhotos, FoundOnce
  <2>7. ASSUME NEW t \in Tasks, WorkerStep(t)
        PROVE  FoundSound'
    <3> USE <2>7
    <3>1. /\ UNCHANGED <<source, generation, delivered, taskGeneration, taskSource>>
          /\ phase'[t] \notin Unstarted
          /\ \A u \in Tasks : u # t => phase'[u] = phase[u]
      BY WorkerMoves DEF Unstarted
    <3>2. CASE StartScan(t)
      <4>1. /\ phase[t] \in Unstarted /\ UNCHANGED <<loaded, visiting>>
            /\ \A u \in Tasks : u # t => remaining'[u] = remaining[u]
        BY <3>2 DEF StartScan, Service!Start, Unstarted, TypeOK
      <4>2. QED
        BY <2>1, <3>1, <4>1, KeepingIsSound
    <3>3. ASSUME loaded' = loaded, phase[t] # "pending",
                 phase'[t] = "running" => phase[t] = "running",
                 \A u \in Tasks : remaining'[u] \union visiting'[u]
                                    \subseteq remaining[u] \union visiting[u]
          PROVE  FoundSound'
      BY <2>1, <3>1, <3>3, KeepingIsSound
    <3>4. CASE VisitEntry(t)
      <4>1. PICK e \in remaining[t] :
              /\ visiting' = [visiting EXCEPT ![t] = {e}]
              /\ remaining' = [remaining EXCEPT ![t] = @ \ {e}]
        BY <3>4 DEF VisitEntry
      <4>2. \A u \in Tasks : remaining'[u] \union visiting'[u]
                               \subseteq remaining[u] \union visiting[u]
        BY <4>1 DEF TypeOK
      <4>3. loaded' = loaded /\ phase' = phase /\ phase[t] = "running"
        BY <3>4 DEF VisitEntry, Scanning
      <4>4. QED
        BY <3>3, <4>2, <4>3
    <3>5. CASE ProcessEntry(t)
      <4> DEFINE S == {f \in visiting[t] : ScanFinds(f)}
      <4>1. /\ AddFound(t, S) /\ phase[t] = "running" /\ phase' = phase
            /\ taskSource[t] \notin Libraries /\ remaining' = remaining
        BY <3>5 DEF ProcessEntry, Scanning
      <4>2. /\ visiting'[t] = {}
            /\ \A u \in Tasks : u # t => visiting'[u] = visiting[u]
        BY <3>5 DEF ProcessEntry, TypeOK
      <4>3. \A e \in S : /\ taskSource[t] \in Sources /\ e \in Content[taskSource[t]]
                         /\ e \notin remaining[t] /\ e \in visiting[t]
        BY DEF Scans
      <4>4. \A r \in loaded \union delivered : r.scan = t => r.photo \notin visiting[t]
        BY DEF FoundSound, Records
      <4> HIDE DEF S
      <4>5. QED
        BY <3>1, <4>1, <4>2, <4>3, <4>4, AddingIsSound
    <3>6. CASE EndScan(t)
      BY <3>3, <3>6 DEF EndScan, Scanning
    <3>7. CASE QueryLibrary(t)
      BY <3>3, <3>7 DEF QueryLibrary, Scanning
    <3>8. CASE ReportScan(t)
      <4>1. /\ phase[t] = "running" /\ phase'[t] = "reported"
            /\ UNCHANGED <<remaining, visiting>>
        BY <3>8 DEF ReportScan, Service!Report, Service!Move
      <4>2. CASE loaded' = loaded
        BY <3>3, <4>1, <4>2
      <4>3. CASE taskSource[t] \in Libraries /\ AddFound(t, queried[t])
        <5>1. \A e \in queried[t] :
                taskSource[t] \in Sources /\ e \in Content[taskSource[t]]
          BY DEF Scans
        <5>2. \A r \in loaded \union delivered : r.scan # t
          BY <4>1, <4>3 DEF FoundSound, Records
        <5>3. remaining[t] = {} /\ visiting[t] = {}
          BY <4>3 DEF Scans
        <5> DEFINE S == queried[t]
        <5>4. AddFound(t, S) /\ phase[t] = "running" /\ phase'[t] \notin Unstarted
          BY <4>1, <4>3 DEF Unstarted
        <5>5. \A u \in Tasks : remaining'[u] \union visiting'[u]
                                 \subseteq remaining[u] \union visiting[u]
          BY <4>1
        <5>6. \A e \in S :
                /\ taskSource[t] \in Sources /\ e \in Content[taskSource[t]]
                /\ e \notin remaining'[t] \union visiting'[t]
                /\ taskSource[t] \in Libraries => phase'[t] # "running"
                /\ \A r \in loaded \union delivered : r.scan = t => r.photo # e
          BY <4>1, <5>1, <5>2, <5>3
        <5> HIDE DEF S
        <5>7. QED
          BY <3>1, <5>4, <5>5, <5>6, AddingIsSound
      <4>4. QED
        BY <3>8, <4>2, <4>3 DEF ReportScan
    <3>9. CASE FinalizeScan(t)
      BY <3>1, <3>3, <3>9 DEF FinalizeScan, Service!Finalize, Service!Move
    <3>10. QED
      BY <3>2, <3>4, <3>5, <3>6, <3>7, <3>8, <3>9 DEF WorkerStep
  <2>8. CASE UNCHANGED vars
    BY <2>8 DEF vars, FoundSound, Records, OnlyCurrentPhotos, FoundOnce
  <2>9. QED
    BY <2>2, <2>3, <2>4, <2>5, <2>6, <2>7, <2>8 DEF Next, SetSourceStep
<1>3. QED
  BY <1>1, <1>2

CancelledSound == StartedBeforeCancelled /\ CancelledExactlyStale

\* cancelAll comes between the new generation and its scan.
LEMMA CancelledInductive ==
  /\ Init => CancelledSound
  /\ TypeOK /\ Generations /\ CancelledSound /\ [Next]_vars => CancelledSound'
<1> USE ScannerAssumption DEF CancelledSound, StartedBeforeCancelled, CancelledExactlyStale,
          Service!InPhase, Service!Active, guiVars, taskVars, serviceVars, scanVars
<1>1. Init => CancelledSound
  BY DEF Init, Service!Init
<1>2. ASSUME TypeOK, Generations, CancelledSound, [Next]_vars
      PROVE  CancelledSound'
  <2> USE <1>2
  <2>1. ASSUME NEW s \in Sources, SetSource(s)
        PROVE  CancelledSound'
    <3>1. /\ \A t \in Tasks : taskGeneration[t] <= generation
          /\ generation' = generation + 1 /\ gui' = "cancelling"
          /\ UNCHANGED <<phase, cancelled, taskGeneration>>
      BY <2>1 DEF SetSource, Generations
    <3>2. QED
      BY <3>1 DEF TypeOK, Service!TypeOK
  <2>2. CASE CancelScans
    <3>1. \A t \in Tasks : taskGeneration[t] < generation
      BY <2>2 DEF CancelScans, Generations
    <3>2. /\ cancelled' = cancelled \union (Tasks \intersect Service!Active)
          /\ \A t \in Tasks : phase'[t] = IF phase[t] = "pending" THEN "discarded" ELSE phase[t]
          /\ UNCHANGED <<generation, taskGeneration>>
      BY <2>2 DEF CancelScans, Service!Cancel, Service!Move
    <3>3. QED
      BY <3>1, <3>2 DEF TypeOK, Service!TypeOK
  <2>3. ASSUME NEW t \in Tasks, CreateTask(t)
        PROVE  CancelledSound'
    <3>1. /\ phase[t] = "new" /\ gui # "cancelling"
          /\ \A u \in Tasks \ {t} : taskGeneration'[u] = taskGeneration[u]
          /\ UNCHANGED <<phase, cancelled, generation>>
      BY <2>3 DEF CreateTask, TypeOK
    <3>2. QED
      BY <3>1 DEF TypeOK, Service!TypeOK
  <2>4. CASE SubmitTask
    <3>1. PICK t \in created : Service!Submit(t, Immediate)
      BY <2>4 DEF SubmitTask
    <3>2. t \in Tasks /\ taskGeneration[t] = generation /\ gui # "cancelling"
      BY <2>4 DEF SubmitTask, Generations, TypeOK
    <3>3. /\ phase[t] = "new" /\ cancelled' = cancelled
          /\ \A u \in Tasks : phase'[u] = IF u = t THEN "pending" ELSE phase[u]
          /\ UNCHANGED <<generation, taskGeneration>>
      BY <2>4, <3>1, <3>2 DEF SubmitTask, Service!Submit, Service!Move
    <3>4. QED
      BY <3>2, <3>3 DEF TypeOK, Service!TypeOK
  <2>5. CASE TakePhotos
    BY <2>5 DEF TakePhotos
  <2>6. ASSUME NEW t \in Tasks, WorkerStep(t)
        PROVE  CancelledSound'
    <3>1. /\ UNCHANGED <<gui, generation, taskGeneration, cancelled>>
          /\ phase[t] \in {"pending", "running", "reported"}
          /\ phase'[t] \in {"running", "reported", "finalized"}
          /\ \A u \in Tasks : u # t => phase'[u] = phase[u]
      BY <2>6, WorkerMoves
    <3>2. QED
      BY <3>1 DEF TypeOK, Service!TypeOK
  <2>7. CASE UNCHANGED vars
    BY <2>7 DEF vars
  <2>8. QED
    BY <2>1, <2>2, <2>3, <2>4, <2>5, <2>6, <2>7 DEF Next, SetSourceStep
<1>3. QED
  BY <1>1, <1>2

-----------------------------------------------------------------------------
(* The theorems.                                                           *)

IInv == TypeOK /\ Generations /\ Scans /\ FoundSound /\ CancelledSound

\* The inductive invariant holds in every reachable state, whatever the
\* sources hold and however many switches there are.
THEOREM Invariance == Spec => []IInv
<1>1. Init => IInv
  BY TypeInductive, GenerationsInductive, ScansInductive, FoundInductive,
     CancelledInductive DEF IInv
<1>2. IInv /\ [Next]_vars => IInv'
  BY TypeInductive, GenerationsInductive, ScansInductive, FoundInductive,
     CancelledInductive DEF IInv
<1>3. QED
  BY <1>1, <1>2, PTL DEF Spec

\* setSource cancels the scans of the sources before, all of them once
\* cancelAll is through, and never the one it makes.
THEOREM OnlyStaleScansCancelled == Spec => []CancelledExactlyStale
<1>1. IInv => CancelledExactlyStale
  BY DEF IInv, CancelledSound
<1>2. QED
  BY <1>1, Invariance, PTL

-----------------------------------------------------------------------------
(* What a photo is.                                                        *)

\* The extensions of the six places are the eight of the settings dialog, in
\* small letters or in capitals.
LEMMA OneListOfExtensions ==
  ASSUME NEW f, f.extension \in Extensions, f.capitals \in BOOLEAN
  PROVE  /\ DetermineFormat(f) # "Unknown" <=> f.extension \in SupportedFileTypes
         /\ HasDecoder(f) <=> f.extension \in SupportedFileTypes
         /\ Lower(Written(f)) \in SmallLetters(RawFormats \union {"jpg", "jpeg", "png"})
              <=> f.extension \in SupportedFileTypes
         /\ Lower(Written(f)) \in SmallLetters({"cr3", "cr2", "dng", "raf", "nef",
                                                 "jpg", "jpeg", "png"})
              <=> f.extension \in SupportedFileTypes
<1>1. Lower(Written(f)) = <<f.extension, FALSE>>
  BY DEF Lower, Written
<1>2. \A S : Lower(Written(f)) \in SmallLetters(S) <=> f.extension \in S
  BY <1>1 DEF SmallLetters
<1>3. /\ Lower(Written(f)) \in SmallLetters(RawFormats) <=> f.extension \in RawFormats
      /\ Lower(Written(f)) \in SmallLetters({"jpg", "jpeg"}) <=> f.extension \in {"jpg", "jpeg"}
      /\ Lower(Written(f)) \in SmallLetters({"png"}) <=> f.extension \in {"png"}
  BY <1>2
<1>4. DetermineFormat(f) =
        IF f.extension \in RawFormats THEN "Raw"
        ELSE IF f.extension \in {"jpg", "jpeg"} THEN "Jpeg"
        ELSE IF f.extension \in {"png"} THEN "Png" ELSE "Unknown"
  BY <1>3 DEF DetermineFormat, RawFormats
<1>5. DetermineFormat(f) # "Unknown" <=> f.extension \in SupportedFileTypes
  BY <1>4 DEF RawFormats, SupportedFileTypes
<1>6. HasDecoder(f) <=> f.extension \in SupportedFileTypes
  BY <1>4 DEF HasDecoder, RawFormats, SupportedFileTypes
<1>7. QED
  BY <1>2, <1>5, <1>6 DEF SupportedFileTypes, RawFormats

\* A file of any name and size is a photo to all places or to none.
LEMMA OnePhoto ==
  ASSUME NEW f, f.extension \in Extensions, f.capitals \in BOOLEAN, f.kind \in Kinds,
         f.size \in Nat
  PROVE  /\ ImportFinds(f) <=> ScanFinds(f)
         /\ ScanFinds(f) <=> FileExists(f) /\ f.size > 0 /\ f.extension \in SupportedFileTypes
         /\ ScanFinds(f) => HasDecoder(f)
<1>1. LoadSummary(f) <=> FileExists(f) /\ f.size > 0 /\ f.extension \in SupportedFileTypes
  BY OneListOfExtensions DEF LoadSummary, FileSizeOf
<1>2. ScanFinds(f) <=> FileExists(f) /\ f.size > 0 /\ f.extension \in SupportedFileTypes
  BY <1>1, OneListOfExtensions DEF ScanFinds, FileExists
<1>3. ImportFinds(f) <=> FileExists(f) /\ f.size > 0 /\ f.extension \in SupportedFileTypes
  BY <1>1, OneListOfExtensions DEF ImportFinds, IsSupportedExtension, IsValid
<1>4. QED
  BY <1>2, <1>3, OneListOfExtensions

\* Where a scan is, whatever file stands there: browsing, importing, decoding
\* and the settings dialog agree whether it is a photo.
THEOREM PhotosAreOneNotion == Spec => []OnePhotoForAll
<1>1. IInv => OnePhotoForAll
  BY OnePhoto DEF OnePhotoForAll
<1>2. QED
  BY <1>1, Invariance, PTL

-----------------------------------------------------------------------------
(* What a scan finds.                                                      *)

Photos == {r.photo : r \in loaded \union delivered}

\* What the current scan t of a folder has found is what it is past and what is
\* a photo; when it has ended well nothing is ahead of it.  The photos of a
\* library come with the report.
Whole(t) ==
  /\ taskSource[t] \in Folders =>
       /\ Photos = {f \in Content[source] \ (remaining[t] \union visiting[t]) : ScanFinds(f)}
       /\ status[t] = "Success" => remaining[t] = {} /\ visiting[t] = {}
  /\ taskSource[t] \in Libraries /\ phase[t] # "running" /\ status[t] = "Success" =>
       Photos = queried[t]

IsCurrent(t) == taskGeneration[t] = generation /\ generation > 0

Complete ==
  \A t \in Tasks :
    /\ phase[t] \in Unstarted => status[t] = "none"
    /\ IsCurrent(t) /\ phase[t] \notin Unstarted => Whole(t)

\* A current scan that has not started has found nothing, and one of a library
\* nothing before it reports.
LEMMA NothingFoundYet ==
  ASSUME TypeOK, Generations, FoundSound, NEW t \in Tasks, IsCurrent(t),
         \/ phase[t] \in Unstarted
         \/ taskSource[t] \in Libraries /\ phase[t] = "running"
  PROVE  Photos = {}
<1>1. ASSUME NEW r \in loaded \union delivered
      PROVE  FALSE
  <2>1. r.scan \in Tasks
    BY DEF TypeOK
  <2>2. /\ taskGeneration[r.scan] = generation /\ phase[r.scan] \notin Unstarted
        /\ taskSource[r.scan] \in Libraries => phase[r.scan] # "running"
    BY DEF FoundSound, Records, OnlyCurrentPhotos
  <2>3. r.scan = t
    BY <2>1, <2>2 DEF Generations, IsCurrent
  <2>4. QED
    BY <2>2, <2>3
<1>2. QED
  BY <1>1 DEF Photos

\* What t adds is added to the photos.
LEMMA PhotosAdded ==
  ASSUME NEW t \in Tasks, NEW S, loaded' = loaded \union Found(t, S), delivered' = delivered
  PROVE  Photos' = Photos \union S
<1> DEFINE Old == loaded \union delivered
           New == [photo : S, scan : {t}]
<1>1. loaded' \union delivered' = Old \union New
  BY DEF Found
<1>2. {r.photo : r \in New} = S
  <2>1. \A e \in S : [photo |-> e, scan |-> t] \in New /\ [photo |-> e, scan |-> t].photo = e
    OBVIOUS
  <2>2. \A r \in New : r.photo \in S
    OBVIOUS
  <2> HIDE DEF New
  <2>3. QED
    BY <2>1, <2>2
<1> HIDE DEF New, Old
<1>3. Photos' = {r.photo : r \in Old \union New} /\ Photos = {r.photo : r \in Old}
  BY <1>1 DEF Photos, Old
<1>4. {r.photo : r \in Old \union New} = {r.photo : r \in Old} \union {r.photo : r \in New}
  OBVIOUS
<1>5. QED
  BY <1>2, <1>3, <1>4

\* A scan stays whole when it does not move on and nothing is found.
LEMMA KeepingIsWhole ==
  ASSUME NEW t \in Tasks, Whole(t), Photos' = Photos, UNCHANGED source,
         taskSource'[t] = taskSource[t], status'[t] = status[t], queried'[t] = queried[t],
         remaining'[t] \union visiting'[t] = remaining[t] \union visiting[t],
         phase[t] = "running" => phase'[t] = "running"
  PROVE  Whole(t)'
BY DEF Whole

\* Every step keeps the current scan whole.
LEMMA CompleteInductive ==
  /\ Init => Complete
  /\ TypeOK /\ Generations /\ Scans /\ FoundSound /\ Complete /\ [Next]_vars => Complete'
<1> USE ScannerAssumption DEF guiVars, taskVars, serviceVars, scanVars
<1>1. Init => Complete
  BY DEF Init, Complete, IsCurrent, Service!Init, Unstarted
<1>2. ASSUME TypeOK, Generations, Scans, FoundSound, Complete, [Next]_vars
      PROVE  Complete'
  <2> USE <1>2
  <2>1. ASSUME NEW s \in Sources, SetSource(s)
        PROVE  Complete'
    <3>1. /\ \A t \in Tasks : taskGeneration[t] \in Nat /\ taskGeneration[t] <= generation
          /\ generation \in Nat /\ generation' = generation + 1
          /\ UNCHANGED <<phase, status, taskGeneration>>
      BY <2>1 DEF SetSource, Generations, TypeOK
    <3>2. \A t \in Tasks : ~ IsCurrent(t)'
      BY <3>1 DEF IsCurrent
    <3>3. QED
      BY <3>1, <3>2 DEF Complete
  <2>2. ASSUME UNCHANGED <<source, generation, taskGeneration, taskSource, scanVars>>,
               Photos' = Photos,
               \A t \in Tasks : /\ phase'[t] \in Unstarted <=> phase[t] \in Unstarted
                                /\ phase[t] \notin Unstarted => phase'[t] = phase[t]
        PROVE  Complete'
    <3>1. ASSUME NEW t \in Tasks, IsCurrent(t)', phase'[t] \notin Unstarted
          PROVE  Whole(t)'
      <4>1. Whole(t)
        BY <2>2, <3>1 DEF Complete, IsCurrent
      <4>2. QED
        BY <2>2, <3>1, <4>1, KeepingIsWhole
    <3>2. QED
      BY <2>2, <3>1 DEF Complete
  <2>3. CASE CancelScans
    <3>1. \A t \in Tasks : phase'[t] = IF phase[t] = "pending" THEN "discarded" ELSE phase[t]
      BY <2>3 DEF CancelScans, Service!Cancel, Service!Move, Service!InPhase
    <3>2. UNCHANGED <<source, generation, taskGeneration, taskSource, scanVars>>
          /\ Photos' = Photos
      BY <2>3 DEF CancelScans, Photos
    <3>3. QED
      BY <2>2, <3>1, <3>2 DEF Unstarted
  <2>4. ASSUME NEW t \in Tasks, CreateTask(t)
        PROVE  Complete'
    <3>1. /\ phase[t] \in Unstarted /\ UNCHANGED <<phase, status, generation>>
          /\ \A u \in Tasks : taskGeneration[u] < generation
      BY <2>4 DEF CreateTask, Unstarted, Generations
    <3>2. \A u \in Tasks \ {t} : ~ IsCurrent(u)'
      BY <2>4, <3>1 DEF CreateTask, IsCurrent, TypeOK
    <3>3. QED
      BY <3>1, <3>2 DEF Complete
  <2>5. CASE SubmitTask
    <3>1. PICK t \in created : Service!Submit(t, Immediate)
      BY <2>5 DEF SubmitTask
    <3>2. phase[t] = "new" /\ \A u \in Tasks : phase'[u] = IF u = t THEN "pending" ELSE phase[u]
      BY <3>1 DEF Service!Submit, Service!Move
    <3>3. UNCHANGED <<source, generation, taskGeneration, taskSource, scanVars>>
          /\ Photos' = Photos
      BY <2>5 DEF SubmitTask, Photos
    <3>4. QED
      BY <2>2, <3>2, <3>3 DEF Unstarted
  <2>6. CASE TakePhotos
    <3>1. loaded' \union delivered' = loaded \union delivered
      BY <2>6 DEF TakePhotos
    <3>2. UNCHANGED <<source, generation, taskGeneration, taskSource, scanVars, phase>>
          /\ Photos' = Photos
      BY <2>6, <3>1 DEF TakePhotos, Photos
    <3>3. QED
      BY <2>2, <3>2
  <2>7. ASSUME NEW t \in Tasks, WorkerStep(t)
        PROVE  Complete'
    <3> USE <2>7
    <3>1. /\ UNCHANGED <<source, generation, delivered, taskGeneration, taskSource>>
          /\ phase'[t] \notin Unstarted /\ phase[t] \in {"pending", "running", "reported"}
          /\ \A u \in Tasks : u # t => phase'[u] = phase[u]
      BY WorkerMoves DEF Unstarted
    <3>2. \A u \in Tasks : u # t =>
            /\ remaining'[u] = remaining[u] /\ visiting'[u] = visiting[u]
            /\ queried'[u] = queried[u] /\ status'[u] = status[u]
      BY DEF WorkerStep, StartScan, VisitEntry, ProcessEntry, EndScan, QueryLibrary,
         ReportScan, FinalizeScan, TypeOK
    <3>3. ~ IsCurrent(t) => Photos' = Photos
      <4>1. SUFFICES ASSUME ~ IsCurrent(t)
                     PROVE  loaded' = loaded
        BY <3>1 DEF Photos
      <4>2. phase[t] # "new" /\ taskGeneration[t] \in 1..generation /\ generation \in Nat
        BY <3>1 DEF TypeOK
      <4>3. taskGeneration[t] # generation
        BY <4>1, <4>2 DEF IsCurrent
      <4>4. QED
        BY <4>3, AddFoundAdds DEF WorkerStep, StartScan, VisitEntry, ProcessEntry, EndScan,
           QueryLibrary, ReportScan, FinalizeScan
    <3>4. ASSUME NEW u \in Tasks, u # t, IsCurrent(u), phase[u] \notin Unstarted
          PROVE  Whole(u)'
      <4>1. ~ IsCurrent(t)
        BY <3>4 DEF IsCurrent, Generations
      <4>2. Whole(u) /\ Photos' = Photos
        BY <3>3, <3>4, <4>1 DEF Complete
      <4>3. QED
        BY <3>1, <3>2, <3>4, <4>2, KeepingIsWhole
    <3>5. ASSUME IsCurrent(t)
          PROVE  Whole(t)'
      <4>1. /\ taskSource[t] = source /\ source \in Sources
            /\ phase[t] \notin Unstarted => Whole(t)
        BY <3>5 DEF IsCurrent, Generations, Complete
      <4>2. CASE StartScan(t)
        <5>1. /\ phase[t] \in Unstarted /\ loaded' = loaded /\ status' = status
              /\ visiting' = visiting /\ phase'[t] = "running"
              /\ taskSource[t] \in Folders => remaining'[t] = Content[source]
          BY <4>1, <4>2 DEF StartScan, Service!Start, Service!Move, Unstarted, TypeOK
        <5>2. Photos = {} /\ Photos' = Photos
          BY <3>1, <3>5, <5>1, NothingFoundYet DEF Photos
        <5>3. status[t] = "none" /\ visiting[t] = {}
          BY <5>1 DEF Complete, Scans
        <5>4. QED
          BY <3>1, <5>1, <5>2, <5>3 DEF Whole
      <4>3. CASE VisitEntry(t)
        <5>1. PICK e \in remaining[t] :
                /\ visiting' = [visiting EXCEPT ![t] = {e}]
                /\ remaining' = [remaining EXCEPT ![t] = @ \ {e}]
          BY <4>3 DEF VisitEntry
        <5>2. /\ phase[t] = "running" /\ phase' = phase /\ visiting[t] = {}
              /\ Photos' = Photos /\ UNCHANGED <<status, queried>>
          BY <3>1, <4>3 DEF VisitEntry, Scanning, Photos
        <5>3. remaining'[t] \union visiting'[t] = remaining[t] \union visiting[t]
          BY <5>1, <5>2 DEF TypeOK
        <5>4. QED
          BY <3>1, <4>1, <5>2, <5>3, KeepingIsWhole DEF Unstarted
      <4>4. CASE ProcessEntry(t)
        <5> DEFINE S == {f \in visiting[t] : ScanFinds(f)}
        <5>1. /\ phase[t] = "running" /\ status[t] = "none" /\ taskSource[t] \in Folders
              /\ status' = status /\ remaining' = remaining /\ visiting'[t] = {}
              /\ loaded' = loaded \union Found(t, S)
          BY <3>5, <4>4 DEF ProcessEntry, Scanning, AddFound, IsCurrent, TypeOK
        <5>2. Photos' = Photos \union S
          BY <3>1, <5>1, PhotosAdded
        <5>3. Photos = {f \in Content[source] \ (remaining[t] \union visiting[t]) : ScanFinds(f)}
          BY <4>1, <5>1 DEF Whole, Unstarted
        <5>4. visiting[t] \subseteq Content[source] /\ remaining[t] \intersect visiting[t] = {}
          BY <4>1 DEF Scans
        <5>5. Photos' = {f \in Content[source] \ remaining[t] : ScanFinds(f)}
          BY <5>2, <5>3, <5>4
        <5>6. taskSource[t] \notin Libraries
          BY <5>1
        <5>7. QED
          BY <3>1, <5>1, <5>5, <5>6 DEF Whole
      <4>5. CASE EndScan(t)
        <5>1. /\ phase[t] = "running" /\ phase' = phase /\ Photos' = Photos
              /\ taskSource[t] \in Folders /\ visiting[t] = {}
              /\ UNCHANGED <<remaining, visiting, queried>>
              /\ status'[t] = "Success" => remaining[t] = {}
          BY <3>1, <4>5 DEF EndScan, Scanning, Photos, TypeOK
        <5>2. taskSource[t] \notin Libraries
          BY <5>1
        <5>3. QED
          BY <3>1, <4>1, <5>1, <5>2 DEF Whole, Unstarted
      <4>6. CASE QueryLibrary(t)
        <5>1. phase[t] = "running" /\ phase' = phase /\ taskSource[t] \in Libraries
          BY <4>6 DEF QueryLibrary, Scanning
        <5>2. taskSource[t] \notin Folders
          BY <5>1
        <5>3. QED
          BY <3>1, <5>1, <5>2 DEF Whole
      <4>7. CASE ReportScan(t)
        <5>1. /\ phase[t] = "running" /\ phase'[t] = "reported" /\ UNCHANGED scanVars
              /\ IF taskSource[t] \in Libraries /\ status[t] = "Success"
                 THEN AddFound(t, queried[t]) ELSE loaded' = loaded
          BY <4>7 DEF ReportScan, Service!Report, Service!Move
        <5>2. CASE taskSource[t] \in Libraries /\ status[t] = "Success"
          <6>1. loaded' = loaded \union Found(t, queried[t])
            BY <3>5, <5>1, <5>2 DEF AddFound, IsCurrent
          <6>2. Photos' = Photos \union queried[t]
            BY <3>1, <6>1, PhotosAdded
          <6>3. Photos = {}
            BY <3>5, <5>1, <5>2, NothingFoundYet
          <6>4. taskSource[t] \notin Folders
            BY <5>2
          <6>5. QED
            BY <3>1, <5>1, <6>2, <6>3, <6>4 DEF Whole
        <5>3. CASE ~ (taskSource[t] \in Libraries /\ status[t] = "Success")
          <6>1. Photos' = Photos
            BY <3>1, <5>1, <5>3 DEF Photos
          <6>2. QED
            BY <3>1, <4>1, <5>1, <5>3, <6>1 DEF Whole, Unstarted
        <5>4. QED
          BY <5>2, <5>3
      <4>8. CASE FinalizeScan(t)
        <5>1. /\ phase[t] = "reported" /\ phase'[t] = "finalized" /\ UNCHANGED scanVars
              /\ Photos' = Photos
          BY <3>1, <4>8 DEF FinalizeScan, Service!Finalize, Service!Move, Photos
        <5>2. QED
          BY <3>1, <4>1, <5>1, KeepingIsWhole DEF Unstarted
      <4>9. QED
        BY <4>2, <4>3, <4>4, <4>5, <4>6, <4>7, <4>8 DEF WorkerStep
    <3>6. ASSUME NEW u \in Tasks
          PROVE  /\ phase'[u] \in Unstarted => status'[u] = "none"
                 /\ IsCurrent(u)' /\ phase'[u] \notin Unstarted => Whole(u)'
      <4>1. IsCurrent(u)' <=> IsCurrent(u)
        BY <3>1 DEF IsCurrent
      <4>2. CASE u = t
        BY <3>1, <3>5, <4>1, <4>2
      <4>3. CASE u # t
        BY <3>1, <3>2, <3>4, <4>1, <4>3 DEF Complete
      <4>4. QED
        BY <4>2, <4>3
    <3>7. QED
      BY <3>6 DEF Complete
  <2>8. CASE UNCHANGED vars
    <3>1. /\ UNCHANGED <<source, generation, taskGeneration, taskSource, scanVars, phase>>
          /\ Photos' = Photos
      BY <2>8 DEF vars, Photos
    <3>2. QED
      BY <2>2, <3>1
  <2>9. QED
    BY <2>1, <2>3, <2>4, <2>5, <2>6, <2>7, <2>8 DEF Next, SetSourceStep
<1>3. QED
  BY <1>1, <1>2

\* A scan that ends well has found all there is to show of its source, for any
\* folders and libraries, however often sources are switched and whenever the
\* GUI empties the list.
THEOREM ScansSkipNothing == Spec => []NothingIsSkipped
<1> DEFINE CInv == IInv /\ Complete
<1>1. Init => CInv
  BY CompleteInductive, TypeInductive, GenerationsInductive, ScansInductive, FoundInductive,
     CancelledInductive DEF IInv
<1>2. CInv /\ [Next]_vars => CInv'
  BY CompleteInductive, TypeInductive, GenerationsInductive, ScansInductive, FoundInductive,
     CancelledInductive DEF IInv
<1>3. CInv => NothingIsSkipped
  <2> SUFFICES ASSUME CInv, NEW t \in Tasks, taskGeneration[t] = generation,
                      status[t] = "Success", source \in Libraries => phase[t] # "running"
               PROVE  Photos = ToShow(t)
    BY DEF NothingIsSkipped, Photos
  <2>1. phase[t] \notin Unstarted
    BY DEF Complete
  <2>2. phase[t] # "new" /\ generation \in Nat
    BY <2>1 DEF Unstarted, IInv, TypeOK
  <2>3. taskGeneration[t] \in 1..generation
    BY <2>2 DEF IInv, TypeOK
  <2>4. IsCurrent(t)
    BY <2>2, <2>3 DEF IsCurrent
  <2>5. taskSource[t] = source /\ source \in Sources /\ Whole(t)
    BY <2>1, <2>4 DEF IsCurrent, IInv, Generations, Complete
  <2>6. CASE source \in Libraries
    BY <2>5, <2>6 DEF Whole, ToShow
  <2>7. CASE source \notin Libraries
    <3>1. Photos = {f \in Content[source] : ScanFinds(f)}
      BY <2>5, <2>7 DEF Whole, Sources
    <3>2. \A f \in Content[source] : f \in Files
      BY <2>5, ScannerAssumption
    <3>3. \A f \in Files : ScanFinds(f) <=>
            f.kind = "file" /\ f.size > 0 /\ f.extension \in SupportedFileTypes
      BY OnePhoto DEF Files, FileExists
    <3>4. QED
      BY <2>7, <3>1, <3>2, <3>3 DEF ToShow
  <2>8. QED
    BY <2>6, <2>7
<1> HIDE DEF CInv
<1>4. QED
  BY <1>1, <1>2, <1>3, PTL DEF Spec

\* The list of photos and what the GUI took of it are of the current source,
\* each photo once and, when its scan has ended well, all of them, however late
\* the scans of other sources report.
THEOREM FoundListStaysSound == Spec => []FoundListIsSound
<1>1. IInv => TypeOK /\ OnlyCurrentPhotos /\ FoundOnce
  BY DEF IInv, FoundSound
<1>2. TypeOK /\ OnlyCurrentPhotos /\ FoundOnce /\ NothingIsSkipped => FoundListIsSound
  BY DEF FoundListIsSound
<1>3. QED
  BY <1>1, <1>2, Invariance, ScansSkipNothing, PTL

=============================================================================
