--------------------------- MODULE NfPhotoScanner ---------------------------
(***************************************************************************)
(* NfPhotoScanner: finds the photos of the source the user looks at.  Each *)
(* setSource starts a new generation, asks the scans of older ones to stop *)
(* and submits one scan task to the scanner's own scheduler, which one     *)
(* worker thread serves.  A folder scan reports photo by photo, a library  *)
(* scan all at once; both drop what they find when their generation is not *)
(* the current one.                                                        *)
(*                                                                         *)
(* The scheduler and its thread are NfTaskService, which NfScheduler       *)
(* implements.  setSource runs on the GUI thread and is four steps here:   *)
(* the locked reset, cancelAll, createTask and submit.  The worker moves   *)
(* between any two of them; no other GUI call does.                        *)
(***************************************************************************)
EXTENDS FiniteSets, NfPhotoFiles

CONSTANTS Tasks,      \* ids of the scan tasks; bounds the setSource calls
          Folders,    \* sources that are directories
          Libraries,  \* sources that are library queries
          NoSource,   \* no source was set yet
          Entries,    \* directory entries and library images
          Content     \* Content[s]: the entries of source s

Sources == Folders \union Libraries

ASSUME ScannerAssumption ==
  /\ Tasks \subseteq Nat
  /\ Folders \intersect Libraries = {}
  /\ NoSource \notin Sources
  /\ Entries \subseteq Files
  /\ Content \in [Sources -> SUBSET Entries]

\* Scan tasks keep the priority they are constructed with.
Immediate == 10
Priorities == {Immediate}

VARIABLES
  phase, priority, cancelled,  \* the task service
  gui,             \* how far the GUI thread is in setSource
  source,          \* the source of the last setSource
  generation,      \* m_generationId
  loaded,          \* m_loadedPhotos, each photo with the scan that found it
  delivered,       \* history: photos taken since the last setSource
  created,         \* the task setSource has created and not submitted
  taskGeneration,  \* NfTask::m_generationId
  taskSource,      \* m_source of a scan task
  remaining,       \* entries a folder scan has not reached
  visiting,        \* the entry a folder scan is at, if any
  queried,         \* what the query of a library scan returned
  status           \* what execute returned, "none" before

serviceVars == <<phase, priority, cancelled>>
guiVars == <<gui, source, generation, delivered, created>>
taskVars == <<taskGeneration, taskSource>>
scanVars == <<remaining, visiting, queried, status>>
vars == <<serviceVars, guiVars, loaded, taskVars, scanVars>>

Service == INSTANCE NfTaskService

GuiStates == {"idle", "cancelling", "creating", "submitting"}
Statuses == {"none", "Success", "Failed", "Cancelled"}

Found(t, S) == [photo : S, scan : {t}]
Shown == {r.photo : r \in delivered}

-----------------------------------------------------------------------------
Init ==
  /\ Service!Init
  /\ gui = "idle" /\ source = NoSource
  /\ generation = 0
  /\ loaded = {} /\ delivered = {} /\ created = {}
  /\ taskGeneration = [t \in Tasks |-> 0]
  /\ taskSource = [t \in Tasks |-> NoSource]
  /\ remaining = [t \in Tasks |-> {}]
  /\ visiting = [t \in Tasks |-> {}]
  /\ queried = [t \in Tasks |-> {}]
  /\ status = [t \in Tasks |-> "none"]

-----------------------------------------------------------------------------
(* The GUI thread.                                                         *)

\* setSource, first lock: the list and the generation change together.
SetSource(s) ==
  /\ gui = "idle"
  /\ Service!InPhase("new") # {}
  /\ loaded' = {} /\ delivered' = {}
  /\ generation' = generation + 1
  /\ source' = s
  /\ gui' = "cancelling"
  /\ UNCHANGED <<serviceVars, created, taskVars, scanVars>>

\* Mutant: only queued scans are cancelled.
CancelScansPending ==
  /\ gui = "cancelling"
  /\ Service!Cancel(Service!InPhase("pending"))
  /\ gui' = "creating"
  /\ UNCHANGED <<source, generation, delivered, created, loaded, taskVars, scanVars>>

\* m_scheduler->cancelAll()
CancelScans ==
  /\ gui = "cancelling"
  /\ Service!Cancel(Tasks)
  /\ gui' = "creating"
  /\ UNCHANGED <<source, generation, delivered, created, loaded, taskVars, scanVars>>

\* createTask, under the lock; ids are handed out in order.
CreateTask(t) ==
  /\ gui = "creating"
  /\ phase[t] = "new" /\ \A u \in Service!InPhase("new") : t <= u
  /\ created' = {t}
  /\ taskGeneration' = [taskGeneration EXCEPT ![t] = generation]
  /\ taskSource' = [taskSource EXCEPT ![t] = source]
  /\ gui' = "submitting"
  /\ UNCHANGED <<serviceVars, source, generation, delivered, loaded, scanVars>>

SubmitTask ==
  /\ gui = "submitting"
  /\ \E t \in created : Service!Submit(t, Immediate)
  /\ created' = {}
  /\ gui' = "idle"
  /\ UNCHANGED <<source, generation, delivered, loaded, taskVars, scanVars>>

\* takePhotos, called by the provider's timer.
TakePhotos ==
  /\ gui = "idle"
  /\ delivered' = delivered \union loaded
  /\ loaded' = {}
  /\ UNCHANGED <<serviceVars, gui, source, generation, created, taskVars, scanVars>>

-----------------------------------------------------------------------------
(* The worker thread.                                                      *)

\* The only worker starts a task; a folder scan opens its directory.
StartScan(t) ==
  /\ Service!Active = {}
  /\ Service!Start(t)
  /\ remaining' = [remaining EXCEPT ![t] =
       IF taskSource[t] \in Folders THEN Content[taskSource[t]] ELSE {}]
  /\ UNCHANGED <<guiVars, loaded, taskVars, visiting, queried, status>>

\* t is executing a scan of a source of the given kind.
Scanning(t, kind) ==
  phase[t] = "running" /\ status[t] = "none" /\ taskSource[t] \in kind

\* The loop of scan finds it was not cancelled and turns to an entry.
VisitEntry(t) ==
  /\ Scanning(t, Folders)
  /\ visiting[t] = {}
  /\ t \notin cancelled
  /\ \E e \in remaining[t] :
       /\ visiting' = [visiting EXCEPT ![t] = {e}]
       /\ remaining' = [remaining EXCEPT ![t] = @ \ {e}]
  /\ UNCHANGED <<serviceVars, guiVars, loaded, taskVars, queried, status>>

\* Mutant: the photo is added whatever its generation.
AddFoundAnyway(t, S) == loaded' = loaded \union Found(t, S)

\* Under the lock of the scanner: what t found counts only if t is current.
AddFound(t, S) ==
  loaded' = IF taskGeneration[t] = generation
            THEN loaded \union Found(t, S) ELSE loaded

\* Mutant: a file that is no photo ends the scan.
ProcessEntryOrStop(t) ==
  /\ Scanning(t, Folders)
  /\ visiting[t] # {}
  /\ AddFound(t, {f \in visiting[t] : ScanFinds(f)})
  /\ visiting' = [visiting EXCEPT ![t] = {}]
  /\ status' = [status EXCEPT ![t] =
       IF \A f \in visiting[t] : ScanFinds(f) THEN "none" ELSE "Success"]
  /\ UNCHANGED <<serviceVars, guiVars, taskVars, remaining, queried>>

\* processPathEntry: a photo that can be read goes to the found callback.
ProcessEntry(t) ==
  /\ Scanning(t, Folders)
  /\ visiting[t] # {}
  /\ AddFound(t, {f \in visiting[t] : ScanFinds(f)})
  /\ visiting' = [visiting EXCEPT ![t] = {}]
  /\ UNCHANGED <<serviceVars, guiVars, taskVars, remaining, queried, status>>

\* The loop is over, gives up, or the directory iterator throws.
EndScan(t) ==
  /\ Scanning(t, Folders)
  /\ visiting[t] = {}
  /\ \E s \in Statuses \ {"none"} :
       /\ s = "Success" => remaining[t] = {}
       /\ s = "Cancelled" => remaining[t] # {} /\ t \in cancelled
       /\ status' = [status EXCEPT ![t] = s]
  /\ UNCHANGED <<serviceVars, guiVars, loaded, taskVars, remaining, visiting, queried>>

\* A library scan is one query and is not cancellable.  A database error
\* cuts its result short, and the scan succeeds all the same.
QueryLibrary(t) ==
  /\ Scanning(t, Libraries)
  /\ \E S \in SUBSET Content[taskSource[t]] :
       queried' = [queried EXCEPT ![t] = S]
  /\ status' = [status EXCEPT ![t] = "Success"]
  /\ UNCHANGED <<serviceVars, guiVars, loaded, taskVars, remaining, visiting>>

\* notifyCompletion: only a library scan has a result handler.
ReportScan(t) ==
  /\ status[t] # "none"
  /\ Service!Report(t)
  /\ IF taskSource[t] \in Libraries /\ status[t] = "Success"
     THEN AddFound(t, queried[t]) ELSE UNCHANGED loaded
  /\ UNCHANGED <<guiVars, taskVars, scanVars>>

FinalizeScan(t) ==
  /\ Service!Finalize(t)
  /\ UNCHANGED <<guiVars, loaded, taskVars, scanVars>>

WorkerStep(t) ==
  \/ StartScan(t) \/ VisitEntry(t) \/ ProcessEntry(t) \/ EndScan(t)
  \/ QueryLibrary(t) \/ ReportScan(t) \/ FinalizeScan(t)

-----------------------------------------------------------------------------
SetSourceStep == CancelScans \/ (\E t \in Tasks : CreateTask(t)) \/ SubmitTask

Next ==
  \/ \E s \in Sources : SetSource(s)
  \/ SetSourceStep
  \/ TakePhotos
  \/ \E t \in Tasks : WorkerStep(t)

Spec == Init /\ [][Next]_vars

\* The worker runs, setSource goes on once called, and the timer fires.
Fairness ==
  /\ WF_vars(\E t \in Tasks : WorkerStep(t))
  /\ WF_vars(SetSourceStep)
  /\ WF_vars(TakePhotos)

FairSpec == Spec /\ Fairness

-----------------------------------------------------------------------------
(* Properties.                                                             *)

\* Every variable keeps its type.
TypeOK ==
  /\ Service!TypeOK
  /\ gui \in GuiStates
  /\ source \in Sources \union {NoSource}
  /\ generation \in Nat
  /\ loaded \subseteq [photo : Entries, scan : Tasks]
  /\ delivered \subseteq [photo : Entries, scan : Tasks]
  /\ created \subseteq Tasks
  /\ taskGeneration \in [Tasks -> Nat]
  /\ \A t \in Tasks : phase[t] # "new" => taskGeneration[t] \in 1..generation
  /\ taskSource \in [Tasks -> Sources \union {NoSource}]
  /\ remaining \in [Tasks -> SUBSET Entries]
  /\ visiting \in [Tasks -> SUBSET Entries]
  /\ queried \in [Tasks -> SUBSET Entries]
  /\ status \in [Tasks -> Statuses]

\* No photo of an earlier source is ever in the list, nor handed out after
\* setSource returned, however late the old scans report.
OnlyCurrentPhotos ==
  \A r \in loaded \union delivered :
    /\ taskGeneration[r.scan] = generation
    /\ taskSource[r.scan] = source
    /\ r.photo \in Content[source]

\* A photo of the current source is handed out at most once.
FoundOnce ==
  /\ loaded \intersect delivered = {}
  /\ \A q, r \in loaded \union delivered : q.photo = r.photo => q = r

\* Once cancelAll is through, the scans asked to stop or dropped are exactly
\* those of older sources: none of them keeps the only worker busy unasked,
\* and the current one is never hit.
CancelledExactlyStale ==
  /\ \A t \in cancelled \union Service!InPhase("discarded") :
       taskGeneration[t] < generation
  /\ gui # "cancelling" =>
       \A t \in Service!InPhase("pending") \union Service!Active :
         taskGeneration[t] = generation \/ t \in cancelled

\* Importing a folder finds the photos that browsing it finds, and both find
\* what the settings dialog lists, whatever file stands where the scan is, how-
\* ever its extension is written, and if it is gone when it is looked at; each
\* has a decoder.
OnePhotoForAll ==
  \A t \in Tasks : \A e \in visiting[t] :
    \A f \in [name : {e.name}, extension : Extensions, capitals : BOOLEAN,
              kind : Kinds, size : 0..1] :
      /\ ImportFinds(f) <=> ScanFinds(f)
      /\ ScanFinds(f) <=> FileExists(f) /\ f.size > 0 /\ f.extension \in SupportedFileTypes
      /\ ScanFinds(f) => HasDecoder(f)

\* What a source should show: a folder the files of the types the settings
\* dialog lists, a library what the query returned.
ToShow(t) ==
  IF source \in Libraries THEN queried[t]
  ELSE {f \in Content[source] :
          f.kind = "file" /\ f.size > 0 /\ f.extension \in SupportedFileTypes}

\* A scan that ends well has found all of its source: what the GUI took of the
\* list and what is in it are what there is to show, in each state from the end
\* of the scan to the next setSource, although the list was emptied meanwhile
\* (processPathEntry, the result handler of a library scan, takePhotos).  What a
\* library scan has found is in the list once it has reported.
NothingIsSkipped ==
  \A t \in Tasks :
    /\ taskGeneration[t] = generation /\ status[t] = "Success"
    /\ source \in Libraries => phase[t] # "running"
    => {r.photo : r \in loaded \union delivered} = ToShow(t)

\* Every source the user stays with is shown whole, unless its scan fails: no
\* photo falls between setSource's steps, the reset, and the polling.
SourceIsShown ==
  \A g \in 1..Cardinality(Tasks) :
    generation = g ~>
      \/ generation # g
      \/ \E t \in Tasks :
           /\ taskGeneration[t] = g
           /\ \/ status[t] = "Failed"
              \/ status[t] = "Success" /\ Shown = ToShow(t)

\* The list the scans fill and the GUI empties: of the current source only, no
\* photo twice, and all of it when the scan has ended well.
FoundListIsSound == TypeOK /\ OnlyCurrentPhotos /\ FoundOnce /\ NothingIsSkipped
=============================================================================
