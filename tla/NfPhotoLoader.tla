--------------------------- MODULE NfPhotoLoader ---------------------------
(***************************************************************************)
(* NfPhotoLoader: thumbnails and previews for the photos on screen.  The   *)
(* GUI thread requests images and polls for the ids of those that are      *)
(* ready; the workers of the foreground pool run the image tasks and call  *)
(* the result handlers.  A new source starts a new generation: results of  *)
(* older ones are to be ignored.                                           *)
(*                                                                         *)
(* The scheduler and its threads are NfTaskService.  The loader calls it   *)
(* only while it holds its own m_mutex, which no step between them needs:  *)
(* a locked section and its scheduler call are one action.  A result       *)
(* handler locks twice, and fills the cache in between: each is a step.    *)
(***************************************************************************)
EXTENDS Integers, FiniteSets

CONSTANTS ThumbnailTasks, PreviewTasks, \* ids of the tasks there may be
          Photos,         \* photo ids: hashes of paths, the same in any source
          NoTask,         \* no task is pending for a photo
          PoolSize,       \* threads of the foreground pool
          MaxGeneration   \* bound on m_generationId (2^64 - 1 in the code)

\* NfRequestUtils::getTaskPriority: selected, visible, prefetched.
Critical == 0
Immediate == 10
High == 20
Priorities == {Critical, Immediate, High}
ThumbnailPriorities == {Immediate, High}  \* visible and prefetched ones
PreviewPriorities == {Critical, High}     \* selected and prefetched ones

Tasks == ThumbnailTasks \union PreviewTasks

ASSUME LoaderAssumption ==
  /\ Tasks \subseteq Nat
  /\ ThumbnailTasks \intersect PreviewTasks = {}
  /\ NoTask \notin Tasks
  /\ PoolSize \in Nat \ {0}
  /\ MaxGeneration \in Nat

VARIABLES
  phase, priority, cancelled,  \* the task service
  generation,                  \* m_generationId
  pendingThumbnailTasks,       \* m_pendingThumbnailTasks, NoTask where absent
  thumbnailsQueue,             \* m_thumbnailsQueue, each id with its task
  previewsQueue,               \* m_previewsQueue, each id with its task
  thumbnailsCache,             \* ids in m_thumbnailsCache (and pixmap cache)
  previewsCache,               \* ids in m_previewsCache (and pixmap cache)
  evicted,                     \* history: <<cache, id>> evicted, not added again
  photoOf,                     \* the photo of a submitted task
  taskGeneration,              \* NfTask::m_generationId
  step                         \* how far a task and its result handler are

serviceVars == <<phase, priority, cancelled>>
cacheVars == <<thumbnailsCache, previewsCache, evicted>>
taskVars == <<photoOf, taskGeneration>>
vars == <<serviceVars, generation, pendingThumbnailTasks, thumbnailsQueue,
          previewsQueue, cacheVars, taskVars, step>>

Service == INSTANCE NfTaskService

Steps == {"execute", "failed", "loaded", "current", "cached", "done"}

NoPhoto == "none"
Submitted == {t \in Tasks : phase[t] # "new"}

\* A task on its way through the service, its handler not yet over.
Live(t) == phase[t] \in {"pending", "running"}
Stale(t) == taskGeneration[t] < generation

-----------------------------------------------------------------------------
Init ==
  /\ Service!Init /\ priority = [t \in Tasks |-> Immediate]
  /\ generation = 0
  /\ pendingThumbnailTasks = [p \in Photos |-> NoTask]
  /\ thumbnailsQueue = {} /\ previewsQueue = {}
  /\ thumbnailsCache = {} /\ previewsCache = {} /\ evicted = {}
  /\ photoOf = [t \in Tasks |-> NoPhoto]
  /\ taskGeneration = [t \in Tasks |-> 0]
  /\ step = [t \in Tasks |-> "execute"]

-----------------------------------------------------------------------------
(* The GUI thread.                                                         *)

\* The tasks the loader still tracks.
TrackedTasks == {pendingThumbnailTasks[p] : p \in Photos} \ {NoTask}

\* Mutant: the entries are cleared before their ids are collected.
SetSourceClearFirst ==
  /\ generation < MaxGeneration
  /\ generation' = generation + 1
  /\ thumbnailsQueue' = {}
  /\ pendingThumbnailTasks' = [p \in Photos |-> NoTask]
  /\ Service!Cancel({})
  /\ UNCHANGED <<previewsQueue, cacheVars, taskVars, step>>

\* setSource: the tracked tasks are cancelled, the others are not.
SetSource ==
  /\ generation < MaxGeneration
  /\ generation' = generation + 1
  /\ thumbnailsQueue' = {}
  /\ pendingThumbnailTasks' = [p \in Photos |-> NoTask]
  /\ Service!Cancel(TrackedTasks)
  /\ UNCHANGED <<previewsQueue, cacheVars, taskVars, step>>

\* The next id of those in S.
NextId(S) == {t \in S : phase[t] = "new" /\ \A u \in S : phase[u] = "new" => t <= u}

\* A task for photo p is created in this generation and submitted.
SubmitTask(t, p, pr) ==
  /\ Service!Submit(t, pr)
  /\ photoOf' = [photoOf EXCEPT ![t] = p]
  /\ taskGeneration' = [taskGeneration EXCEPT ![t] = generation]

\* getThumbnail of the provider asks the loader only for what neither its own
\* pixmaps nor the thumbnail cache have.
NotCached(p) == p \notin thumbnailsCache

\* requestThumbnail of a photo that has a task: only its priority changes,
\* and only while it is queued.
RaisePriority(p, pr) ==
  /\ NotCached(p)
  /\ pendingThumbnailTasks[p] # NoTask
  /\ Service!Reprioritize(pendingThumbnailTasks[p], pr)
  /\ UNCHANGED <<generation, pendingThumbnailTasks, thumbnailsQueue,
                 previewsQueue, cacheVars, taskVars, step>>

\* requestThumbnail of a photo without one.
RequestThumbnail(p, pr) ==
  /\ NotCached(p)
  /\ pendingThumbnailTasks[p] = NoTask
  /\ \E t \in NextId(ThumbnailTasks) :
       /\ SubmitTask(t, p, pr)
       /\ pendingThumbnailTasks' = [pendingThumbnailTasks EXCEPT ![p] = t]
  /\ UNCHANGED <<generation, thumbnailsQueue, previewsQueue, cacheVars, step>>

\* requestPreview keeps no record of what it submitted.
RequestPreview(p, pr) ==
  /\ p \notin previewsCache
  /\ \E t \in NextId(PreviewTasks) : SubmitTask(t, p, pr)
  /\ UNCHANGED <<generation, pendingThumbnailTasks, thumbnailsQueue,
                 previewsQueue, cacheVars, step>>

Queued(queue) == {r.photo : r \in queue}

\* Mutant: the tasks of the photos handed out stay tracked.
TakeThumbnailsKeepPending ==
  /\ thumbnailsQueue # {}
  /\ thumbnailsQueue' = {}
  /\ UNCHANGED <<serviceVars, generation, pendingThumbnailTasks, previewsQueue,
                 cacheVars, taskVars, step>>

\* takeThumbnails, called by the provider's timer.
TakeThumbnails ==
  /\ thumbnailsQueue # {}
  /\ thumbnailsQueue' = {}
  /\ pendingThumbnailTasks' = [p \in Photos |->
       IF p \in Queued(thumbnailsQueue) THEN NoTask ELSE pendingThumbnailTasks[p]]
  /\ UNCHANGED <<serviceVars, generation, previewsQueue, cacheVars, taskVars, step>>

TakePreviews ==
  /\ previewsQueue # {}
  /\ previewsQueue' = {}
  /\ UNCHANGED <<serviceVars, generation, pendingThumbnailTasks, thumbnailsQueue,
                 cacheVars, taskVars, step>>

-----------------------------------------------------------------------------
(* The caches.                                                             *)

\* Adding other images pushes this one out.
EvictThumbnail(p) ==
  /\ p \in thumbnailsCache
  /\ thumbnailsCache' = thumbnailsCache \ {p}
  /\ evicted' = evicted \union {<<"thumbnail", p>>}
  /\ UNCHANGED <<serviceVars, generation, pendingThumbnailTasks, thumbnailsQueue,
                 previewsQueue, previewsCache, taskVars, step>>

EvictPreview(p) ==
  /\ p \in previewsCache
  /\ previewsCache' = previewsCache \ {p}
  /\ evicted' = evicted \union {<<"preview", p>>}
  /\ UNCHANGED <<serviceVars, generation, pendingThumbnailTasks, thumbnailsQueue,
                 previewsQueue, thumbnailsCache, taskVars, step>>

-----------------------------------------------------------------------------
(* The workers.                                                            *)

StartTask(t) ==
  /\ Cardinality(Service!Active) < PoolSize
  /\ Service!Start(t)
  /\ UNCHANGED <<generation, pendingThumbnailTasks, thumbnailsQueue,
                 previewsQueue, cacheVars, taskVars, step>>

\* The step of a running task moves on; nothing else does.
Advance(t, from, to) ==
  /\ phase[t] = "running"
  /\ step[t] = from
  /\ step' = [step EXCEPT ![t] = to]

\* execute decodes the image or fails; it does not look at m_cancelled.
ExecuteTask(t) ==
  /\ Advance(t, "execute", "loaded") \/ Advance(t, "execute", "failed")
  /\ UNCHANGED <<serviceVars, generation, pendingThumbnailTasks, thumbnailsQueue,
                 previewsQueue, cacheVars, taskVars>>

\* Whatever task p is tracked with, it is no longer.
Untrack(p) == pendingThumbnailTasks' = [pendingThumbnailTasks EXCEPT ![p] = NoTask]

\* Mutant: a photo whose thumbnail failed stays tracked.
FailThumbnailKeepPending(t) ==
  /\ t \in ThumbnailTasks
  /\ Advance(t, "failed", "done")
  /\ Service!Report(t)
  /\ UNCHANGED <<generation, pendingThumbnailTasks, thumbnailsQueue,
                 previewsQueue, cacheVars, taskVars>>

\* The thumbnail handler of a task that failed.
FailThumbnail(t) ==
  /\ t \in ThumbnailTasks
  /\ Advance(t, "failed", "done")
  /\ Service!Report(t)
  /\ Untrack(photoOf[t])
  /\ UNCHANGED <<generation, thumbnailsQueue, previewsQueue, cacheVars, taskVars>>

\* The preview handler of a task that failed.
FailPreview(t) ==
  /\ t \in PreviewTasks
  /\ Advance(t, "failed", "done")
  /\ Service!Report(t)
  /\ UNCHANGED <<generation, pendingThumbnailTasks, thumbnailsQueue,
                 previewsQueue, cacheVars, taskVars>>

\* The handler finds the result to be of the current generation ...
CheckCurrent(t) ==
  /\ taskGeneration[t] = generation
  /\ Advance(t, "loaded", "current")
  /\ UNCHANGED <<serviceVars, generation, pendingThumbnailTasks, thumbnailsQueue,
                 previewsQueue, cacheVars, taskVars>>

\* ... or not, and ignores it.
IgnoreThumbnail(t) ==
  /\ t \in ThumbnailTasks
  /\ taskGeneration[t] # generation
  /\ Advance(t, "loaded", "done")
  /\ Service!Report(t)
  /\ Untrack(photoOf[t])
  /\ UNCHANGED <<generation, thumbnailsQueue, previewsQueue, cacheVars, taskVars>>

IgnorePreview(t) ==
  /\ t \in PreviewTasks
  /\ taskGeneration[t] # generation
  /\ Advance(t, "loaded", "done")
  /\ Service!Report(t)
  /\ UNCHANGED <<generation, pendingThumbnailTasks, thumbnailsQueue,
                 previewsQueue, cacheVars, taskVars>>

\* The image goes into its cache, outside the lock.
CacheImage(t) ==
  /\ Advance(t, "current", "cached")
  /\ IF t \in ThumbnailTasks
     THEN /\ thumbnailsCache' = thumbnailsCache \union {photoOf[t]}
          /\ evicted' = evicted \ {<<"thumbnail", photoOf[t]>>}
          /\ UNCHANGED previewsCache
     ELSE /\ previewsCache' = previewsCache \union {photoOf[t]}
          /\ evicted' = evicted \ {<<"preview", photoOf[t]>>}
          /\ UNCHANGED thumbnailsCache
  /\ UNCHANGED <<serviceVars, generation, pendingThumbnailTasks, thumbnailsQueue,
                 previewsQueue, taskVars>>

\* The second lock of the handler: the photo's id is queued, unchecked.
PushThumbnail(t) ==
  /\ t \in ThumbnailTasks
  /\ Advance(t, "cached", "done")
  /\ Service!Report(t)
  /\ thumbnailsQueue' = thumbnailsQueue \union {[photo |-> photoOf[t], task |-> t]}
  /\ UNCHANGED <<generation, pendingThumbnailTasks, previewsQueue, cacheVars, taskVars>>

\* The same for a preview, which is also taken from its own queue.
PushPreview(t) ==
  /\ t \in PreviewTasks
  /\ Advance(t, "cached", "done")
  /\ Service!Report(t)
  /\ previewsQueue' = previewsQueue \union {[photo |-> photoOf[t], task |-> t]}
  /\ UNCHANGED <<generation, pendingThumbnailTasks, thumbnailsQueue, cacheVars, taskVars>>

FinalizeTask(t) ==
  /\ Service!Finalize(t)
  /\ UNCHANGED <<generation, pendingThumbnailTasks, thumbnailsQueue,
                 previewsQueue, cacheVars, taskVars, step>>

\* What a worker does with the task it holds.
TaskStep(t) ==
  \/ ExecuteTask(t) \/ FailThumbnail(t) \/ FailPreview(t) \/ CheckCurrent(t)
  \/ IgnoreThumbnail(t) \/ IgnorePreview(t) \/ CacheImage(t)
  \/ PushThumbnail(t) \/ PushPreview(t) \/ FinalizeTask(t)

-----------------------------------------------------------------------------
Next ==
  \/ SetSource
  \/ \E p \in Photos, pr \in ThumbnailPriorities :
       RequestThumbnail(p, pr) \/ RaisePriority(p, pr)
  \/ \E p \in Photos, pr \in PreviewPriorities : RequestPreview(p, pr)
  \/ TakeThumbnails \/ TakePreviews
  \/ \E p \in Photos : EvictThumbnail(p) \/ EvictPreview(p)
  \/ \E t \in Tasks : StartTask(t) \/ TaskStep(t)

Spec == Init /\ [][Next]_vars

\* Workers run, idle ones take queued tasks, and the provider's timer fires.
Fairness ==
  /\ \A t \in Tasks : WF_vars(TaskStep(t))
  /\ WF_vars(\E t \in Tasks : StartTask(t))
  /\ WF_vars(TakeThumbnails) /\ WF_vars(TakePreviews)

FairSpec == Spec /\ Fairness

-----------------------------------------------------------------------------
(* Properties.                                                             *)

\* Every variable keeps its type.
TypeOK ==
  /\ Service!TypeOK
  /\ generation \in 0..MaxGeneration
  /\ pendingThumbnailTasks \in [Photos -> ThumbnailTasks \union {NoTask}]
  /\ thumbnailsQueue \subseteq [photo : Photos, task : ThumbnailTasks]
  /\ previewsQueue \subseteq [photo : Photos, task : PreviewTasks]
  /\ thumbnailsCache \subseteq Photos /\ previewsCache \subseteq Photos
  /\ evicted \subseteq {"thumbnail", "preview"} \X Photos
  /\ photoOf \in [Tasks -> Photos \union {NoPhoto}]
  /\ taskGeneration \in [Tasks -> 0..MaxGeneration]
  /\ step \in [Tasks -> Steps]

\* A tracked photo is never stuck: its task is one of this generation that
\* will still call its handler, or has queued the photo for the GUI.  (The
\* loader submits nothing for a tracked photo, so a stuck one would stay a
\* placeholder until the next source.)
TrackedPhotoNotStuck ==
  \A p \in Photos :
    LET t == pendingThumbnailTasks[p] IN
    t # NoTask =>
      /\ photoOf[t] = p /\ taskGeneration[t] = generation
      /\ Live(t) \/ p \in Queued(thumbnailsQueue)

\* A task of an older source has finished with the photo of t: its handler has
\* cleared the entry of t or queued the photo, if it came after the switch.
OlderFinished(t) ==
  \E v \in ThumbnailTasks :
    /\ photoOf[v] = photoOf[t]
    /\ taskGeneration[v] < taskGeneration[t]
    /\ phase[v] \in {"reported", "finalized"}

\* setSource reaches every thumbnail task of the sources before: none is still
\* queued, where it would be decoded ahead of the photos on screen, and those
\* that run were asked to stop.  It finds them by the entries of the pending
\* map, so it misses a task whose entry an older task's handler has cleared.
StaleAreCancelled ==
  \A t \in ThumbnailTasks :
    Stale(t) /\ Live(t) =>
      (phase[t] = "running" /\ t \in cancelled) \/ OlderFinished(t)

\* The GUI is told of an image only after it can be found in the cache (it
\* asks once and falls back to a placeholder), unless it was evicted since.
AnnouncedImageCached ==
  /\ \A p \in Queued(thumbnailsQueue) :
       p \in thumbnailsCache \/ <<"thumbnail", p>> \in evicted
  /\ \A p \in Queued(previewsQueue) :
       p \in previewsCache \/ <<"preview", p>> \in evicted

\* Two tasks of one generation work on one thumbnail only when a task of an
\* older source, whose handler cleared the entry of the newer one or queued
\* the photo, was running at the switch.
DuplicateOnlyAfterSwitch ==
  \A t, u \in ThumbnailTasks :
    Live(t) /\ Live(u) /\ t # u /\ photoOf[t] = photoOf[u]
      /\ taskGeneration[t] = taskGeneration[u]
    => OlderFinished(t)

\* Every tracked photo is handed to the GUI or given up: no request hangs.
EveryRequestEnds ==
  \A p \in Photos :
    pendingThumbnailTasks[p] # NoTask ~> pendingThumbnailTasks[p] = NoTask

\* What is tracked, queued and cached agrees, in every order in which setSource,
\* the handlers and the polling come.
RequestsAreSound ==
  TypeOK /\ TrackedPhotoNotStuck /\ AnnouncedImageCached /\ DuplicateOnlyAfterSwitch
=============================================================================
