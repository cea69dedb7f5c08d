------------------------ MODULE NfPhotoLoaderProofs ------------------------
(***************************************************************************)
(* Proofs about NfPhotoLoader for every set of photos and tasks, any pool  *)
(* size and any number of source switches.                                 *)
(***************************************************************************)
EXTENDS NfPhotoLoader, TLAPS

-----------------------------------------------------------------------------
(* The inductive invariant.                                                *)

Finished(t) == phase[t] \in {"reported", "finalized"}

\* A submitted task has its photo, and no task is of a source to come.
TaskData ==
  \A t \in Tasks :
    /\ phase[t] # "new" => photoOf[t] \in Photos
    /\ taskGeneration[t] <= generation

\* The handler of a task moves while the task runs, and ends with it.
StepFitsPhase ==
  \A t \in Tasks :
    /\ phase[t] \in {"new", "pending"} => step[t] = "execute"
    /\ phase[t] = "running" => step[t] # "done"

\* An image that its handler has put into the cache is there or was evicted.
CachedImageThere ==
  \A t \in Tasks : step[t] = "cached" =>
    /\ t \in ThumbnailTasks =>
         photoOf[t] \in thumbnailsCache \/ <<"thumbnail", photoOf[t]>> \in evicted
    /\ t \in PreviewTasks =>
         photoOf[t] \in previewsCache \/ <<"preview", photoOf[t]>> \in evicted

\* A queued photo is that of a thumbnail task that has finished.
QueueOfFinished ==
  \A r \in thumbnailsQueue : r.photo = photoOf[r.task] /\ Finished(r.task)

\* What the loader tracks was submitted.
TrackedSubmitted ==
  \A p \in Photos : pendingThumbnailTasks[p] # NoTask =>
    phase[pendingThumbnailTasks[p]] # "new"

\* A task of the present source that still has something to say of its photo.
Engaged(t) ==
  /\ taskGeneration[t] = generation
  /\ Live(t) \/ \E r \in thumbnailsQueue : r.task = t

\* Such a task is the one its photo is tracked with, unless an older one came
\* in between.
EngagedTracked ==
  \A t \in ThumbnailTasks :
    Engaged(t) => pendingThumbnailTasks[photoOf[t]] = t \/ OlderFinished(t)

IInv ==
  /\ RequestsAreSound /\ StaleAreCancelled
  /\ TaskData /\ StepFitsPhase /\ CachedImageThere
  /\ QueueOfFinished /\ TrackedSubmitted /\ EngagedTracked

-----------------------------------------------------------------------------
(* Type correctness.                                                       *)

\* The caches and queues hold photos because what is submitted has one.
LEMMA TypeStep ==
  /\ Init => TypeOK
  /\ TypeOK /\ TaskData /\ [Next]_vars => TypeOK'
<1> USE LoaderAssumption DEF TypeOK, Service!TypeOK, Service!Phases, Priorities,
          Critical, Immediate, High, Steps, Tasks, serviceVars, cacheVars, taskVars
<1>1. Init => TypeOK
  BY DEF Init, Service!Init
<1>2. ASSUME TypeOK, TaskData, [Next]_vars
      PROVE  TypeOK'
  <2> USE <1>2
  <2>1. CASE SetSource
    BY <2>1 DEF SetSource, Service!Cancel, Service!Move, Service!InPhase, Service!Active
  <2>2. ASSUME NEW p \in Photos, NEW pr \in ThumbnailPriorities, RequestThumbnail(p, pr)
        PROVE  TypeOK'
    <3>1. PICK t \in ThumbnailTasks :
            /\ SubmitTask(t, p, pr)
            /\ pendingThumbnailTasks' = [pendingThumbnailTasks EXCEPT ![p] = t]
      BY <2>2 DEF RequestThumbnail, NextId
    <3>2. QED
      BY <2>2, <3>1 DEF RequestThumbnail, SubmitTask, Service!Submit, Service!Move,
                        ThumbnailPriorities
  <2>3. ASSUME NEW p \in Photos, NEW pr \in ThumbnailPriorities, RaisePriority(p, pr)
        PROVE  TypeOK'
    BY <2>3 DEF RaisePriority, Service!Reprioritize, ThumbnailPriorities
  <2>4. ASSUME NEW p \in Photos, NEW pr \in PreviewPriorities, RequestPreview(p, pr)
        PROVE  TypeOK'
    BY <2>4 DEF RequestPreview, NextId, SubmitTask, Service!Submit, Service!Move,
                PreviewPriorities
  <2>5. CASE TakeThumbnails
    BY <2>5 DEF TakeThumbnails
  <2>6. CASE TakePreviews
    BY <2>6 DEF TakePreviews
  <2>7. ASSUME NEW p \in Photos, EvictThumbnail(p) \/ EvictPreview(p)
        PROVE  TypeOK'
    BY <2>7 DEF EvictThumbnail, EvictPreview
  <2>8. ASSUME NEW t \in Tasks, StartTask(t)
        PROVE  TypeOK'
    BY <2>8 DEF StartTask, Service!Start, Service!Move
  <2>9. ASSUME NEW t \in Tasks, TaskStep(t)
        PROVE  TypeOK'
    <3>1. CASE ExecuteTask(t) \/ CheckCurrent(t)
      BY <3>1 DEF ExecuteTask, CheckCurrent, Advance
    <3>2. CASE FailThumbnail(t) \/ IgnoreThumbnail(t)
      BY <3>2 DEF FailThumbnail, IgnoreThumbnail, Advance, Untrack, Service!Report,
                  Service!Move
    <3>3. CASE FailPreview(t) \/ IgnorePreview(t)
      BY <3>3 DEF FailPreview, IgnorePreview, Advance, Service!Report, Service!Move
    <3>4. CASE CacheImage(t)
      <4>1. photoOf[t] \in Photos
        BY <3>4 DEF CacheImage, Advance, TaskData
      <4>2. QED
        BY <3>4, <4>1 DEF CacheImage, Advance
    <3>5. CASE PushThumbnail(t) \/ PushPreview(t)
      <4>1. photoOf[t] \in Photos
        BY <3>5 DEF PushThumbnail, PushPreview, Advance, TaskData
      <4>2. QED
        BY <3>5, <4>1 DEF PushThumbnail, PushPreview, Advance, Service!Report, Service!Move
    <3>6. CASE FinalizeTask(t)
      BY <3>6 DEF FinalizeTask, Service!Finalize, Service!Move
    <3>7. QED
      BY <2>9, <3>1, <3>2, <3>3, <3>4, <3>5, <3>6 DEF TaskStep
  <2>10. CASE UNCHANGED vars
    BY <2>10 DEF vars
  <2>11. QED
    BY <2>1, <2>2, <2>3, <2>4, <2>5, <2>6, <2>7, <2>8, <2>9, <2>10 DEF Next
<1>3. QED
  BY <1>1, <1>2

-----------------------------------------------------------------------------
(* What a step may do to the tasks.                                        *)

\* A task keeps its photo and its generation once it is submitted; a task that
\* finished stays so, one that runs is not queued again, one that was asked to
\* stop stays asked; sources only become newer.
Onwards ==
  /\ generation' >= generation
  /\ cancelled \subseteq cancelled'
  /\ \A t \in Tasks :
       /\ phase[t] # "new" =>
            /\ phase'[t] # "new"
            /\ photoOf'[t] = photoOf[t] /\ taskGeneration'[t] = taskGeneration[t]
       /\ Finished(t) => Finished(t)'
       /\ ~ Live(t) /\ phase[t] # "new" => ~ Live(t)'
       /\ phase[t] = "running" => phase'[t] # "pending"

LEMMA StepsOnwards ==
  ASSUME TypeOK, TypeOK', [Next]_vars
  PROVE  Onwards
<1> USE LoaderAssumption DEF Onwards, TypeOK, Service!TypeOK, Finished, Live, Tasks,
          serviceVars, cacheVars, taskVars
<1>1. CASE SetSource
  BY <1>1 DEF SetSource, Service!Cancel, Service!Move, Service!InPhase
<1>2. ASSUME NEW t \in Tasks, NEW p \in Photos, NEW pr \in Priorities,
             SubmitTask(t, p, pr), UNCHANGED generation
      PROVE  Onwards
  BY <1>2 DEF SubmitTask, Service!Submit, Service!Move
<1>3. ASSUME NEW p \in Photos, NEW pr \in ThumbnailPriorities, RequestThumbnail(p, pr)
      PROVE  Onwards
  BY <1>2, <1>3 DEF RequestThumbnail, NextId, ThumbnailPriorities, Priorities
<1>4. ASSUME NEW p \in Photos, NEW pr \in PreviewPriorities, RequestPreview(p, pr)
      PROVE  Onwards
  BY <1>2, <1>4 DEF RequestPreview, NextId, PreviewPriorities, Priorities
<1>5. CASE UNCHANGED <<phase, cancelled, generation, taskVars>>
  BY <1>5
<1>6. ASSUME NEW p \in Photos, NEW pr \in ThumbnailPriorities, RaisePriority(p, pr)
      PROVE  Onwards
  BY <1>5, <1>6 DEF RaisePriority, Service!Reprioritize
<1>7. ASSUME NEW t \in Tasks, StartTask(t)
      PROVE  Onwards
  BY <1>7 DEF StartTask, Service!Start, Service!Move
<1>8. ASSUME NEW t \in Tasks, Service!Report(t), UNCHANGED <<generation, taskVars>>
      PROVE  Onwards
  BY <1>8 DEF Service!Report, Service!Move
<1>9. ASSUME NEW t \in Tasks, TaskStep(t)
      PROVE  Onwards
  <2>1. CASE ExecuteTask(t) \/ CheckCurrent(t) \/ CacheImage(t)
    BY <2>1, <1>5 DEF ExecuteTask, CheckCurrent, CacheImage
  <2>2. CASE FailThumbnail(t) \/ IgnoreThumbnail(t) \/ FailPreview(t) \/ IgnorePreview(t)
    BY <2>2, <1>8 DEF FailThumbnail, IgnoreThumbnail, FailPreview, IgnorePreview
  <2>3. CASE PushThumbnail(t) \/ PushPreview(t)
    BY <2>3, <1>8 DEF PushThumbnail, PushPreview
  <2>4. CASE FinalizeTask(t)
    BY <2>4 DEF FinalizeTask, Service!Finalize, Service!Move
  <2>5. QED
    BY <1>9, <2>1, <2>2, <2>3, <2>4 DEF TaskStep
<1>10. CASE TakeThumbnails \/ TakePreviews \/ UNCHANGED vars
  BY <1>10, <1>5 DEF TakeThumbnails, TakePreviews, vars
<1>11. ASSUME NEW p \in Photos, EvictThumbnail(p) \/ EvictPreview(p)
       PROVE  Onwards
  BY <1>11, <1>5 DEF EvictThumbnail, EvictPreview
<1>12. QED
  BY <1>1, <1>3, <1>4, <1>6, <1>7, <1>9, <1>10, <1>11 DEF Next

-----------------------------------------------------------------------------
(* Each part of the invariant is kept.                                     *)

\* What a step submits gets its photo and the present generation.
LEMMA TaskDataStep ==
  ASSUME TypeOK, TypeOK', TaskData, [Next]_vars
  PROVE  TaskData'
<1> USE LoaderAssumption DEF TypeOK, Service!TypeOK, TaskData, Tasks, Priorities,
          serviceVars, taskVars
<1>1. Onwards
  BY StepsOnwards
<1> SUFFICES ASSUME NEW t \in Tasks, phase[t] = "new"
             PROVE  /\ phase'[t] # "new" => photoOf'[t] \in Photos
                    /\ taskGeneration'[t] <= generation'
  BY <1>1 DEF Onwards
<1>3. CASE phase'[t] = "new" /\ photoOf' = photoOf /\ taskGeneration' = taskGeneration
  BY <1>1, <1>3 DEF taskVars, Onwards
<1>4. ASSUME NEW u \in Tasks, NEW p \in Photos, NEW pr \in Priorities,
             SubmitTask(u, p, pr), UNCHANGED generation
      PROVE  /\ phase'[t] # "new" => photoOf'[t] \in Photos
             /\ taskGeneration'[t] <= generation'
  BY <1>4 DEF SubmitTask, Service!Submit, Service!Move
<1>5. CASE SetSource
  BY <1>3, <1>5 DEF SetSource, Service!Cancel, Service!Move, Service!InPhase
<1>6. ASSUME NEW p \in Photos, NEW pr \in ThumbnailPriorities,
             RequestThumbnail(p, pr) \/ RaisePriority(p, pr)
      PROVE  /\ phase'[t] # "new" => photoOf'[t] \in Photos
             /\ taskGeneration'[t] <= generation'
  <2>1. CASE RequestThumbnail(p, pr)
    BY <1>4, <2>1 DEF RequestThumbnail, NextId, ThumbnailPriorities
  <2>2. CASE RaisePriority(p, pr)
    BY <1>3, <2>2 DEF RaisePriority, Service!Reprioritize
  <2>3. QED
    BY <1>6, <2>1, <2>2
<1>7. ASSUME NEW p \in Photos, NEW pr \in PreviewPriorities, RequestPreview(p, pr)
      PROVE  /\ phase'[t] # "new" => photoOf'[t] \in Photos
             /\ taskGeneration'[t] <= generation'
  BY <1>4, <1>7 DEF RequestPreview, NextId, PreviewPriorities
<1>8. CASE TakeThumbnails \/ TakePreviews \/ UNCHANGED vars
  BY <1>3, <1>8 DEF TakeThumbnails, TakePreviews, vars, serviceVars
<1>9. ASSUME NEW p \in Photos, EvictThumbnail(p) \/ EvictPreview(p)
      PROVE  phase'[t] = "new" /\ photoOf' = photoOf /\ taskGeneration' = taskGeneration
  BY <1>9 DEF EvictThumbnail, EvictPreview, serviceVars
<1>10. ASSUME NEW u \in Tasks, StartTask(u)
       PROVE  phase'[t] = "new" /\ photoOf' = photoOf /\ taskGeneration' = taskGeneration
  BY <1>10 DEF StartTask, Service!Start, Service!Move
<1>11. ASSUME NEW u \in Tasks, TaskStep(u)
       PROVE  phase'[t] = "new" /\ photoOf' = photoOf /\ taskGeneration' = taskGeneration
  <2>1. CASE ExecuteTask(u) \/ CheckCurrent(u) \/ CacheImage(u)
    BY <2>1 DEF ExecuteTask, CheckCurrent, CacheImage, serviceVars
  <2>2. CASE FailThumbnail(u) \/ IgnoreThumbnail(u) \/ FailPreview(u) \/ IgnorePreview(u)
    BY <2>2 DEF FailThumbnail, IgnoreThumbnail, FailPreview, IgnorePreview,
                Service!Report, Service!Move
  <2>3. CASE PushThumbnail(u) \/ PushPreview(u)
    BY <2>3 DEF PushThumbnail, PushPreview, Service!Report, Service!Move
  <2>4. CASE FinalizeTask(u)
    BY <2>4 DEF FinalizeTask, Service!Finalize, Service!Move
  <2>5. QED
    BY <1>11, <2>1, <2>2, <2>3, <2>4 DEF TaskStep
<1>12. QED
  BY <1>3, <1>5, <1>6, <1>7, <1>8, <1>9, <1>10, <1>11 DEF Next

\* The handler's steps come in order, while its task runs.
LEMMA StepFitsPhaseStep ==
  ASSUME TypeOK, StepFitsPhase, [Next]_vars
  PROVE  StepFitsPhase'
<1> USE DEF TypeOK, Service!TypeOK, StepFitsPhase, serviceVars, Tasks
<1>1. CASE SetSource
  BY <1>1 DEF SetSource, Service!Cancel, Service!Move, Service!InPhase
<1>2. ASSUME NEW p \in Photos, NEW pr \in ThumbnailPriorities,
             RequestThumbnail(p, pr) \/ RaisePriority(p, pr)
      PROVE  StepFitsPhase'
  BY <1>2 DEF RequestThumbnail, NextId, SubmitTask, Service!Submit, Service!Move,
              RaisePriority, Service!Reprioritize
<1>3. ASSUME NEW p \in Photos, NEW pr \in PreviewPriorities, RequestPreview(p, pr)
      PROVE  StepFitsPhase'
  BY <1>3 DEF RequestPreview, NextId, SubmitTask, Service!Submit, Service!Move
<1>4. CASE TakeThumbnails \/ TakePreviews \/ UNCHANGED vars
  BY <1>4 DEF TakeThumbnails, TakePreviews, vars
<1>5. ASSUME NEW p \in Photos, EvictThumbnail(p) \/ EvictPreview(p)
      PROVE  StepFitsPhase'
  BY <1>5 DEF EvictThumbnail, EvictPreview
<1>6. ASSUME NEW t \in Tasks, StartTask(t)
      PROVE  StepFitsPhase'
  BY <1>6 DEF StartTask, Service!Start, Service!Move
<1>7. ASSUME NEW t \in Tasks, TaskStep(t)
      PROVE  StepFitsPhase'
  <2>1. CASE ExecuteTask(t) \/ CheckCurrent(t) \/ CacheImage(t)
    BY <2>1 DEF ExecuteTask, CheckCurrent, CacheImage, Advance
  <2>2. CASE FailThumbnail(t) \/ IgnoreThumbnail(t) \/ FailPreview(t) \/ IgnorePreview(t)
    BY <2>2 DEF FailThumbnail, IgnoreThumbnail, FailPreview, IgnorePreview, Advance,
                Service!Report, Service!Move
  <2>3. CASE PushThumbnail(t) \/ PushPreview(t)
    BY <2>3 DEF PushThumbnail, PushPreview, Advance, Service!Report, Service!Move
  <2>4. CASE FinalizeTask(t)
    BY <2>4 DEF FinalizeTask, Service!Finalize, Service!Move
  <2>5. QED
    BY <1>7, <2>1, <2>2, <2>3, <2>4 DEF TaskStep
<1>8. QED
  BY <1>1, <1>2, <1>3, <1>4, <1>5, <1>6, <1>7 DEF Next

\* An image is in its cache before its photo is queued, and what leaves the
\* cache is remembered as evicted.
LEMMA CachesStep ==
  ASSUME TypeOK, StepFitsPhase, CachedImageThere, AnnouncedImageCached, [Next]_vars
  PROVE  CachedImageThere' /\ AnnouncedImageCached'
<1> DEFINE Done == CachedImageThere' /\ AnnouncedImageCached'
<1> USE DEF TypeOK, Service!TypeOK, CachedImageThere, AnnouncedImageCached, Queued,
          cacheVars, taskVars, Tasks
<1>1. CASE /\ UNCHANGED <<cacheVars, photoOf>>
           /\ thumbnailsQueue' \subseteq thumbnailsQueue
           /\ previewsQueue' \subseteq previewsQueue
           /\ \A t \in Tasks : step'[t] = "cached" => step[t] = "cached"
  BY <1>1
<1>2. CASE SetSource
  BY <1>1, <1>2 DEF SetSource
<1>3. ASSUME NEW t \in Tasks, NEW p \in Photos, NEW pr, SubmitTask(t, p, pr),
             UNCHANGED <<thumbnailsQueue, previewsQueue, cacheVars, step>>
      PROVE  Done
  <2>1. \A u \in Tasks : step[u] = "cached" => photoOf'[u] = photoOf[u]
    BY <1>3 DEF SubmitTask, Service!Submit, StepFitsPhase
  <2>2. QED
    BY <1>3, <2>1
<1>4. ASSUME NEW p \in Photos, NEW pr \in ThumbnailPriorities, RequestThumbnail(p, pr)
      PROVE  Done
  BY <1>3, <1>4 DEF RequestThumbnail, NextId
<1>5. ASSUME NEW p \in Photos, NEW pr \in ThumbnailPriorities, RaisePriority(p, pr)
      PROVE  Done
  BY <1>1, <1>5 DEF RaisePriority
<1>6. ASSUME NEW p \in Photos, NEW pr \in PreviewPriorities, RequestPreview(p, pr)
      PROVE  Done
  BY <1>3, <1>6 DEF RequestPreview, NextId
<1>7. CASE TakeThumbnails \/ TakePreviews \/ UNCHANGED vars
  BY <1>1, <1>7 DEF TakeThumbnails, TakePreviews, vars
<1>8. ASSUME NEW p \in Photos, EvictThumbnail(p) \/ EvictPreview(p)
      PROVE  Done
  BY <1>8 DEF EvictThumbnail, EvictPreview
<1>9. ASSUME NEW t \in Tasks, StartTask(t)
      PROVE  Done
  BY <1>1, <1>9 DEF StartTask
<1>10. ASSUME NEW t \in Tasks, TaskStep(t)
       PROVE  Done
  <2>1. CASE ExecuteTask(t) \/ CheckCurrent(t)
    BY <1>1, <2>1 DEF ExecuteTask, CheckCurrent, Advance
  <2>2. CASE FailThumbnail(t) \/ IgnoreThumbnail(t) \/ FailPreview(t) \/ IgnorePreview(t)
    BY <1>1, <2>2 DEF FailThumbnail, IgnoreThumbnail, FailPreview, IgnorePreview, Advance
  <2>3. CASE CacheImage(t)
    <3>1. CASE t \in ThumbnailTasks
      <4>1. \A u \in Tasks : step'[u] = "cached" => step[u] = "cached" \/ u = t
        BY <2>3 DEF CacheImage, Advance
      <4>2. /\ thumbnailsCache' = thumbnailsCache \union {photoOf[t]}
            /\ evicted' = evicted \ {<<"thumbnail", photoOf[t]>>}
            /\ UNCHANGED <<previewsCache, photoOf, thumbnailsQueue, previewsQueue>>
        BY <2>3, <3>1 DEF CacheImage
      <4>3. QED
        BY <3>1, <4>1, <4>2, LoaderAssumption
    <3>2. CASE t \notin ThumbnailTasks
      BY <2>3, <3>2 DEF CacheImage, Advance
    <3>3. QED
      BY <3>1, <3>2
  <2>4. CASE PushThumbnail(t) \/ PushPreview(t)
    <3>1. CASE PushThumbnail(t)
      <4>1. \A r \in thumbnailsQueue' : r \in thumbnailsQueue \/ r.photo = photoOf[t]
        BY <3>1 DEF PushThumbnail
      <4>2. photoOf[t] \in thumbnailsCache \/ <<"thumbnail", photoOf[t]>> \in evicted
        BY <3>1 DEF PushThumbnail, Advance
      <4>3. \A u \in Tasks : step'[u] = "cached" => step[u] = "cached"
        BY <3>1 DEF PushThumbnail, Advance
      <4>4. UNCHANGED <<previewsQueue, cacheVars, photoOf>>
        BY <3>1 DEF PushThumbnail
      <4>5. QED
        BY <4>1, <4>2, <4>3, <4>4
    <3>2. CASE PushPreview(t)
      <4>1. \A r \in previewsQueue' : r \in previewsQueue \/ r.photo = photoOf[t]
        BY <3>2 DEF PushPreview
      <4>2. photoOf[t] \in previewsCache \/ <<"preview", photoOf[t]>> \in evicted
        BY <3>2 DEF PushPreview, Advance
      <4>3. \A u \in Tasks : step'[u] = "cached" => step[u] = "cached"
        BY <3>2 DEF PushPreview, Advance
      <4>4. UNCHANGED <<thumbnailsQueue, cacheVars, photoOf>>
        BY <3>2 DEF PushPreview
      <4>5. QED
        BY <4>1, <4>2, <4>3, <4>4
    <3>3. QED
      BY <2>4, <3>1, <3>2
  <2>5. CASE FinalizeTask(t)
    BY <1>1, <2>5 DEF FinalizeTask
  <2>6. QED
    BY <1>10, <2>1, <2>2, <2>3, <2>4, <2>5 DEF TaskStep
<1>11. QED
  BY <1>2, <1>4, <1>5, <1>6, <1>7, <1>8, <1>9, <1>10 DEF Next

-----------------------------------------------------------------------------
(* Tracking.                                                               *)

\* A step that no part of the thumbnail tracking notices.
Quiet ==
  /\ UNCHANGED <<generation, pendingThumbnailTasks, thumbnailsQueue>>
  /\ \A t \in ThumbnailTasks :
       /\ photoOf'[t] = photoOf[t] /\ taskGeneration'[t] = taskGeneration[t]
       /\ phase'[t] = "new" <=> phase[t] = "new"
       /\ Live(t)' <=> Live(t)
       /\ Finished(t)' <=> Finished(t)

\* Few actions concern the tracking.
LEMMA TrackingSteps ==
  ASSUME TypeOK, [Next]_vars
  PROVE  \/ SetSource
         \/ \E p \in Photos, pr \in ThumbnailPriorities : RequestThumbnail(p, pr)
         \/ TakeThumbnails
         \/ \E t \in ThumbnailTasks : FailThumbnail(t) \/ IgnoreThumbnail(t)
         \/ \E t \in ThumbnailTasks : PushThumbnail(t)
         \/ Quiet
<1> USE LoaderAssumption DEF TypeOK, Service!TypeOK, Quiet, Live, Finished, Tasks,
          serviceVars, taskVars
<1>1. ASSUME NEW p \in Photos, NEW pr \in ThumbnailPriorities, RaisePriority(p, pr)
      PROVE  Quiet
  BY <1>1 DEF RaisePriority, Service!Reprioritize
<1>2. ASSUME NEW p \in Photos, NEW pr \in PreviewPriorities, RequestPreview(p, pr)
      PROVE  Quiet
  <2>1. PICK t \in PreviewTasks : SubmitTask(t, p, pr)
    BY <1>2 DEF RequestPreview, NextId
  <2>2. QED
    BY <1>2, <2>1 DEF RequestPreview, SubmitTask, Service!Submit, Service!Move
<1>3. CASE TakePreviews \/ UNCHANGED vars
  BY <1>3 DEF TakePreviews, vars
<1>4. ASSUME NEW p \in Photos, EvictThumbnail(p) \/ EvictPreview(p)
      PROVE  Quiet
  BY <1>4 DEF EvictThumbnail, EvictPreview
<1>5. ASSUME NEW t \in Tasks, StartTask(t)
      PROVE  Quiet
  BY <1>5 DEF StartTask, Service!Start, Service!Move
<1>6. ASSUME NEW t \in Tasks, TaskStep(t)
      PROVE  \/ t \in ThumbnailTasks
                  /\ (FailThumbnail(t) \/ IgnoreThumbnail(t) \/ PushThumbnail(t))
             \/ Quiet
  <2>1. CASE ExecuteTask(t) \/ CheckCurrent(t) \/ CacheImage(t)
    BY <2>1 DEF ExecuteTask, CheckCurrent, CacheImage
  <2>2. CASE FailPreview(t) \/ IgnorePreview(t) \/ PushPreview(t)
    BY <2>2 DEF FailPreview, IgnorePreview, PushPreview, Service!Report, Service!Move
  <2>3. CASE FailThumbnail(t) \/ IgnoreThumbnail(t) \/ PushThumbnail(t)
    BY <2>3 DEF FailThumbnail, IgnoreThumbnail, PushThumbnail
  <2>4. CASE FinalizeTask(t)
    BY <2>4 DEF FinalizeTask, Service!Finalize, Service!Move
  <2>5. QED
    BY <1>6, <2>1, <2>2, <2>3, <2>4 DEF TaskStep
<1>7. QED
  BY <1>1, <1>2, <1>3, <1>4, <1>5, <1>6 DEF Next

\* The queue holds photos of tasks that have finished.
LEMMA QueueStep ==
  ASSUME TypeOK, TypeOK', TaskData, QueueOfFinished, [Next]_vars
  PROVE  QueueOfFinished'
<1> USE DEF TypeOK, Service!TypeOK, QueueOfFinished, Tasks
<1>1. Onwards
  BY StepsOnwards
<1>2. CASE thumbnailsQueue' \subseteq thumbnailsQueue
  <2>1. \A r \in thumbnailsQueue : r.task \in Tasks /\ phase[r.task] # "new"
    BY DEF Finished
  <2>2. QED
    BY <1>1, <1>2, <2>1 DEF Onwards
<1>3. ASSUME NEW t \in ThumbnailTasks, PushThumbnail(t)
      PROVE  QueueOfFinished'
  <2>1. \A r \in thumbnailsQueue : r.task \in Tasks /\ phase[r.task] # "new"
    BY DEF Finished
  <2>2. Finished(t)' /\ photoOf'[t] = photoOf[t]
    BY <1>3 DEF PushThumbnail, Service!Report, Service!Move, Finished, taskVars
  <2>3. QED
    BY <1>1, <1>3, <2>1, <2>2 DEF Onwards, PushThumbnail
<1>4. QED
  BY <1>2, <1>3, TrackingSteps DEF SetSource, RequestThumbnail, TakeThumbnails,
       FailThumbnail, IgnoreThumbnail, Quiet

\* A tracked photo keeps a task that has still to call its handler, or waits
\* in the queue for the GUI.
LEMMA TrackedStep ==
  ASSUME TypeOK, TypeOK', TaskData, TrackedSubmitted, TrackedPhotoNotStuck,
         QueueOfFinished, [Next]_vars
  PROVE  TrackedSubmitted' /\ TrackedPhotoNotStuck'
<1> DEFINE Done == TrackedSubmitted' /\ TrackedPhotoNotStuck'
<1> USE LoaderAssumption DEF TypeOK, Service!TypeOK, TrackedSubmitted,
          TrackedPhotoNotStuck, Tasks, Live, Queued, taskVars
<1>1. Onwards
  BY StepsOnwards
<1>2. CASE SetSource
  BY <1>2 DEF SetSource
<1>3. ASSUME NEW p \in Photos, NEW pr \in ThumbnailPriorities, RequestThumbnail(p, pr)
      PROVE  Done
  <2>1. PICK t \in ThumbnailTasks :
          /\ SubmitTask(t, p, pr)
          /\ pendingThumbnailTasks' = [pendingThumbnailTasks EXCEPT ![p] = t]
    BY <1>3 DEF RequestThumbnail, NextId
  <2>2. UNCHANGED <<generation, thumbnailsQueue>>
    BY <1>3 DEF RequestThumbnail
  <2>3. phase'[t] = "pending" /\ photoOf'[t] = p /\ taskGeneration'[t] = generation
    BY <2>1 DEF SubmitTask, Service!Submit, Service!Move
  <2>4. \A q \in Photos : q # p /\ pendingThumbnailTasks[q] # NoTask =>
          LET u == pendingThumbnailTasks[q] IN
          u # t /\ phase'[u] = phase[u] /\ photoOf'[u] = photoOf[u]
            /\ taskGeneration'[u] = taskGeneration[u]
    BY <2>1 DEF SubmitTask, Service!Submit, Service!Move
  <2>5. QED
    BY <2>1, <2>2, <2>3, <2>4
<1>4. CASE TakeThumbnails
  BY <1>4 DEF TakeThumbnails, serviceVars
<1>5. ASSUME NEW t \in ThumbnailTasks, FailThumbnail(t) \/ IgnoreThumbnail(t)
      PROVE  Done
  <2>1. /\ pendingThumbnailTasks' = [pendingThumbnailTasks EXCEPT ![photoOf[t]] = NoTask]
        /\ UNCHANGED <<generation, thumbnailsQueue, photoOf, taskGeneration>>
        /\ phase' = [u \in Tasks |-> IF u = t THEN "reported" ELSE phase[u]]
    BY <1>5 DEF FailThumbnail, IgnoreThumbnail, Untrack, Service!Report, Service!Move
  <2>2. QED
    BY <2>1
<1>6. ASSUME NEW t \in ThumbnailTasks, PushThumbnail(t)
      PROVE  Done
  <2>1. /\ thumbnailsQueue' = thumbnailsQueue \union {[photo |-> photoOf[t], task |-> t]}
        /\ UNCHANGED <<generation, pendingThumbnailTasks, photoOf, taskGeneration>>
        /\ phase' = [u \in Tasks |-> IF u = t THEN "reported" ELSE phase[u]]
    BY <1>6 DEF PushThumbnail, Service!Report, Service!Move
  <2>2. \E r \in thumbnailsQueue' : r.photo = photoOf[t]
    <3>1. [photo |-> photoOf[t], task |-> t] \in thumbnailsQueue'
      BY <2>1
    <3>2. QED
      BY <3>1
  <2>3. QED
    BY <2>1, <2>2
<1>7. CASE Quiet
  BY <1>7 DEF Quiet
<1>8. QED
  BY <1>2, <1>3, <1>4, <1>5, <1>6, <1>7, TrackingSteps

\* An older task that finished stays one.
LEMMA OlderFinishedStable ==
  ASSUME Onwards, NEW t \in ThumbnailTasks, phase[t] # "new", OlderFinished(t)
  PROVE  OlderFinished(t)'
<1>1. PICK v \in ThumbnailTasks :
        /\ photoOf[v] = photoOf[t] /\ taskGeneration[v] < taskGeneration[t]
        /\ Finished(v)
  BY DEF OlderFinished, Finished
<1>2. /\ photoOf'[v] = photoOf[v] /\ taskGeneration'[v] = taskGeneration[v]
      /\ Finished(v)'
  BY <1>1 DEF Onwards, Finished, Tasks
<1>3. photoOf'[t] = photoOf[t] /\ taskGeneration'[t] = taskGeneration[t]
  BY DEF Onwards, Tasks
<1>4. QED
  BY <1>1, <1>2, <1>3 DEF OlderFinished, Finished

\* A task of the present source is forgotten while it is engaged only by the
\* handler of an older one, or by handing out what an older one queued.
LEMMA EngagedStep ==
  ASSUME TypeOK, TypeOK', TaskData, TrackedPhotoNotStuck, QueueOfFinished,
         EngagedTracked, [Next]_vars
  PROVE  EngagedTracked'
<1> USE LoaderAssumption DEF TypeOK, Service!TypeOK, Tasks, taskVars
<1>1. Onwards
  BY StepsOnwards
<1>2. CASE SetSource
  BY <1>2 DEF SetSource, EngagedTracked, Engaged, TaskData
<1> SUFFICES ASSUME NEW t \in ThumbnailTasks, ~ SetSource, Engaged(t)'
             PROVE  pendingThumbnailTasks'[photoOf'[t]] = t \/ OlderFinished(t)'
  BY <1>2 DEF EngagedTracked
<1>3. ASSUME Engaged(t), phase[t] # "new"
      PROVE  /\ photoOf[t] \in Photos /\ photoOf'[t] = photoOf[t]
             /\ \/ pendingThumbnailTasks[photoOf[t]] = t
                \/ OlderFinished(t) /\ OlderFinished(t)'
  BY <1>1, <1>3, OlderFinishedStable DEF EngagedTracked, Onwards, TaskData
<1>4. ASSUME NEW p \in Photos, NEW pr \in ThumbnailPriorities, RequestThumbnail(p, pr)
      PROVE  pendingThumbnailTasks'[photoOf'[t]] = t \/ OlderFinished(t)'
  <2>1. PICK u \in ThumbnailTasks :
          /\ SubmitTask(u, p, pr)
          /\ pendingThumbnailTasks' = [pendingThumbnailTasks EXCEPT ![p] = u]
    BY <1>4 DEF RequestThumbnail, NextId
  <2>2. CASE t = u
    BY <2>1, <2>2 DEF SubmitTask
  <2>3. CASE t # u
    <3>1. Engaged(t) /\ phase[t] # "new"
      BY <1>4, <2>1, <2>3 DEF RequestThumbnail, SubmitTask, Service!Submit, Service!Move,
           Engaged, Live, QueueOfFinished, Finished
    <3>2. pendingThumbnailTasks[p] = NoTask
      BY <1>4 DEF RequestThumbnail
    <3>3. QED
      BY <1>3, <2>1, <3>1, <3>2
  <2>4. QED
    BY <2>2, <2>3
<1>5. CASE TakeThumbnails
  <2>1. /\ thumbnailsQueue' = {} /\ UNCHANGED <<generation, phase, photoOf, taskGeneration>>
        /\ pendingThumbnailTasks' = [p \in Photos |->
             IF p \in Queued(thumbnailsQueue) THEN NoTask ELSE pendingThumbnailTasks[p]]
    BY <1>5 DEF TakeThumbnails, serviceVars
  <2>2. Live(t) /\ Engaged(t) /\ phase[t] # "new"
    BY <2>1 DEF Engaged, Live
  <2>3. CASE photoOf[t] \notin Queued(thumbnailsQueue)
    BY <1>3, <2>1, <2>2, <2>3
  <2>4. CASE photoOf[t] \in Queued(thumbnailsQueue) /\ pendingThumbnailTasks[photoOf[t]] = t
    <3>1. PICK r \in thumbnailsQueue : r.photo = photoOf[t]
      BY <2>4 DEF Queued
    <3>2. /\ r.task \in ThumbnailTasks /\ photoOf[r.task] = photoOf[t]
          /\ Finished(r.task) /\ r.task # t
      BY <2>2, <3>1 DEF QueueOfFinished, Finished, Live
    <3>3. CASE taskGeneration[r.task] < generation
      <4>1. OlderFinished(t)
        BY <2>2, <3>2, <3>3 DEF OlderFinished, Finished, Engaged
      <4>2. QED
        BY <1>1, <2>2, <4>1, OlderFinishedStable
    <3>4. CASE taskGeneration[r.task] = generation
      <4>1. Engaged(r.task)
        BY <3>1, <3>4 DEF Engaged
      <4>2. OlderFinished(r.task)
        BY <2>4, <3>2, <4>1 DEF EngagedTracked
      <4>3. OlderFinished(t)
        BY <2>2, <3>2, <3>4, <4>2 DEF OlderFinished, Engaged
      <4>4. QED
        BY <1>1, <2>2, <4>3, OlderFinishedStable
    <3>5. taskGeneration[r.task] <= generation
      BY <3>2 DEF TaskData
    <3>6. QED
      BY <3>2, <3>3, <3>4, <3>5
  <2>5. QED
    BY <1>3, <2>2, <2>3, <2>4
<1>6. ASSUME NEW v \in ThumbnailTasks, FailThumbnail(v) \/ IgnoreThumbnail(v)
      PROVE  pendingThumbnailTasks'[photoOf'[t]] = t \/ OlderFinished(t)'
  <2>1. /\ phase[v] = "running"
        /\ pendingThumbnailTasks' = [pendingThumbnailTasks EXCEPT ![photoOf[v]] = NoTask]
        /\ UNCHANGED <<generation, thumbnailsQueue, photoOf, taskGeneration>>
        /\ phase' = [u \in Tasks |-> IF u = v THEN "reported" ELSE phase[u]]
    BY <1>6 DEF FailThumbnail, IgnoreThumbnail, Untrack, Service!Report, Service!Move
  <2>2. t # v /\ Engaged(t) /\ phase[t] # "new"
    BY <2>1 DEF Engaged, Live, QueueOfFinished, Finished
  <2>3. CASE photoOf[t] # photoOf[v]
    BY <1>3, <2>1, <2>2, <2>3
  <2>4. CASE photoOf[t] = photoOf[v] /\ taskGeneration[v] < generation
    BY <2>1, <2>2, <2>4 DEF OlderFinished, Engaged
  <2>5. CASE photoOf[t] = photoOf[v] /\ taskGeneration[v] = generation
    <3>1. Engaged(v)
      BY <2>1, <2>5 DEF Engaged, Live
    <3>2. OlderFinished(v) \/ OlderFinished(t)
      BY <1>3, <2>2, <2>5, <3>1 DEF EngagedTracked
    <3>3. OlderFinished(t)
      BY <2>2, <2>5, <3>2 DEF OlderFinished, Engaged
    <3>4. QED
      BY <1>1, <2>2, <3>3, OlderFinishedStable
  <2>6. taskGeneration[v] <= generation
    BY DEF TaskData
  <2>7. QED
    BY <2>3, <2>4, <2>5, <2>6
<1>7. ASSUME NEW v \in ThumbnailTasks, PushThumbnail(v)
      PROVE  pendingThumbnailTasks'[photoOf'[t]] = t \/ OlderFinished(t)'
  <2>1. /\ thumbnailsQueue' = thumbnailsQueue \union {[photo |-> photoOf[v], task |-> v]}
        /\ UNCHANGED <<generation, pendingThumbnailTasks, photoOf, taskGeneration>>
        /\ phase[v] = "running"
        /\ phase' = [u \in Tasks |-> IF u = v THEN "reported" ELSE phase[u]]
    BY <1>7 DEF PushThumbnail, Service!Report, Service!Move
  <2>2. Engaged(t) /\ phase[t] # "new"
    BY <2>1 DEF Engaged, Live, QueueOfFinished, Finished
  <2>3. QED
    BY <1>3, <2>1, <2>2
<1>8. CASE Quiet
  <2>1. Engaged(t) /\ phase[t] # "new"
    BY <1>8 DEF Quiet, Engaged, Live, QueueOfFinished, Finished
  <2>2. QED
    BY <1>3, <1>8, <2>1 DEF Quiet
<1>9. QED
  BY <1>4, <1>5, <1>6, <1>7, <1>8, TrackingSteps

\* What a step submits is of the present source.
LEMMA OnlyPresentSubmitted ==
  ASSUME TypeOK, [Next]_vars, NEW t \in ThumbnailTasks, phase[t] = "new", Live(t)'
  PROVE  taskGeneration'[t] = generation'
<1> USE LoaderAssumption DEF TypeOK, Service!TypeOK, Tasks, Live, taskVars
<1>1. CASE SetSource
  BY <1>1 DEF SetSource, Service!Cancel, Service!Move, Service!InPhase
<1>2. ASSUME NEW p \in Photos, NEW pr \in ThumbnailPriorities, RequestThumbnail(p, pr)
      PROVE  taskGeneration'[t] = generation'
  <2>1. PICK u \in ThumbnailTasks : SubmitTask(u, p, pr)
    BY <1>2 DEF RequestThumbnail, NextId
  <2>2. QED
    BY <1>2, <2>1 DEF RequestThumbnail, SubmitTask, Service!Submit, Service!Move
<1>3. CASE TakeThumbnails
  BY <1>3 DEF TakeThumbnails, serviceVars
<1>4. ASSUME NEW v \in ThumbnailTasks,
             FailThumbnail(v) \/ IgnoreThumbnail(v) \/ PushThumbnail(v)
      PROVE  FALSE
  BY <1>4 DEF FailThumbnail, IgnoreThumbnail, PushThumbnail, Service!Report, Service!Move
<1>5. CASE Quiet
  BY <1>5 DEF Quiet
<1>6. QED
  BY <1>1, <1>2, <1>3, <1>4, <1>5, TrackingSteps

\* Two tasks on one photo: a new pair is one of the present source, and one of
\* the two is not tracked.
LEMMA DuplicateStep ==
  ASSUME TypeOK, TypeOK', TaskData', EngagedTracked', DuplicateOnlyAfterSwitch, [Next]_vars
  PROVE  DuplicateOnlyAfterSwitch'
<1> USE DEF TypeOK, Service!TypeOK, Tasks
<1>1. Onwards
  BY StepsOnwards
<1> SUFFICES ASSUME NEW t \in ThumbnailTasks, NEW u \in ThumbnailTasks,
                    Live(t)', Live(u)', t # u, photoOf'[t] = photoOf'[u],
                    taskGeneration'[t] = taskGeneration'[u]
             PROVE  OlderFinished(t)'
  BY DEF DuplicateOnlyAfterSwitch, OlderFinished
<1>2. CASE taskGeneration'[t] = generation'
  <2>1. Engaged(t)' /\ Engaged(u)'
    BY <1>2 DEF Engaged
  <2>2. OlderFinished(t)' \/ OlderFinished(u)'
    BY <2>1 DEF EngagedTracked
  <2>3. QED
    BY <2>2 DEF OlderFinished
<1>3. CASE taskGeneration'[t] # generation'
  <2>1. \A w \in {t, u} : phase[w] # "new"
    BY <1>3, OnlyPresentSubmitted
  <2>2. Live(t) /\ Live(u)
    BY <1>1, <2>1 DEF Onwards
  <2>3. photoOf[t] = photoOf[u] /\ taskGeneration[t] = taskGeneration[u]
    BY <1>1, <2>1 DEF Onwards
  <2>4. OlderFinished(t)
    BY <2>2, <2>3 DEF DuplicateOnlyAfterSwitch, OlderFinished
  <2>5. QED
    BY <1>1, <2>1, <2>4, OlderFinishedStable
<1>4. QED
  BY <1>2, <1>3

\* A switch makes tasks stale, and what is engaged then is tracked or an older
\* task has come in between.
LEMMA StaleStep ==
  ASSUME TypeOK, TypeOK', TaskData, EngagedTracked, StaleAreCancelled, [Next]_vars
  PROVE  StaleAreCancelled'
<1> USE LoaderAssumption DEF TypeOK, Service!TypeOK, Tasks
<1>1. Onwards
  BY StepsOnwards
<1> SUFFICES ASSUME NEW t \in ThumbnailTasks, Stale(t)', Live(t)'
             PROVE  (phase'[t] = "running" /\ t \in cancelled') \/ OlderFinished(t)'
  BY DEF StaleAreCancelled
<1>2. phase[t] # "new"
  BY OnlyPresentSubmitted DEF Stale
<1>3. Live(t) /\ taskGeneration'[t] = taskGeneration[t]
  BY <1>1, <1>2 DEF Onwards
<1>4. CASE OlderFinished(t)
  BY <1>1, <1>2, <1>4, OlderFinishedStable
<1>5. CASE Stale(t) /\ ~ OlderFinished(t)
  <2>1. phase[t] = "running" /\ t \in cancelled
    BY <1>3, <1>5 DEF StaleAreCancelled
  <2>2. QED
    BY <1>1, <2>1 DEF Onwards, Live
<1>6. CASE ~ Stale(t) /\ ~ OlderFinished(t)
  <2>1. taskGeneration[t] = generation
    BY <1>6 DEF Stale, TaskData
  <2>2. SetSource
    BY <1>3, <2>1, TrackingSteps DEF Stale, RequestThumbnail, TakeThumbnails,
         FailThumbnail, IgnoreThumbnail, PushThumbnail, Quiet
  <2>3. photoOf[t] \in Photos /\ pendingThumbnailTasks[photoOf[t]] = t
    BY <1>2, <1>3, <1>6, <2>1 DEF EngagedTracked, Engaged, TaskData
  <2>4. t \in TrackedTasks
    BY <2>3 DEF TrackedTasks
  <2>5. phase[t] # "pending"
    BY <2>2, <2>4 DEF SetSource, Service!Cancel, Service!Move, Service!InPhase, Live
  <2>6. phase[t] = "running"
    BY <1>3, <2>5 DEF Live
  <2>7. t \in cancelled'
    BY <2>2, <2>4, <2>6 DEF SetSource, Service!Cancel, Service!Active, Service!InPhase
  <2>8. QED
    BY <1>1, <2>6, <2>7 DEF Onwards, Live
<1>7. QED
  BY <1>4, <1>5, <1>6

-----------------------------------------------------------------------------
(* The invariant.                                                          *)

LEMMA IInvInit == Init => IInv
<1> SUFFICES ASSUME Init
             PROVE  IInv
  OBVIOUS
<1> USE DEF Init, Service!Init
<1>1. TypeOK /\ TaskData
  <2>1. TypeOK
    BY TypeStep
  <2>2. QED
    BY <2>1 DEF TaskData, TypeOK
<1>2. StepFitsPhase /\ CachedImageThere /\ QueueOfFinished
  BY DEF StepFitsPhase, CachedImageThere, QueueOfFinished, Tasks
<1>3. TrackedSubmitted /\ TrackedPhotoNotStuck /\ AnnouncedImageCached
  BY DEF TrackedSubmitted, TrackedPhotoNotStuck, AnnouncedImageCached, Queued
<1>4. StaleAreCancelled
  BY DEF StaleAreCancelled, Live, Tasks
<1>5. DuplicateOnlyAfterSwitch /\ EngagedTracked
  BY DEF DuplicateOnlyAfterSwitch, EngagedTracked, Engaged, Live, Tasks
<1>6. QED
  BY <1>1, <1>2, <1>3, <1>4, <1>5 DEF IInv, RequestsAreSound

LEMMA IInvStep == IInv /\ [Next]_vars => IInv'
<1> SUFFICES ASSUME IInv, [Next]_vars
             PROVE  IInv'
  OBVIOUS
<1> USE DEF IInv, RequestsAreSound
<1>1. TypeOK'
  BY TypeStep
<1>2. TaskData'
  BY <1>1, TaskDataStep
<1>3. StaleAreCancelled'
  BY <1>1, StaleStep
<1>4. StepFitsPhase'
  BY StepFitsPhaseStep
<1>5. CachedImageThere' /\ AnnouncedImageCached'
  BY CachesStep
<1>6. QueueOfFinished'
  BY <1>1, QueueStep
<1>7. TrackedSubmitted' /\ TrackedPhotoNotStuck'
  BY <1>1, TrackedStep
<1>8. EngagedTracked'
  BY <1>1, EngagedStep
<1>9. DuplicateOnlyAfterSwitch'
  BY <1>1, <1>2, <1>8, DuplicateStep
<1>10. QED
  BY <1>1, <1>2, <1>3, <1>4, <1>5, <1>6, <1>7, <1>8, <1>9

\* No tracked photo is stuck, what is announced was cached, and two tasks of
\* one source work on one photo only after an older one interfered, however
\* many sources, photos, tasks and threads there are.
THEOREM RequestsSound == Spec => []RequestsAreSound
<1>1. IInv => RequestsAreSound
  BY DEF IInv
<1>2. QED
  BY IInvInit, IInvStep, <1>1, PTL DEF Spec

\* setSource leaves no thumbnail task of the sources before in the queue, and
\* asks those that run to stop, except where an older handler came in between,
\* however many sources, photos, tasks and threads there are.
THEOREM StaleCancelled == Spec => []StaleAreCancelled
<1>1. IInv => StaleAreCancelled
  BY DEF IInv
<1>2. QED
  BY IInvInit, IInvStep, <1>1, PTL DEF Spec

=============================================================================
