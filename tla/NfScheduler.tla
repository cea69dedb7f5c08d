---------------------------- MODULE NfScheduler ----------------------------
(***************************************************************************)
(* NfScheduler, the priority queue of tasks, with the worker threads of    *)
(* the NfThreadPool that serves it and the owner that destroys both (pool  *)
(* first, scheduler second, as NeofluxonCore and NfPhotoScanner do).       *)
(*                                                                         *)
(* One action is one critical section of m_mutex, or one step a thread     *)
(* takes outside it.  A worker is a thread with a program counter:         *)
(*   ready      about to lock m_mutex in waitNextTask (or woken inside it) *)
(*   parked     asleep on m_taskAvailableConditionVariable                 *)
(*   executing  in task->execute()                                         *)
(*   notifying  in task->notifyCompletion(status)                          *)
(*   finalizing about to lock m_mutex in finalizeTask                      *)
(*   signalling finalizeTask has unlocked and owes the notify_all          *)
(*   exited     threadLoop has returned                                    *)
(* A pending or running map is the set of its keys: the ids of the tasks   *)
(* the scheduler owns.  Attributes of the NfTask objects are functions of  *)
(* the id.  An operator commented "Mutant" is a plausible mistake in the    *)
(* definition that follows it; no specification uses it.                   *)
(***************************************************************************)
EXTENDS Integers, FiniteSets

CONSTANTS Tasks,        \* ids of the tasks that may be submitted
          Priorities,   \* priorities the callers use
          Workers,      \* threads of the pool
          MaxSequence   \* bound on m_nextSequence (2^64 - 1 in the code)

\* NfTask::Priority::Immediate, the priority of a task nobody gave one.
Immediate == 10

ASSUME SchedulerAssumption ==
  /\ Tasks \subseteq Nat
  /\ Priorities \subseteq Int
  /\ Immediate \in Priorities
  /\ MaxSequence \in Nat
  /\ IsFiniteSet(Workers)

VARIABLES
  fresh,                 \* tasks created and not yet handed to submit
  pendingTasks,          \* m_pendingTasks
  runningTasks,          \* m_runningTasks
  pendingTaskSequences,  \* m_pendingTaskSequences, NoSequence where absent
  priorityQueue,         \* m_priorityQueue
  nextSequence,          \* m_nextSequence
  priority,              \* NfTask::m_priority
  cancelled,             \* tasks whose NfTask::m_cancelled is set
  discarded,             \* history: tasks removed from the queue unrun
  wakeups,               \* submit calls that have unlocked and owe notify_one
  workerState,           \* program counter of each worker
  workerTask,            \* the task pointer a worker holds
  stopRequested,         \* workers whose stop_token was triggered
  owner                  \* how far the owner's destructor has come

queueVars  == <<pendingTasks, runningTasks, pendingTaskSequences,
                priorityQueue, nextSequence>>
taskVars   == <<fresh, priority, cancelled, discarded>>
workerVars == <<workerState, workerTask, stopRequested>>
vars == <<queueVars, taskVars, wakeups, workerVars, owner>>

NoTask == -1
NoSequence == -1

WorkerStates == {"ready", "parked", "executing", "notifying", "finalizing",
                 "signalling", "exited"}
OwnerStates == {"open", "stopping", "joined", "draining", "destroyed"}

InState(s) == {w \in Workers : workerState[w] = s}
HoldsTask(w) == workerState[w] \in {"executing", "notifying", "finalizing"}

-----------------------------------------------------------------------------
(* The ordering index.                                                     *)

Entry(t) == [priority |-> priority[t], sequence |-> pendingTaskSequences[t],
             id |-> t]

\* Mutant: oldest first within a priority.
BeforeOldestFirst(e, f) ==
  \/ e.priority < f.priority
  \/ e.priority = f.priority /\ e.sequence < f.sequence

\* TaskQueueEntry ordering: urgent first, then newest, then smallest id.
Before(e, f) ==
  \/ e.priority < f.priority
  \/ e.priority = f.priority /\ e.sequence > f.sequence
  \/ e.priority = f.priority /\ e.sequence = f.sequence /\ e.id < f.id

IsFirst(e) == \A f \in priorityQueue \ {e} : Before(e, f)

-----------------------------------------------------------------------------
Init ==
  /\ fresh = Tasks
  /\ pendingTasks = {} /\ runningTasks = {}
  /\ pendingTaskSequences = [t \in Tasks |-> NoSequence]
  /\ priorityQueue = {}
  /\ nextSequence = 0
  /\ priority = [t \in Tasks |-> Immediate]
  /\ cancelled = {} /\ discarded = {}
  /\ wakeups = 0
  /\ workerState = [w \in Workers |-> "ready"]
  /\ workerTask = [w \in Workers |-> NoTask]
  /\ stopRequested = {}
  /\ owner = "open"

-----------------------------------------------------------------------------
(* Calls of the scheduler's users.                                         *)

\* Mutant: notify only when the queue was empty.
OweWakeupIfEmpty == wakeups' = IF priorityQueue = {} THEN wakeups + 1 ELSE wakeups

\* submit has unlocked and will call notify_one.
OweWakeup == wakeups' = wakeups + 1

\* submit, up to the unlock; the caller set the task's priority before.
Submit(t, p) ==
  /\ owner = "open"
  /\ t \in fresh
  /\ nextSequence < MaxSequence
  /\ fresh' = fresh \ {t}
  /\ priority' = [priority EXCEPT ![t] = p]
  /\ nextSequence' = nextSequence + 1
  /\ pendingTasks' = pendingTasks \union {t}
  /\ pendingTaskSequences' = [pendingTaskSequences EXCEPT ![t] = nextSequence]
  /\ priorityQueue' = priorityQueue \union
       {[priority |-> p, sequence |-> nextSequence, id |-> t]}
  /\ OweWakeup
  /\ UNCHANGED <<runningTasks, cancelled, discarded, workerVars, owner>>

\* Mutant: the notification reaches nobody.
WakeNobody == UNCHANGED workerState

\* notify_one wakes a sleeping worker if there is one.
WakeOne ==
  \/ \E w \in InState("parked") : workerState' = [workerState EXCEPT ![w] = "ready"]
  \/ InState("parked") = {} /\ UNCHANGED workerState

\* The notify_one that ends submit.
NotifyOne ==
  /\ wakeups > 0
  /\ wakeups' = wakeups - 1
  /\ WakeOne
  /\ UNCHANGED <<queueVars, taskVars, workerTask, stopRequested, owner>>

\* Mutant: the priority is set before the old entry is looked up.
ReindexedLate(t, p) ==
  (priorityQueue \ {[Entry(t) EXCEPT !.priority = p]}) \union
    {[priority |-> p, sequence |-> nextSequence, id |-> t]}

\* The queue after t's entry is replaced by one of priority p, newest of all.
Reindexed(t, p) ==
  (priorityQueue \ {Entry(t)}) \union
    {[priority |-> p, sequence |-> nextSequence, id |-> t]}

\* updateTaskPriority of a pending task; for any other it returns false.
UpdateTaskPriority(t, p) ==
  /\ owner = "open"
  /\ t \in pendingTasks
  /\ pendingTaskSequences[t] # NoSequence
  /\ nextSequence < MaxSequence
  /\ priorityQueue' = Reindexed(t, p)
  /\ priority' = [priority EXCEPT ![t] = p]
  /\ pendingTaskSequences' = [pendingTaskSequences EXCEPT ![t] = nextSequence]
  /\ nextSequence' = nextSequence + 1
  /\ UNCHANGED <<fresh, pendingTasks, runningTasks, cancelled, discarded,
                 wakeups, workerVars, owner>>

\* Mutant: the queue entry of a dropped task is forgotten.
DropPendingKeepEntry(S) ==
  /\ pendingTasks' = pendingTasks \ S
  /\ discarded' = discarded \union S
  /\ UNCHANGED <<pendingTaskSequences, priorityQueue>>

\* Removes the pending tasks of S, with their sequences and queue entries.
DropPending(S) ==
  /\ pendingTasks' = pendingTasks \ S
  /\ pendingTaskSequences' =
       [t \in Tasks |-> IF t \in S THEN NoSequence ELSE pendingTaskSequences[t]]
  /\ priorityQueue' = priorityQueue \ {Entry(t) : t \in S}
  /\ discarded' = discarded \union S

\* cancelTask: a pending task is dropped, a running one is left alone.
CancelTask(t) ==
  /\ owner = "open"
  /\ t \in pendingTasks
  /\ DropPending({t})
  /\ UNCHANGED <<runningTasks, nextSequence, fresh, priority, cancelled,
                 wakeups, workerVars, owner>>

\* cancelTasks: pending ones are dropped, running ones asked to stop.
CancelTasks(ids) ==
  /\ owner = "open"
  /\ DropPending(ids \intersect pendingTasks)
  /\ cancelled' = cancelled \union (ids \intersect runningTasks)
  /\ UNCHANGED <<runningTasks, nextSequence, fresh, priority, wakeups,
                 workerVars, owner>>

\* The body of cancelAll: the three pending containers are cleared whole.
ClearAll ==
  /\ pendingTasks' = {}
  /\ pendingTaskSequences' = [t \in Tasks |-> NoSequence]
  /\ priorityQueue' = {}
  /\ discarded' = discarded \union pendingTasks
  /\ cancelled' = cancelled \union runningTasks

CancelAll ==
  /\ owner = "open"
  /\ ClearAll
  /\ UNCHANGED <<runningTasks, nextSequence, fresh, priority, wakeups,
                 workerVars, owner>>

-----------------------------------------------------------------------------
(* The worker threads: NfThreadPool::threadLoop.                           *)

\* waitNextTask returns nullptr and threadLoop ends.
Leave(w) ==
  /\ workerState[w] = "ready"
  /\ w \in stopRequested
  /\ workerState' = [workerState EXCEPT ![w] = "exited"]
  /\ UNCHANGED <<queueVars, taskVars, wakeups, workerTask, stopRequested, owner>>

\* waitNextTask finds the queue empty and sleeps.
Park(w) ==
  /\ workerState[w] = "ready"
  /\ w \notin stopRequested
  /\ priorityQueue = {}
  /\ workerState' = [workerState EXCEPT ![w] = "parked"]
  /\ UNCHANGED <<queueVars, taskVars, wakeups, workerTask, stopRequested, owner>>

\* waitNextTask pops the first entry and moves its task to the running map.
Take(w) ==
  /\ workerState[w] = "ready"
  /\ w \notin stopRequested
  /\ \E e \in priorityQueue :
       /\ IsFirst(e)
       /\ priorityQueue' = priorityQueue \ {e}
       /\ pendingTaskSequences' =
            [pendingTaskSequences EXCEPT ![e.id] = NoSequence]
       /\ pendingTasks' = pendingTasks \ {e.id}
       /\ runningTasks' = runningTasks \union {e.id}
       /\ workerTask' = [workerTask EXCEPT ![w] = e.id]
  /\ workerState' = [workerState EXCEPT ![w] = "executing"]
  /\ UNCHANGED <<nextSequence, taskVars, wakeups, stopRequested, owner>>

\* A condition variable may wake a thread nobody notified.
SpuriousWake(w) ==
  /\ workerState[w] = "parked"
  /\ workerState' = [workerState EXCEPT ![w] = "ready"]
  /\ UNCHANGED <<queueVars, taskVars, wakeups, workerTask, stopRequested, owner>>

\* Mutant: the running map gives the task up before its handler is called.
ExecuteAndRelease(w) ==
  /\ workerState[w] = "executing"
  /\ workerState' = [workerState EXCEPT ![w] = "notifying"]
  /\ runningTasks' = runningTasks \ {workerTask[w]}
  /\ UNCHANGED <<pendingTasks, pendingTaskSequences, priorityQueue,
                 nextSequence, taskVars, wakeups, workerTask, stopRequested, owner>>

\* task->execute() returns, with whatever status.
Execute(w) ==
  /\ workerState[w] = "executing"
  /\ workerState' = [workerState EXCEPT ![w] = "notifying"]
  /\ UNCHANGED <<queueVars, taskVars, wakeups, workerTask, stopRequested, owner>>

\* task->notifyCompletion(status): the handler runs outside m_mutex.
NotifyCompletion(w) ==
  /\ workerState[w] = "notifying"
  /\ workerState' = [workerState EXCEPT ![w] = "finalizing"]
  /\ UNCHANGED <<queueVars, taskVars, wakeups, workerTask, stopRequested, owner>>

\* finalizeTask up to the unlock.
FinalizeTask(w) ==
  /\ workerState[w] = "finalizing"
  /\ runningTasks' = runningTasks \ {workerTask[w]}
  /\ workerTask' = [workerTask EXCEPT ![w] = NoTask]
  /\ workerState' = [workerState EXCEPT
       ![w] = IF runningTasks' = {} THEN "signalling" ELSE "ready"]
  /\ UNCHANGED <<pendingTasks, pendingTaskSequences, priorityQueue,
                 nextSequence, taskVars, wakeups, stopRequested, owner>>

\* The notify_all that ends finalizeTask; only the destructor waits for it.
SignalIdle(w) ==
  /\ workerState[w] = "signalling"
  /\ workerState' = [workerState EXCEPT ![w] = "ready"]
  /\ UNCHANGED <<queueVars, taskVars, wakeups, workerTask, stopRequested, owner>>

WorkerStep(w) ==
  \/ Leave(w) \/ Park(w) \/ Take(w) \/ Execute(w) \/ NotifyCompletion(w)
  \/ FinalizeTask(w) \/ SignalIdle(w)

-----------------------------------------------------------------------------
(* The owner: ~NfThreadPool, then ~NfScheduler.                            *)

\* The owner's thread is in no submit call when it destroys the pool.
BeginShutdown ==
  /\ owner = "open"
  /\ wakeups = 0
  /\ owner' = "stopping"
  /\ UNCHANGED <<queueVars, taskVars, wakeups, workerVars>>

\* Mutant: a sleeping worker does not learn that it should stop.
StopCallbackNone(w) == UNCHANGED workerState

\* If w sleeps, the callback on its stop_token does a notify_all.
StopCallback(w) ==
  workerState' =
    IF workerState[w] = "parked"
    THEN [v \in Workers |->
            IF workerState[v] = "parked" THEN "ready" ELSE workerState[v]]
    ELSE workerState

\* request_stop.
RequestStop(w) ==
  /\ owner = "stopping"
  /\ w \notin stopRequested
  /\ stopRequested' = stopRequested \union {w}
  /\ StopCallback(w)
  /\ UNCHANGED <<queueVars, taskVars, wakeups, workerTask, owner>>

\* Mutant: the threads are detached instead of joined.
DetachPool ==
  /\ owner = "stopping"
  /\ stopRequested = Workers
  /\ owner' = "joined"
  /\ UNCHANGED <<queueVars, taskVars, wakeups, workerVars>>

\* The loop of joins ends when every thread has.
JoinPool ==
  /\ owner = "stopping"
  /\ stopRequested = Workers
  /\ InState("exited") = Workers
  /\ owner' = "joined"
  /\ UNCHANGED <<queueVars, taskVars, wakeups, workerVars>>

\* ~NfScheduler drops what is still queued ...
DestroyBegin ==
  /\ owner = "joined"
  /\ ClearAll
  /\ owner' = "draining"
  /\ UNCHANGED <<runningTasks, nextSequence, fresh, priority, wakeups, workerVars>>

\* ... and waits until the running map is empty.
DestroyEnd ==
  /\ owner = "draining"
  /\ runningTasks = {}
  /\ owner' = "destroyed"
  /\ UNCHANGED <<queueVars, taskVars, wakeups, workerVars>>

OwnerStep ==
  \/ \E w \in Workers : RequestStop(w)
  \/ JoinPool \/ DestroyBegin \/ DestroyEnd

-----------------------------------------------------------------------------
Next ==
  \/ \E t \in Tasks, p \in Priorities :
       Submit(t, p) \/ UpdateTaskPriority(t, p)
  \/ NotifyOne
  \/ \E t \in Tasks : CancelTask(t)
  \/ \E ids \in SUBSET Tasks : CancelTasks(ids)
  \/ CancelAll
  \/ \E w \in Workers : WorkerStep(w) \/ SpuriousWake(w)
  \/ BeginShutdown
  \/ OwnerStep

Spec == Init /\ [][Next]_vars

\* Threads run and task bodies return; callers need never call again, and
\* the owner that has begun to destroy the pool goes on.
Fairness ==
  /\ \A w \in Workers : WF_vars(WorkerStep(w))
  /\ WF_vars(NotifyOne)
  /\ WF_vars(OwnerStep)

FairSpec == Spec /\ Fairness
-----------------------------------------------------------------------------
(* Properties.                                                             *)

\* Every variable keeps its type.
TypeOK ==
  /\ fresh \subseteq Tasks /\ pendingTasks \subseteq Tasks
  /\ runningTasks \subseteq Tasks
  /\ cancelled \subseteq Tasks /\ discarded \subseteq Tasks
  /\ pendingTaskSequences \in [Tasks -> Nat \union {NoSequence}]
  /\ priorityQueue \subseteq [priority : Priorities, sequence : Nat, id : Tasks]
  /\ nextSequence \in 0..MaxSequence
  /\ priority \in [Tasks -> Priorities]
  /\ wakeups \in Nat
  /\ workerState \in [Workers -> WorkerStates]
  /\ workerTask \in [Workers -> Tasks \union {NoTask}]
  /\ stopRequested \subseteq Workers
  /\ owner \in OwnerStates

\* "Keep task ownership, its sequence, and the ordering index in sync": the
\* index holds exactly the current entry of each pending task, no two tasks
\* share a sequence number, and none was issued from the future.
QueueInSync ==
  /\ \A t \in pendingTasks : Entry(t) \in priorityQueue
  /\ \A e \in priorityQueue : e.id \in pendingTasks /\ e = Entry(e.id)
  /\ \A t \in Tasks :
       (pendingTaskSequences[t] # NoSequence) <=> (t \in pendingTasks)
  /\ \A t, u \in pendingTasks :
       pendingTaskSequences[t] = pendingTaskSequences[u] => t = u
  /\ \A t \in pendingTasks : pendingTaskSequences[t] < nextSequence

\* The queue, between any two critical sections.
QueueIsSound == TypeOK /\ QueueInSync

\* A task a worker executes, reports or is about to finalize is owned by the
\* running map, each by one worker; nothing else is in that map (or the
\* destructor would wait for ever), and no running task is still queued.
RunningTaskOwned ==
  /\ \A w \in Workers : HoldsTask(w) => workerTask[w] \in runningTasks
  /\ \A t \in runningTasks : \E w \in Workers : HoldsTask(w) /\ workerTask[w] = t
  /\ \A v, w \in Workers :
       HoldsTask(v) /\ HoldsTask(w) /\ workerTask[v] = workerTask[w] => v = w
  /\ runningTasks \intersect pendingTasks = {}

\* submit's single notify_one per task is enough: while a worker sleeps,
\* every queued task has a worker that is up or a notification on its way.
WorkConserving ==
  owner = "open" /\ InState("parked") # {} =>
    Cardinality(priorityQueue) <= wakeups + Cardinality(InState("ready"))

\* When ~NfScheduler runs, no thread is left that could touch the scheduler,
\* so its wait never has to rely on finalizeTask's late notify_all.
SchedulerOutlivesWorkers ==
  owner \in {"draining", "destroyed"} =>
    InState("exited") = Workers /\ runningTasks = {} /\ wakeups = 0

\* Workers take tasks in the documented order, judged by the tasks' own
\* priorities and sequences, not by the index: "lower numeric priorities run
\* first, within the same priority newest sequence first".
UrgentThenNewest ==
  [][\A t \in pendingTasks \intersect runningTasks' :
       \A u \in pendingTasks \ {t} :
         \/ priority[t] < priority[u]
         \/ /\ priority[t] = priority[u]
            /\ pendingTaskSequences[t] > pendingTaskSequences[u]]_vars

\* Refinement: the scheduler, its pool and its destruction implement the
\* task service.
TaskPhase(t) ==
  IF t \in fresh THEN "new"
  ELSE IF t \in pendingTasks THEN "pending"
  ELSE IF t \in runningTasks
    THEN IF \E w \in InState("finalizing") : workerTask[w] = t
         THEN "reported" ELSE "running"
  ELSE IF t \in discarded THEN "discarded" ELSE "finalized"

Service == INSTANCE NfTaskService WITH phase <- [t \in Tasks |-> TaskPhase(t)]

\* Every task is queued, run, reported and released at most once and in that
\* order; a discarded one never starts; the most urgent starts first; a task is
\* cancelled only while a worker is busy with it.
ImplementsTaskService == Service!SafetySpec

\* Once the callers stop submitting (Tasks is finite) every queued task
\* leaves the queue: no wake-up is lost and no worker sleeps on work.
QueueDrains == \A t \in Tasks : t \in pendingTasks ~> t \notin pendingTasks

\* Destroying the pool and the scheduler ends: no join and no wait blocks
\* for ever, whatever the workers were doing.
ShutdownCompletes == owner = "stopping" ~> owner = "destroyed"
=============================================================================
