------------------------- MODULE NfSchedulerProofs -------------------------
(***************************************************************************)
(* Proofs about NfScheduler for every set of tasks, priorities and workers *)
(* and every bound on the sequence counter.                                *)
(***************************************************************************)
EXTENDS NfScheduler, FiniteSetTheorems, TLAPS

-----------------------------------------------------------------------------
(* Type correctness.                                                       *)

\* The types hold initially and every step keeps them.
LEMMA TypeInductive ==
  /\ Init => TypeOK
  /\ TypeOK /\ [Next]_vars => TypeOK'
<1> USE SchedulerAssumption DEF TypeOK, NoTask, NoSequence, WorkerStates,
          OwnerStates, queueVars, taskVars, workerVars
<1>1. Init => TypeOK
  BY DEF Init
<1>2. ASSUME TypeOK, [Next]_vars
      PROVE  TypeOK'
  <2> USE <1>2
  <2>1. ASSUME NEW t \in Tasks, NEW p \in Priorities, Submit(t, p)
        PROVE  TypeOK'
    BY <2>1 DEF Submit, OweWakeup
  <2>2. ASSUME NEW t \in Tasks, NEW p \in Priorities, UpdateTaskPriority(t, p)
        PROVE  TypeOK'
    BY <2>2 DEF UpdateTaskPriority, Reindexed
  <2>3. CASE NotifyOne
    BY <2>3 DEF NotifyOne, WakeOne, InState
  <2>4. ASSUME NEW t \in Tasks, CancelTask(t)
        PROVE  TypeOK'
    BY <2>4 DEF CancelTask, DropPending
  <2>5. ASSUME NEW ids \in SUBSET Tasks, CancelTasks(ids)
        PROVE  TypeOK'
    BY <2>5 DEF CancelTasks, DropPending
  <2>6. CASE CancelAll
    BY <2>6 DEF CancelAll, ClearAll
  <2>7. ASSUME NEW w \in Workers, WorkerStep(w) \/ SpuriousWake(w)
        PROVE  TypeOK'
    <3>1. CASE Leave(w)  BY <3>1 DEF Leave
    <3>2. CASE Park(w)   BY <3>2 DEF Park
    <3>3. CASE Take(w)
      <4>1. PICK e \in priorityQueue :
              /\ priorityQueue' = priorityQueue \ {e}
              /\ pendingTaskSequences' =
                   [pendingTaskSequences EXCEPT ![e.id] = NoSequence]
              /\ pendingTasks' = pendingTasks \ {e.id}
              /\ runningTasks' = runningTasks \union {e.id}
              /\ workerTask' = [workerTask EXCEPT ![w] = e.id]
        BY <3>3 DEF Take
      <4>2. e.id \in Tasks
        OBVIOUS
      <4>3. QED
        BY <4>1, <4>2, <3>3 DEF Take
    <3>4. CASE SpuriousWake(w)      BY <3>4 DEF SpuriousWake
    <3>5. CASE Execute(w)           BY <3>5 DEF Execute
    <3>6. CASE NotifyCompletion(w)  BY <3>6 DEF NotifyCompletion
    <3>7. CASE FinalizeTask(w)      BY <3>7 DEF FinalizeTask
    <3>8. CASE SignalIdle(w)        BY <3>8 DEF SignalIdle
    <3>9. QED
      BY <2>7, <3>1, <3>2, <3>3, <3>4, <3>5, <3>6, <3>7, <3>8 DEF WorkerStep
  <2>8. CASE BeginShutdown
    BY <2>8 DEF BeginShutdown
  <2>9. CASE OwnerStep
    <3>1. ASSUME NEW w \in Workers, RequestStop(w)
          PROVE  TypeOK'
      BY <3>1 DEF RequestStop, StopCallback
    <3>2. CASE JoinPool      BY <3>2 DEF JoinPool
    <3>3. CASE DestroyBegin  BY <3>3 DEF DestroyBegin, ClearAll
    <3>4. CASE DestroyEnd    BY <3>4 DEF DestroyEnd
    <3>5. QED
      BY <2>9, <3>1, <3>2, <3>3, <3>4 DEF OwnerStep
  <2>10. CASE UNCHANGED vars
    BY <2>10 DEF vars
  <2>11. QED
    BY <2>1, <2>2, <2>3, <2>4, <2>5, <2>6, <2>7, <2>8, <2>9, <2>10 DEF Next
<1>3. QED
  BY <1>1, <1>2

\* Type correctness of the scheduler, its pool and its owner.
THEOREM TypeCorrect == Spec => []TypeOK
<1>1. QED
  BY TypeInductive, PTL DEF Spec

-----------------------------------------------------------------------------
(* The inductive invariant.  QueueInSync and RunningTaskOwned support each *)
(* other (a task leaves the queue as it enters the running map);           *)
(* the life cycle keeps a submitted task from being submitted again, and   *)
(* the owner's progress bounds what the threads may still do.              *)

LifeCycle ==
  /\ \A t \in fresh : t \notin pendingTasks /\ t \notin runningTasks /\ t \notin discarded
  /\ \A t \in discarded : t \notin pendingTasks /\ t \notin runningTasks

OwnerProgress ==
  /\ owner = "open" => stopRequested = {}
  /\ owner # "open" => wakeups = 0
  /\ owner \in {"joined", "draining", "destroyed"} =>
       \A w \in Workers : workerState[w] = "exited"

IInv == TypeOK /\ QueueInSync /\ RunningTaskOwned /\ LifeCycle /\ OwnerProgress

\* A step that touches neither the tasks nor the queue keeps QueueInSync.
LEMMA QueueInSyncStable ==
  ASSUME QueueInSync, UNCHANGED queueVars, UNCHANGED priority
  PROVE  QueueInSync'
BY DEF QueueInSync, queueVars, Entry

\* Dropping pending tasks keeps the queue in step with the maps.
LEMMA DropKeepsQueue ==
  ASSUME TypeOK, QueueInSync, NEW S \in SUBSET pendingTasks, DropPending(S),
         UNCHANGED <<priority, nextSequence>>
  PROVE  QueueInSync'
<1> USE DEF TypeOK, Entry, NoSequence
<1>1. \A t \in Tasks : pendingTaskSequences'[t] =
        (IF t \in S THEN NoSequence ELSE pendingTaskSequences[t])
  BY DEF DropPending
<1>2. \A t \in pendingTasks' : t \in pendingTasks /\ t \notin S /\ Entry(t)' = Entry(t)
  BY <1>1 DEF DropPending
<1>3. \A t \in pendingTasks' : Entry(t)' \in priorityQueue'
  <2> TAKE t \in pendingTasks'
  <2>1. Entry(t) \in priorityQueue
    BY <1>2 DEF QueueInSync
  <2>2. \A u \in S : Entry(u) # Entry(t)
    BY <1>2
  <2>3. QED
    BY <1>2, <2>1, <2>2 DEF DropPending
<1>4. \A e \in priorityQueue' : e.id \in pendingTasks' /\ e = Entry(e.id)'
  <2> TAKE e \in priorityQueue'
  <2>1. e \in priorityQueue /\ e.id \in pendingTasks /\ e = Entry(e.id)
    BY DEF DropPending, QueueInSync
  <2>2. e.id \notin S
    BY <2>1 DEF DropPending
  <2>3. e.id \in pendingTasks'
    BY <2>1, <2>2 DEF DropPending
  <2>4. QED
    BY <1>2, <2>1, <2>3
<1>5. \A t \in Tasks : (pendingTaskSequences'[t] # NoSequence) <=> (t \in pendingTasks')
  BY <1>1 DEF QueueInSync, DropPending
<1>6. /\ \A t, u \in pendingTasks' :
            pendingTaskSequences'[t] = pendingTaskSequences'[u] => t = u
      /\ \A t \in pendingTasks' : pendingTaskSequences'[t] < nextSequence'
  BY <1>1, <1>2 DEF QueueInSync
<1>7. QED
  BY <1>3, <1>4, <1>5, <1>6 DEF QueueInSync

\* Giving a pending or new task t a fresh sequence and the matching entry,
\* its old entry (if any) removed, keeps the queue in step.
LEMMA EnterKeepsQueue ==
  ASSUME TypeOK, QueueInSync, NEW t \in Tasks, NEW p \in Priorities,
         priorityQueue' = (priorityQueue \ {Entry(t)}) \union
           {[priority |-> p, sequence |-> nextSequence, id |-> t]},
         priority' = [priority EXCEPT ![t] = p],
         pendingTaskSequences' = [pendingTaskSequences EXCEPT ![t] = nextSequence],
         pendingTasks' = pendingTasks \union {t},
         nextSequence' = nextSequence + 1
  PROVE  QueueInSync'
<1> USE SchedulerAssumption DEF TypeOK, NoSequence
<1>1. Entry(t)' = [priority |-> p, sequence |-> nextSequence, id |-> t]
  BY DEF Entry
<1>2. \A u \in Tasks : u # t => Entry(u)' = Entry(u) /\ Entry(u) # Entry(t)
  BY DEF Entry
<1>3. \A u \in pendingTasks' : Entry(u)' \in priorityQueue'
  BY <1>1, <1>2 DEF QueueInSync
<1>4. \A e \in priorityQueue' : e.id \in pendingTasks' /\ e = Entry(e.id)'
  <2> TAKE e \in priorityQueue'
  <2>1. CASE e = Entry(t)'
    BY <1>1, <2>1
  <2>2. CASE e \in priorityQueue /\ e # Entry(t)
    <3>1. e.id \in pendingTasks /\ e = Entry(e.id) /\ e.id # t
      BY <2>2 DEF QueueInSync
    <3>2. QED
      BY <1>2, <3>1
  <2>3. QED
    BY <1>1, <2>1, <2>2
<1>5. \A u \in Tasks : (pendingTaskSequences'[u] # NoSequence) <=> (u \in pendingTasks')
  BY DEF QueueInSync
<1>6. /\ \A u, v \in pendingTasks' :
            pendingTaskSequences'[u] = pendingTaskSequences'[v] => u = v
      /\ \A u \in pendingTasks' : pendingTaskSequences'[u] < nextSequence'
  BY DEF QueueInSync
<1>7. QED
  BY <1>3, <1>4, <1>5, <1>6 DEF QueueInSync

\* The invariant holds initially.
LEMMA InitInvariant == Init => IInv
BY TypeInductive DEF Init, IInv, QueueInSync, RunningTaskOwned, HoldsTask,
                     LifeCycle, OwnerProgress, NoSequence

\* What the users' calls do to the invariant.
LEMMA CallInvariant ==
  ASSUME IInv, TypeOK',
         \/ \E t \in Tasks, p \in Priorities :
              Submit(t, p) \/ UpdateTaskPriority(t, p)
         \/ NotifyOne
         \/ \E t \in Tasks : CancelTask(t)
         \/ \E ids \in SUBSET Tasks : CancelTasks(ids)
         \/ CancelAll
  PROVE  IInv'
<1> USE DEF IInv, LifeCycle, OwnerProgress
<1>1. ASSUME NEW t \in Tasks, NEW p \in Priorities, Submit(t, p)
      PROVE  IInv'
  <2>1. Entry(t) \notin priorityQueue
    BY <1>1 DEF Submit, QueueInSync, Entry
  <2>2. QueueInSync'
    BY <1>1, <2>1, EnterKeepsQueue DEF Submit
  <2>3. RunningTaskOwned'
    BY <1>1 DEF Submit, RunningTaskOwned, HoldsTask, workerVars
  <2>4. (LifeCycle /\ OwnerProgress)'
    BY <1>1 DEF Submit, workerVars, TypeOK
  <2>5. QED
    BY <2>2, <2>3, <2>4
<1>2. ASSUME NEW t \in Tasks, NEW p \in Priorities, UpdateTaskPriority(t, p)
      PROVE  IInv'
  <2>1. pendingTasks' = pendingTasks \union {t}
    BY <1>2 DEF UpdateTaskPriority
  <2>2. QueueInSync'
    BY <1>2, <2>1, EnterKeepsQueue DEF UpdateTaskPriority, Reindexed
  <2>3. RunningTaskOwned'
    BY <1>2 DEF UpdateTaskPriority, RunningTaskOwned, HoldsTask, workerVars
  <2>4. (LifeCycle /\ OwnerProgress)'
    BY <1>2 DEF UpdateTaskPriority, workerVars
  <2>5. QED
    BY <2>2, <2>3, <2>4
<1>3. ASSUME NotifyOne
      PROVE  IInv'
  <2>1. QueueInSync'
    BY <1>3, QueueInSyncStable DEF NotifyOne, taskVars
  <2>2. /\ UNCHANGED <<runningTasks, pendingTasks, workerTask>>
        /\ \A w \in Workers : HoldsTask(w)' <=> HoldsTask(w)
    BY <1>3 DEF NotifyOne, WakeOne, InState, HoldsTask, queueVars, TypeOK
  <2>3. RunningTaskOwned'
    BY <2>2 DEF RunningTaskOwned
  <2>4. owner = "open"
    BY <1>3 DEF NotifyOne
  <2>5. (LifeCycle /\ OwnerProgress)'
    BY <1>3, <2>4 DEF NotifyOne, queueVars, taskVars
  <2>6. QED
    BY <2>1, <2>3, <2>5
<1>4. ASSUME NEW S \in SUBSET pendingTasks, owner = "open", DropPending(S),
             UNCHANGED <<runningTasks, nextSequence, fresh, priority, wakeups,
                         workerVars, owner>>
      PROVE  IInv'
  <2>1. QueueInSync'
    BY <1>4, DropKeepsQueue
  <2>2. RunningTaskOwned'
    BY <1>4 DEF DropPending, RunningTaskOwned, HoldsTask, workerVars
  <2>3. (LifeCycle /\ OwnerProgress)'
    BY <1>4 DEF DropPending, workerVars, RunningTaskOwned, RunningTaskOwned, RunningTaskOwned
  <2>4. QED
    BY <2>1, <2>2, <2>3
<1>5. ASSUME CancelAll
      PROVE  IInv'
  <2>1. QueueInSync'
    BY <1>5 DEF CancelAll, ClearAll, QueueInSync, NoSequence
  <2>2. RunningTaskOwned'
    BY <1>5 DEF CancelAll, ClearAll, RunningTaskOwned, HoldsTask, workerVars
  <2>3. (LifeCycle /\ OwnerProgress)'
    BY <1>5 DEF CancelAll, ClearAll, workerVars, RunningTaskOwned
  <2>4. QED
    BY <2>1, <2>2, <2>3
<1>6. ASSUME NEW t \in Tasks, CancelTask(t)
      PROVE  IInv'
  BY <1>4, <1>6 DEF CancelTask
<1>7. ASSUME NEW ids \in SUBSET Tasks, CancelTasks(ids)
      PROVE  IInv'
  BY <1>4, <1>7 DEF CancelTasks
<1>8. QED
  BY <1>1, <1>2, <1>3, <1>5, <1>6, <1>7

\* A worker step that only moves its program counter, among the counters that
\* hold a task or among those that hold none, keeps the invariant.
LEMMA CounterInvariant ==
  ASSUME IInv, TypeOK', NEW w \in Workers, NEW s \in WorkerStates,
         workerState' = [workerState EXCEPT ![w] = s],
         workerState[w] # "exited",
         HoldsTask(w) <=> s \in {"executing", "notifying", "finalizing"},
         UNCHANGED <<queueVars, taskVars, wakeups, workerTask, stopRequested, owner>>
  PROVE  IInv'
<1>1. QueueInSync'
  BY QueueInSyncStable DEF taskVars, IInv
<1>2. \A v \in Workers : HoldsTask(v)' <=> HoldsTask(v)
  BY DEF HoldsTask, IInv, TypeOK
<1>3. RunningTaskOwned'
  BY <1>2 DEF RunningTaskOwned, queueVars, IInv
<1>4. (LifeCycle /\ OwnerProgress)'
  BY DEF LifeCycle, OwnerProgress, queueVars, taskVars, IInv, TypeOK
<1>5. QED
  BY <1>1, <1>3, <1>4 DEF IInv

\* What the workers do to the invariant.
LEMMA WorkerInvariant ==
  ASSUME IInv, TypeOK', NEW w \in Workers, WorkerStep(w) \/ SpuriousWake(w)
  PROVE  IInv'
<1>1. CASE Leave(w) \/ Park(w) \/ SpuriousWake(w) \/ SignalIdle(w)
  BY <1>1, CounterInvariant
     DEF Leave, Park, SpuriousWake, SignalIdle, HoldsTask, WorkerStates
<1>2. CASE Execute(w) \/ NotifyCompletion(w)
  BY <1>2, CounterInvariant DEF Execute, NotifyCompletion, HoldsTask, WorkerStates
<1>3. CASE Take(w)
  <2> USE DEF IInv
  <2>1. PICK e \in priorityQueue :
          /\ priorityQueue' = priorityQueue \ {e}
          /\ pendingTaskSequences' = [pendingTaskSequences EXCEPT ![e.id] = NoSequence]
          /\ pendingTasks' = pendingTasks \ {e.id}
          /\ runningTasks' = runningTasks \union {e.id}
          /\ workerTask' = [workerTask EXCEPT ![w] = e.id]
    BY <1>3 DEF Take
  <2>2. e.id \in pendingTasks /\ e.id \in Tasks /\ e = Entry(e.id)
    BY DEF QueueInSync, TypeOK
  <2>3. QueueInSync'
    <3>1. \A t \in pendingTasks' :
            t \in pendingTasks /\ t # e.id /\ Entry(t)' = Entry(t) /\ Entry(t) # e
      BY <1>3, <2>1, <2>2 DEF Take, taskVars, Entry, TypeOK
    <3>2. \A f \in priorityQueue' : f \in priorityQueue /\ f.id # e.id
      BY <2>1, <2>2 DEF QueueInSync
    <3>3. \A f \in priorityQueue' : f.id \in pendingTasks' /\ f = Entry(f.id)'
      BY <2>1, <3>1, <3>2 DEF QueueInSync
    <3>4. \A t \in pendingTasks' : Entry(t)' \in priorityQueue'
      BY <2>1, <3>1 DEF QueueInSync
    <3>5. QED
      BY <1>3, <2>1, <2>2, <3>1, <3>3, <3>4 DEF QueueInSync, Take, TypeOK, NoSequence
  <2>4. RunningTaskOwned'
    <3>1. ~ HoldsTask(w) /\ HoldsTask(w)' /\ workerTask'[w] = e.id
      BY <1>3, <2>1 DEF Take, HoldsTask, TypeOK
    <3>2. \A v \in Workers \ {w} :
            (HoldsTask(v)' <=> HoldsTask(v)) /\ workerTask'[v] = workerTask[v]
      BY <1>3, <2>1 DEF Take, HoldsTask, TypeOK
    <3>3. e.id \notin runningTasks
      BY <2>2 DEF RunningTaskOwned
    <3>4. QED
      BY <2>1, <3>1, <3>2, <3>3 DEF RunningTaskOwned
  <2>5. (LifeCycle /\ OwnerProgress)'
    BY <1>3, <2>1, <2>2 DEF Take, taskVars, LifeCycle, OwnerProgress, TypeOK
  <2>6. QED
    BY <2>3, <2>4, <2>5
<1>4. CASE FinalizeTask(w)
  <2> USE DEF IInv
  <2>1. QueueInSync'
    BY <1>4 DEF FinalizeTask, QueueInSync, Entry, taskVars
  <2>2. RunningTaskOwned'
    <3>1. HoldsTask(w) /\ ~ HoldsTask(w)'
      BY <1>4 DEF FinalizeTask, HoldsTask, TypeOK
    <3>2. \A v \in Workers \ {w} :
            (HoldsTask(v)' <=> HoldsTask(v)) /\ workerTask'[v] = workerTask[v]
      BY <1>4 DEF FinalizeTask, HoldsTask, TypeOK
    <3>3. QED
      BY <1>4, <3>1, <3>2 DEF FinalizeTask, RunningTaskOwned
  <2>3. (LifeCycle /\ OwnerProgress)'
    BY <1>4 DEF FinalizeTask, taskVars, LifeCycle, OwnerProgress, TypeOK
  <2>4. QED
    BY <2>1, <2>2, <2>3
<1>5. QED
  BY <1>1, <1>2, <1>3, <1>4 DEF WorkerStep

\* What the owner's destruction does to the invariant.
LEMMA OwnerInvariant ==
  ASSUME IInv, TypeOK', BeginShutdown \/ OwnerStep
  PROVE  IInv'
<1> USE DEF IInv, LifeCycle, OwnerProgress
<1>1. CASE BeginShutdown \/ JoinPool \/ DestroyEnd
  <2>1. UNCHANGED <<queueVars, taskVars, wakeups, workerVars>>
    BY <1>1 DEF BeginShutdown, JoinPool, DestroyEnd
  <2>2. QueueInSync'
    BY <2>1, QueueInSyncStable DEF taskVars
  <2>3. RunningTaskOwned'
    BY <2>1 DEF RunningTaskOwned, HoldsTask, queueVars, workerVars
  <2>4. LifeCycle'
    BY <2>1 DEF queueVars, taskVars
  <2>5. OwnerProgress'
    BY <1>1, <2>1 DEF BeginShutdown, JoinPool, DestroyEnd, InState, workerVars
  <2>6. QED
    BY <2>2, <2>3, <2>4, <2>5
<1>2. ASSUME NEW w \in Workers, RequestStop(w)
      PROVE  IInv'
  <2>1. QueueInSync'
    BY <1>2, QueueInSyncStable DEF RequestStop, taskVars
  <2>2. \A v \in Workers : HoldsTask(v)' <=> HoldsTask(v)
    BY <1>2 DEF RequestStop, StopCallback, HoldsTask, TypeOK
  <2>3. RunningTaskOwned'
    BY <1>2, <2>2 DEF RequestStop, RunningTaskOwned, queueVars
  <2>4. (LifeCycle /\ OwnerProgress)'
    BY <1>2 DEF RequestStop, StopCallback, queueVars, taskVars
  <2>5. QED
    BY <2>1, <2>3, <2>4
<1>3. CASE DestroyBegin
  <2>1. QueueInSync'
    BY <1>3 DEF DestroyBegin, ClearAll, QueueInSync, NoSequence
  <2>2. RunningTaskOwned'
    BY <1>3 DEF DestroyBegin, ClearAll, RunningTaskOwned, HoldsTask, workerVars
  <2>3. (LifeCycle /\ OwnerProgress)'
    BY <1>3 DEF DestroyBegin, ClearAll, workerVars, RunningTaskOwned
  <2>4. QED
    BY <2>1, <2>2, <2>3
<1>4. QED
  BY <1>1, <1>2, <1>3 DEF OwnerStep

\* IInv is inductive.
LEMMA NextInvariant == IInv /\ [Next]_vars => IInv'
<1> SUFFICES ASSUME IInv, [Next]_vars PROVE IInv'
  OBVIOUS
<1>1. TypeOK'
  BY TypeInductive DEF IInv
<1>2. CASE UNCHANGED vars
  BY <1>2 DEF vars, queueVars, taskVars, workerVars, IInv, TypeOK, QueueInSync,
     Entry, RunningTaskOwned, HoldsTask, LifeCycle, OwnerProgress
<1>3. CASE Next
  BY <1>1, <1>3, CallInvariant, WorkerInvariant, OwnerInvariant DEF Next
<1>4. QED
  BY <1>2, <1>3

\* The invariant the safety theorems rest on holds in every reachable state.
THEOREM Invariance == Spec => []IInv
<1>1. QED
  BY InitInvariant, NextInvariant, PTL DEF Spec

\* Every variable keeps its type, and the ordering index always mirrors the
\* pending tasks.
THEOREM QueueStaysSound == Spec => []QueueIsSound
<1>1. IInv => QueueIsSound
  BY DEF IInv, QueueIsSound
<1>2. QED
  BY <1>1, Invariance, PTL

\* Workers only ever touch tasks the scheduler owns for them.
THEOREM RunningTasksStayOwned == Spec => []RunningTaskOwned
<1>1. IInv => RunningTaskOwned
  BY DEF IInv
<1>2. QED
  BY <1>1, Invariance, PTL

\* The scheduler is destroyed only after every worker is gone.
THEOREM SchedulerIsLast == Spec => []SchedulerOutlivesWorkers
<1>1. IInv => SchedulerOutlivesWorkers
  BY DEF IInv, OwnerProgress, RunningTaskOwned, HoldsTask,
         SchedulerOutlivesWorkers, InState, TypeOK
<1>2. QED
  BY <1>1, Invariance, PTL

-----------------------------------------------------------------------------
(* The order in which workers take tasks.                                  *)

\* Only waitNextTask makes a task running.
LEMMA OnlyTakeStarts ==
  ASSUME IInv, [Next]_vars, ~ \E w \in Workers : Take(w)
  PROVE  runningTasks' \subseteq runningTasks
BY DEF Next, vars, queueVars, Submit, UpdateTaskPriority, NotifyOne, CancelTask,
       CancelTasks, CancelAll, ClearAll, WorkerStep, SpuriousWake, Leave, Park,
       Execute, NotifyCompletion, FinalizeTask, SignalIdle, BeginShutdown,
       OwnerStep, RequestStop, JoinPool, DestroyBegin, DestroyEnd

\* The task taken is the most urgent and, among those, the newest, by the
\* tasks' own attributes: the index never misleads a worker.
THEOREM TakenInOrder == Spec => UrgentThenNewest
<1> DEFINE Ordered ==
      \A t \in pendingTasks \intersect runningTasks' :
        \A u \in pendingTasks \ {t} :
          \/ priority[t] < priority[u]
          \/ /\ priority[t] = priority[u]
             /\ pendingTaskSequences[t] > pendingTaskSequences[u]
<1>1. ASSUME IInv, [Next]_vars PROVE Ordered
  <2>1. CASE ~ \E w \in Workers : Take(w)
    BY <1>1, <2>1, OnlyTakeStarts DEF IInv, RunningTaskOwned
  <2>2. ASSUME NEW w \in Workers, Take(w) PROVE Ordered
    <3>1. PICK e \in priorityQueue :
            IsFirst(e) /\ runningTasks' = runningTasks \union {e.id}
      BY <2>2 DEF Take
    <3>2. e.id \in pendingTasks /\ e = Entry(e.id)
      BY <1>1 DEF IInv, QueueInSync
    <3>3. SUFFICES ASSUME NEW u \in pendingTasks \ {e.id}
                   PROVE  \/ priority[e.id] < priority[u]
                          \/ /\ priority[e.id] = priority[u]
                             /\ pendingTaskSequences[e.id] > pendingTaskSequences[u]
      BY <1>1, <3>1 DEF IInv, RunningTaskOwned
    <3>4. Entry(u) \in priorityQueue \ {e}
      BY <1>1, <3>2 DEF IInv, QueueInSync, Entry
    <3>5. Before(Entry(e.id), Entry(u))
      BY <3>1, <3>2, <3>4 DEF IsFirst
    <3>6. pendingTaskSequences[e.id] # pendingTaskSequences[u]
      BY <1>1, <3>2 DEF IInv, QueueInSync
    <3>7. QED
      BY <3>5, <3>6 DEF Before, Entry
  <2>3. QED
    BY <2>1, <2>2
<1>2. QED
  BY <1>1, Invariance, PTL DEF Spec, UrgentThenNewest

-----------------------------------------------------------------------------
(* NfScheduler implements NfTaskService.                                   *)

\* TaskPhase names a phase of the task service.
LEMMA InitRefines == Init => Service!Init
BY SchedulerAssumption DEF Init, Service!Init, TaskPhase

\* A step that leaves the life and the attributes of every task alone stutters.
LEMMA StutterRefines ==
  ASSUME UNCHANGED <<fresh, pendingTasks, runningTasks, discarded, priority,
                     cancelled>>,
         \A t \in Tasks : (\E w \in InState("finalizing") : workerTask[w] = t)' <=>
                         (\E w \in InState("finalizing") : workerTask[w] = t)
  PROVE  UNCHANGED Service!svars
<1>1. \A t \in Tasks : TaskPhase(t)' = TaskPhase(t)
  BY DEF TaskPhase
<1>2. QED
  BY <1>1 DEF Service!svars

\* Dropping pending tasks and cancelling running ones is the service's Cancel.
LEMMA DropRefines ==
  ASSUME IInv, NEW S \in SUBSET Tasks,
         pendingTasks' = pendingTasks \ S,
         discarded' = discarded \union (S \intersect pendingTasks),
         cancelled' = cancelled \union (S \intersect runningTasks),
         UNCHANGED <<fresh, runningTasks, priority, workerState, workerTask>>
  PROVE  [Service!Next]_(Service!svars)
<1> DEFINE D == S \intersect pendingTasks
<1>1. \A t \in Tasks : TaskPhase(t)' = IF t \in D THEN "discarded" ELSE TaskPhase(t)
  <2> TAKE t \in Tasks
  <2>1. (\E w \in InState("finalizing") : workerTask[w] = t)' <=>
        (\E w \in InState("finalizing") : workerTask[w] = t)
    BY DEF InState
  <2>2. QED
    BY <2>1 DEF TaskPhase, IInv, LifeCycle, RunningTaskOwned
<1>2. \A t \in Tasks : TaskPhase(t) = "pending" <=> t \in pendingTasks
  BY DEF TaskPhase, IInv, LifeCycle, TypeOK
<1>3. \A t \in Tasks :
        TaskPhase(t) \in {"running", "reported"} <=> t \in runningTasks
  BY DEF TaskPhase, IInv, LifeCycle, RunningTaskOwned, TypeOK
<1>4. Service!InPhase("pending") = pendingTasks /\ Service!Active = runningTasks
  BY <1>2, <1>3 DEF Service!InPhase, Service!Active, IInv, TypeOK
<1>5. Service!Cancel(S)
  BY <1>1, <1>4 DEF Service!Cancel, Service!Move
<1>6. QED
  BY <1>5 DEF Service!Next

\* cancelAll is the service's Cancel of every task.
LEMMA ClearRefines ==
  ASSUME IInv, ClearAll,
         UNCHANGED <<fresh, runningTasks, priority, workerState, workerTask>>
  PROVE  [Service!Next]_(Service!svars)
<1>1. /\ Tasks \intersect pendingTasks = pendingTasks
      /\ Tasks \intersect runningTasks = runningTasks
      /\ pendingTasks \ Tasks = {}
  BY DEF IInv, TypeOK
<1>2. QED
  BY <1>1, DropRefines DEF ClearAll

\* The users' calls are steps of the service or stutter.
LEMMA CallRefines ==
  ASSUME IInv,
         \/ \E t \in Tasks, p \in Priorities :
              Submit(t, p) \/ UpdateTaskPriority(t, p)
         \/ NotifyOne
         \/ \E t \in Tasks : CancelTask(t)
         \/ \E ids \in SUBSET Tasks : CancelTasks(ids)
         \/ CancelAll
  PROVE  [Service!Next]_(Service!svars)
<1>1. ASSUME NEW t \in Tasks, NEW p \in Priorities, Submit(t, p)
      PROVE  [Service!Next]_(Service!svars)
  <2>1. \A u \in Tasks : TaskPhase(u)' = IF u = t THEN "pending" ELSE TaskPhase(u)
    BY <1>1 DEF Submit, TaskPhase, InState, workerVars
  <2>2. TaskPhase(t) = "new"
    BY <1>1 DEF Submit, TaskPhase
  <2>3. Service!Submit(t, p)
    BY <1>1, <2>1, <2>2 DEF Submit, Service!Submit, Service!Move
  <2>4. QED
    BY <2>3 DEF Service!Next
<1>2. ASSUME NEW t \in Tasks, NEW p \in Priorities, UpdateTaskPriority(t, p)
      PROVE  [Service!Next]_(Service!svars)
  <2>1. \A u \in Tasks : TaskPhase(u)' = TaskPhase(u)
    BY <1>2 DEF UpdateTaskPriority, TaskPhase, InState, workerVars
  <2>2. TaskPhase(t) = "pending"
    BY <1>2 DEF UpdateTaskPriority, TaskPhase, IInv, LifeCycle
  <2>3. Service!Reprioritize(t, p)
    BY <1>2, <2>1, <2>2 DEF UpdateTaskPriority, Service!Reprioritize
  <2>4. QED
    BY <2>3 DEF Service!Next
<1>3. CASE NotifyOne
  <2>1. InState("finalizing")' = InState("finalizing")
    BY <1>3 DEF NotifyOne, WakeOne, InState, IInv, TypeOK
  <2>2. QED
    BY <1>3, <2>1, StutterRefines DEF NotifyOne, queueVars, taskVars
<1>4. ASSUME NEW t \in Tasks, CancelTask(t)
      PROVE  [Service!Next]_(Service!svars)
  <2>1. {t} \intersect pendingTasks = {t} /\ {t} \intersect runningTasks = {}
    BY <1>4 DEF CancelTask, IInv, RunningTaskOwned
  <2>2. QED
    BY <1>4, <2>1, DropRefines DEF CancelTask, DropPending, workerVars
<1>5. ASSUME NEW ids \in SUBSET Tasks, CancelTasks(ids)
      PROVE  [Service!Next]_(Service!svars)
  <2>1. pendingTasks \ (ids \intersect pendingTasks) = pendingTasks \ ids
    OBVIOUS
  <2>2. QED
    BY <1>5, <2>1, DropRefines DEF CancelTasks, DropPending, workerVars
<1>6. CASE CancelAll
  BY <1>6, ClearRefines DEF CancelAll, workerVars
<1>7. QED
  BY <1>1, <1>2, <1>3, <1>4, <1>5, <1>6

\* The workers' steps are the service's Start, Report and Finalize or stutter.
LEMMA WorkerRefines ==
  ASSUME IInv, IInv', NEW w \in Workers, WorkerStep(w) \/ SpuriousWake(w)
  PROVE  [Service!Next]_(Service!svars)
<1> USE DEF IInv, TypeOK
<1>1. CASE Leave(w) \/ Park(w) \/ SpuriousWake(w) \/ SignalIdle(w) \/ Execute(w)
  <2>1. InState("finalizing")' = InState("finalizing")
    BY <1>1 DEF Leave, Park, SpuriousWake, SignalIdle, Execute, InState
  <2>2. QED
    BY <1>1, <2>1, StutterRefines
       DEF Leave, Park, SpuriousWake, SignalIdle, Execute, queueVars, taskVars
<1>2. CASE Take(w)
  <2>1. PICK e \in priorityQueue :
          /\ IsFirst(e)
          /\ pendingTasks' = pendingTasks \ {e.id}
          /\ runningTasks' = runningTasks \union {e.id}
          /\ workerTask' = [workerTask EXCEPT ![w] = e.id]
    BY <1>2 DEF Take
  <2>2. e.id \in pendingTasks /\ e.id \in Tasks /\ e = Entry(e.id)
    BY DEF QueueInSync
  <2>3. InState("finalizing")' = InState("finalizing") /\ w \notin InState("finalizing")
    BY <1>2 DEF Take, InState
  <2>4. \A v \in InState("finalizing") : workerTask'[v] = workerTask[v] /\ workerTask[v] # e.id
    BY <2>1, <2>2, <2>3 DEF RunningTaskOwned, InState, HoldsTask
  <2>5. \A t \in Tasks : TaskPhase(t)' = IF t = e.id THEN "running" ELSE TaskPhase(t)
    BY <1>2, <2>1, <2>2, <2>3, <2>4 DEF Take, TaskPhase, taskVars, LifeCycle
  <2>6. \A u \in Tasks : TaskPhase(u) = "pending" => u \in pendingTasks
    BY DEF TaskPhase
  <2>7. TaskPhase(e.id) = "pending"
    BY <2>2 DEF TaskPhase, LifeCycle
  <2>8. ASSUME NEW u \in pendingTasks PROVE priority[e.id] <= priority[u]
    <3>. priority[e.id] \in Int /\ priority[u] \in Int
      BY <2>2, SchedulerAssumption
    <3>1. CASE u = e.id
      BY <3>1
    <3>2. CASE u # e.id
      <4>1. Entry(u) \in priorityQueue \ {e}
        BY <2>2, <3>2 DEF QueueInSync, Entry
      <4>2. Before(Entry(e.id), Entry(u))
        BY <2>1, <2>2, <4>1 DEF IsFirst
      <4>3. QED
        BY <4>2 DEF Before, Entry
    <3>3. QED
      BY <3>1, <3>2
  <2>9. Service!Start(e.id)
    BY <1>2, <2>2, <2>5, <2>6, <2>7, <2>8
       DEF Take, taskVars, Service!Start, Service!Move, Service!InPhase
  <2>10. QED
    BY <2>2, <2>9 DEF Service!Next
<1>3. CASE NotifyCompletion(w)
  <2> DEFINE t == workerTask[w]
  <2>1. t \in runningTasks /\ t \in Tasks
    BY <1>3 DEF NotifyCompletion, RunningTaskOwned, HoldsTask
  <2>2. InState("finalizing")' = InState("finalizing") \union {w}
    BY <1>3 DEF NotifyCompletion, InState
  <2>3. \A v \in InState("finalizing") : workerTask[v] # t
    BY <1>3 DEF NotifyCompletion, RunningTaskOwned, HoldsTask, InState
  <2>4. \A u \in Tasks : TaskPhase(u)' = IF u = t THEN "reported" ELSE TaskPhase(u)
    BY <1>3, <2>1, <2>2, <2>3
       DEF NotifyCompletion, TaskPhase, queueVars, taskVars, LifeCycle, RunningTaskOwned
  <2>5. TaskPhase(t) = "running"
    BY <2>1, <2>3 DEF TaskPhase, LifeCycle, RunningTaskOwned
  <2>6. Service!Report(t)
    <3>1. UNCHANGED <<priority, cancelled>>
      BY <1>3 DEF NotifyCompletion, taskVars
    <3>2. QED
      BY <2>1, <2>4, <2>5, <3>1 DEF Service!Report, Service!Move
  <2>7. QED
    BY <2>1, <2>6 DEF Service!Next
<1>4. CASE FinalizeTask(w)
  <2> DEFINE t == workerTask[w]
  <2>1. t \in runningTasks /\ t \in Tasks
    BY <1>4 DEF FinalizeTask, RunningTaskOwned, HoldsTask
  <2>2. InState("finalizing")' = InState("finalizing") \ {w} /\ w \in InState("finalizing")
    BY <1>4 DEF FinalizeTask, InState
  <2>3. \A v \in InState("finalizing") \ {w} :
          workerTask[v] # t /\ workerTask'[v] = workerTask[v]
    BY <1>4, <2>2 DEF FinalizeTask, RunningTaskOwned, HoldsTask, InState
  <2>4. \A u \in Tasks : TaskPhase(u)' = IF u = t THEN "finalized" ELSE TaskPhase(u)
    BY <1>4, <2>1, <2>2, <2>3
       DEF FinalizeTask, TaskPhase, taskVars, LifeCycle, RunningTaskOwned
  <2>5. TaskPhase(t) = "reported"
    BY <2>1, <2>2 DEF TaskPhase, LifeCycle, RunningTaskOwned
  <2>6. Service!Finalize(t)
    <3>1. UNCHANGED <<priority, cancelled>>
      BY <1>4 DEF FinalizeTask, taskVars
    <3>2. QED
      BY <2>1, <2>4, <2>5, <3>1 DEF Service!Finalize, Service!Move
  <2>7. QED
    BY <2>1, <2>6 DEF Service!Next
<1>5. QED
  BY <1>1, <1>2, <1>3, <1>4 DEF WorkerStep

\* Destroying pool and scheduler cancels every task and else stutters.
LEMMA OwnerRefines ==
  ASSUME IInv, BeginShutdown \/ OwnerStep
  PROVE  [Service!Next]_(Service!svars)
<1>1. CASE BeginShutdown \/ JoinPool \/ DestroyEnd
  BY <1>1, StutterRefines DEF BeginShutdown, JoinPool, DestroyEnd, queueVars,
     taskVars, workerVars, InState
<1>2. ASSUME NEW w \in Workers, RequestStop(w)
      PROVE  [Service!Next]_(Service!svars)
  <2>1. InState("finalizing")' = InState("finalizing")
    BY <1>2 DEF RequestStop, StopCallback, InState, IInv, TypeOK
  <2>2. QED
    BY <1>2, <2>1, StutterRefines DEF RequestStop, queueVars, taskVars
<1>3. CASE DestroyBegin
  BY <1>3, ClearRefines DEF DestroyBegin, workerVars
<1>4. QED
  BY <1>1, <1>2, <1>3 DEF OwnerStep

\* Every behaviour of the scheduler, its pool and its destruction is one of
\* the task service: at most one run and one report per task, in order.
THEOREM Refinement == Spec => ImplementsTaskService
<1>1. ASSUME IInv, IInv', [Next]_vars PROVE [Service!Next]_(Service!svars)
  <2>1. CASE UNCHANGED vars
    BY <2>1, StutterRefines DEF vars, queueVars, taskVars, workerVars, InState
  <2>2. CASE Next
    BY <1>1, <2>2, CallRefines, WorkerRefines, OwnerRefines DEF Next
  <2>3. QED
    BY <1>1, <2>1, <2>2
<1>2. QED
  BY <1>1, InitRefines, Invariance, PTL
     DEF Spec, ImplementsTaskService, Service!SafetySpec

-----------------------------------------------------------------------------
(* submit's one notify_one per task is enough.                             *)

FiniteQueue == IsFiniteSet(priorityQueue)

\* The sets whose sizes WorkConserving compares are finite.
LEMMA CountsAreNaturals ==
  ASSUME FiniteQueue, NEW s
  PROVE  /\ Cardinality(priorityQueue) \in Nat
         /\ IsFiniteSet(InState(s)) /\ Cardinality(InState(s)) \in Nat
<1>1. IsFiniteSet(InState(s))
  BY SchedulerAssumption, FS_Subset DEF InState
<1>2. QED
  BY <1>1, FS_CardinalityType DEF FiniteQueue

\* A step that puts nobody to sleep, keeps every ready worker ready and adds
\* nothing to the queue cannot strand a task.
LEMMA NobodyParksKeepsWork ==
  ASSUME IInv, FiniteQueue, WorkConserving,
         priorityQueue' \subseteq priorityQueue, wakeups' = wakeups,
         InState("parked")' \subseteq InState("parked"),
         InState("ready") \subseteq InState("ready")',
         owner' = "open" => owner = "open"
  PROVE  FiniteQueue' /\ WorkConserving'
<1>1. IsFiniteSet(InState("ready")')
  BY SchedulerAssumption, FS_Subset DEF InState
<1>2. /\ IsFiniteSet(priorityQueue')
      /\ Cardinality(priorityQueue') <= Cardinality(priorityQueue)
      /\ Cardinality(InState("ready")) <= Cardinality(InState("ready")')
  BY <1>1, FS_Subset DEF FiniteQueue
<1>3. /\ Cardinality(priorityQueue') \in Nat /\ Cardinality(priorityQueue) \in Nat
      /\ Cardinality(InState("ready")) \in Nat /\ Cardinality(InState("ready")') \in Nat
      /\ wakeups \in Nat
  BY <1>1, <1>2, CountsAreNaturals, FS_CardinalityType DEF IInv, TypeOK
<1>4. ASSUME owner' = "open", InState("parked")' # {}
      PROVE  Cardinality(priorityQueue') <= wakeups' + Cardinality(InState("ready")')
  <2>1. Cardinality(priorityQueue) <= wakeups + Cardinality(InState("ready"))
    BY <1>4 DEF WorkConserving
  <2>2. QED
    BY <1>2, <1>3, <2>1
<1>5. QED
  BY <1>2, <1>4 DEF FiniteQueue, WorkConserving

\* The queue grows by at most the one task submit owes a notification for.
LEMMA SubmitKeepsWork ==
  ASSUME IInv, FiniteQueue, WorkConserving,
         NEW t \in Tasks, NEW p \in Priorities, Submit(t, p)
  PROVE  FiniteQueue' /\ WorkConserving'
<1>1. /\ IsFiniteSet(priorityQueue')
      /\ Cardinality(priorityQueue') <= Cardinality(priorityQueue) + 1
  <2> DEFINE e == [priority |-> p, sequence |-> nextSequence, id |-> t]
  <2>1. priorityQueue' = priorityQueue \union {e}
    BY DEF Submit
  <2> HIDE DEF e
  <2>2. /\ IsFiniteSet(priorityQueue \union {e})
        /\ \/ Cardinality(priorityQueue \union {e}) = Cardinality(priorityQueue)
           \/ Cardinality(priorityQueue \union {e}) = Cardinality(priorityQueue) + 1
    BY FS_AddElement DEF FiniteQueue
  <2>3. Cardinality(priorityQueue) \in Nat
    BY CountsAreNaturals
  <2>4. QED
    BY <2>1, <2>2, <2>3
<1>2. /\ owner = "open" /\ wakeups' = wakeups + 1 /\ wakeups \in Nat
      /\ InState("parked")' = InState("parked") /\ InState("ready")' = InState("ready")
  BY DEF Submit, OweWakeup, workerVars, InState, IInv, TypeOK
<1>3. /\ Cardinality(priorityQueue) \in Nat /\ Cardinality(InState("ready")) \in Nat
      /\ Cardinality(priorityQueue') \in Nat
  BY <1>1, CountsAreNaturals, FS_CardinalityType
<1>4. QED
  BY <1>1, <1>2, <1>3 DEF FiniteQueue, WorkConserving

\* Re-prioritising swaps one entry for another.
LEMMA UpdateKeepsWork ==
  ASSUME IInv, FiniteQueue, WorkConserving,
         NEW t \in Tasks, NEW p \in Priorities, UpdateTaskPriority(t, p)
  PROVE  FiniteQueue' /\ WorkConserving'
<1>1. Entry(t) \in priorityQueue
  BY DEF UpdateTaskPriority, IInv, QueueInSync
<1>2. /\ IsFiniteSet(priorityQueue \ {Entry(t)})
      /\ Cardinality(priorityQueue \ {Entry(t)}) = Cardinality(priorityQueue) - 1
  BY <1>1, FS_RemoveElement DEF FiniteQueue
<1>3. /\ Cardinality(priorityQueue) \in Nat /\ Cardinality(InState("ready")) \in Nat
  BY CountsAreNaturals
<1>4. /\ IsFiniteSet(priorityQueue')
      /\ Cardinality(priorityQueue') <= Cardinality(priorityQueue)
  <2> DEFINE e == [priority |-> p, sequence |-> nextSequence, id |-> t]
             rest == priorityQueue \ {Entry(t)}
  <2>1. priorityQueue' = rest \union {e}
    BY DEF UpdateTaskPriority, Reindexed
  <2>2. IsFiniteSet(rest) /\ Cardinality(rest) = Cardinality(priorityQueue) - 1
    BY <1>2
  <2> HIDE DEF e, rest
  <2>3. /\ IsFiniteSet(rest \union {e})
        /\ \/ Cardinality(rest \union {e}) = Cardinality(rest)
           \/ Cardinality(rest \union {e}) = Cardinality(rest) + 1
    BY <2>2, FS_AddElement
  <2>4. QED
    BY <1>3, <2>1, <2>2, <2>3
<1>5. Cardinality(priorityQueue') \in Nat
  BY <1>4, FS_CardinalityType
<1>6. /\ owner = "open" /\ wakeups' = wakeups /\ wakeups \in Nat
      /\ InState("parked")' = InState("parked") /\ InState("ready")' = InState("ready")
  BY DEF UpdateTaskPriority, workerVars, InState, IInv, TypeOK
<1>7. QED
  BY <1>3, <1>4, <1>5, <1>6 DEF FiniteQueue, WorkConserving

\* A notification spent while somebody sleeps makes one more worker ready.
LEMMA NotifyKeepsWork ==
  ASSUME IInv, FiniteQueue, WorkConserving, NotifyOne
  PROVE  FiniteQueue' /\ WorkConserving'
<1>1. priorityQueue' = priorityQueue /\ owner' = owner /\ wakeups' = wakeups - 1
  BY DEF NotifyOne, queueVars
<1>2. CASE InState("parked") = {}
  <2>1. InState("parked")' = {}
    BY <1>2 DEF NotifyOne, WakeOne, InState
  <2>2. QED
    BY <1>1, <2>1 DEF FiniteQueue, WorkConserving
<1>3. ASSUME NEW w \in InState("parked"), workerState' = [workerState EXCEPT ![w] = "ready"]
      PROVE  FiniteQueue' /\ WorkConserving'
  <2>1. InState("ready")' = InState("ready") \union {w} /\ w \notin InState("ready")
    BY <1>3 DEF InState, IInv, TypeOK
  <2>2. /\ Cardinality(InState("ready")') = Cardinality(InState("ready")) + 1
        /\ Cardinality(priorityQueue) \in Nat /\ Cardinality(InState("ready")) \in Nat
        /\ wakeups \in Nat
    BY <2>1, CountsAreNaturals, FS_AddElement DEF IInv, TypeOK
  <2>3. QED
    BY <1>1, <1>3, <2>2 DEF FiniteQueue, WorkConserving
<1>4. QED
  BY <1>2, <1>3 DEF NotifyOne, WakeOne

\* A worker sleeps only when it has found the queue empty.
LEMMA ParkKeepsWork ==
  ASSUME IInv, FiniteQueue, WorkConserving, NEW w \in Workers, Park(w)
  PROVE  FiniteQueue' /\ WorkConserving'
<1>1. priorityQueue' = {} /\ wakeups' \in Nat
  BY DEF Park, queueVars, IInv, TypeOK
<1>2. IsFiniteSet(InState("ready")')
  BY SchedulerAssumption, FS_Subset DEF InState
<1>3. Cardinality(priorityQueue') = 0 /\ Cardinality(InState("ready")') \in Nat
  BY <1>1, <1>2, FS_EmptySet, FS_CardinalityType
<1>4. QED
  BY <1>1, <1>3, FS_EmptySet DEF FiniteQueue, WorkConserving

\* A worker that takes a task leaves the ready ones with one task less.
LEMMA TakeKeepsWork ==
  ASSUME IInv, FiniteQueue, WorkConserving, NEW w \in Workers, Take(w)
  PROVE  FiniteQueue' /\ WorkConserving'
<1>1. PICK e \in priorityQueue : priorityQueue' = priorityQueue \ {e}
  BY DEF Take
<1>2. /\ IsFiniteSet(priorityQueue')
      /\ Cardinality(priorityQueue') = Cardinality(priorityQueue) - 1
  BY <1>1, FS_RemoveElement DEF FiniteQueue
<1>3. /\ w \in InState("ready") /\ InState("ready")' = InState("ready") \ {w}
      /\ InState("parked")' = InState("parked") /\ UNCHANGED <<wakeups, owner>>
      /\ wakeups \in Nat
  BY DEF Take, InState, IInv, TypeOK
<1>4. /\ Cardinality(InState("ready")') = Cardinality(InState("ready")) - 1
      /\ Cardinality(priorityQueue) \in Nat /\ Cardinality(InState("ready")) \in Nat
  BY <1>3, CountsAreNaturals, FS_RemoveElement
<1>5. QED
  BY <1>2, <1>3, <1>4 DEF FiniteQueue, WorkConserving

\* While a worker sleeps, every queued task has a ready worker or an owed
\* notification: no interleaving of submit, waitNextTask and the cancellations
\* loses a wake-up, for any number of workers and tasks.
THEOREM NoLostWakeup == Spec => []WorkConserving
<1>1. Init => FiniteQueue /\ WorkConserving
  BY FS_EmptySet DEF Init, FiniteQueue, WorkConserving, InState
<1>2. ASSUME IInv, FiniteQueue, WorkConserving, [Next]_vars
      PROVE  FiniteQueue' /\ WorkConserving'
  <2> USE <1>2
  <2>1. ASSUME NEW w \in Workers, WorkerStep(w) \/ SpuriousWake(w)
        PROVE  FiniteQueue' /\ WorkConserving'
    <3>1. CASE Leave(w)
      <4>1. owner # "open"
        BY <3>1 DEF Leave, IInv, OwnerProgress
      <4>2. QED
        BY <3>1, <4>1 DEF Leave, queueVars, FiniteQueue, WorkConserving
    <3>2. CASE SpuriousWake(w) \/ Execute(w) \/ NotifyCompletion(w)
                 \/ FinalizeTask(w) \/ SignalIdle(w)
      <4>1. /\ UNCHANGED <<priorityQueue, wakeups, owner>>
            /\ InState("parked")' \subseteq InState("parked")
            /\ InState("ready") \subseteq InState("ready")'
        BY <3>2 DEF SpuriousWake, Execute, NotifyCompletion, FinalizeTask,
                    SignalIdle, queueVars, InState, IInv, TypeOK
      <4>2. QED
        BY <4>1, NobodyParksKeepsWork
    <3>3. QED
      BY <2>1, <3>1, <3>2, ParkKeepsWork, TakeKeepsWork DEF WorkerStep
  <2>2. CASE (\E t \in Tasks : CancelTask(t)) \/ CancelAll
               \/ (\E ids \in SUBSET Tasks : CancelTasks(ids))
    <3>1. /\ priorityQueue' \subseteq priorityQueue
          /\ UNCHANGED <<wakeups, owner, workerState>>
      BY <2>2 DEF CancelTask, CancelTasks, CancelAll, DropPending, ClearAll, workerVars
    <3>2. QED
      BY <3>1, NobodyParksKeepsWork DEF InState
  <2>3. CASE BeginShutdown \/ OwnerStep
    <3>1. priorityQueue' \subseteq priorityQueue /\ owner' # "open"
      BY <2>3 DEF BeginShutdown, OwnerStep, RequestStop, JoinPool, DestroyBegin,
                  DestroyEnd, ClearAll, queueVars
    <3>2. QED
      BY <3>1, FS_Subset DEF FiniteQueue, WorkConserving
  <2>4. CASE UNCHANGED vars
    BY <2>4 DEF vars, queueVars, workerVars, FiniteQueue, WorkConserving, InState
  <2>5. QED
    BY <2>1, <2>2, <2>3, <2>4, SubmitKeepsWork, UpdateKeepsWork, NotifyKeepsWork DEF Next
<1>3. QED
  BY <1>1, <1>2, Invariance, PTL DEF Spec
=============================================================================
