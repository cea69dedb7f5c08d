--------------------------- MODULE NfTaskService ---------------------------
(***************************************************************************)
(* What NfScheduler and NfThreadPool together promise to the code that     *)
(* submits tasks (NfPhotoLoader, NfPhotoScanner, NfPhotoMetadataLoader,    *)
(* NfLibraryManager): a task is pending until a worker starts it or it is  *)
(* discarded, a started task runs to its end, its result handler is called *)
(* once, and only then is the task released.  How the queue is ordered and *)
(* how the workers sleep and wake is not said here: see NfScheduler, which *)
(* is shown to implement this module.                                      *)
(***************************************************************************)
EXTENDS Integers

CONSTANTS Tasks,      \* task ids; each names one NfTask object
          Priorities  \* the integers used as NfTask priorities

VARIABLES phase,      \* phase[t]: where task t is in its life
          priority,   \* priority[t]: NfTask::m_priority
          cancelled   \* tasks whose NfTask::m_cancelled is set

svars == <<phase, priority, cancelled>>

Phases == {"new", "pending", "running", "reported", "finalized", "discarded"}

InPhase(p) == {t \in Tasks : phase[t] = p}

\* The tasks a worker is busy with, until it releases them.
Active == InPhase("running") \union InPhase("reported")

\* The phase of every task of S becomes p.
Move(S, p) == phase' = [t \in Tasks |-> IF t \in S THEN p ELSE phase[t]]

-----------------------------------------------------------------------------
Init ==
  /\ phase = [t \in Tasks |-> "new"]
  /\ priority \in [Tasks -> Priorities]
  /\ cancelled = {}

Submit(t, p) ==
  /\ phase[t] = "new"
  /\ Move({t}, "pending")
  /\ priority' = [priority EXCEPT ![t] = p]
  /\ UNCHANGED cancelled

Reprioritize(t, p) ==
  /\ phase[t] = "pending"
  /\ priority' = [priority EXCEPT ![t] = p]
  /\ UNCHANGED <<phase, cancelled>>

\* The queued tasks of S are dropped: their handlers are never called.  The
\* active ones are asked to stop, which they may notice or not.
Cancel(S) ==
  /\ Move(S \intersect InPhase("pending"), "discarded")
  /\ cancelled' = cancelled \union (S \intersect Active)
  /\ UNCHANGED priority

\* A worker starts a task than which no queued task is more urgent.
Start(t) ==
  /\ phase[t] = "pending"
  /\ \A u \in InPhase("pending") : priority[t] <= priority[u]
  /\ Move({t}, "running")
  /\ UNCHANGED <<priority, cancelled>>

\* The task has run and its result handler has been called.
Report(t) ==
  /\ phase[t] = "running"
  /\ Move({t}, "reported")
  /\ UNCHANGED <<priority, cancelled>>

\* The task object is released.
Finalize(t) ==
  /\ phase[t] = "reported"
  /\ Move({t}, "finalized")
  /\ UNCHANGED <<priority, cancelled>>

Next ==
  \/ \E t \in Tasks, p \in Priorities : Submit(t, p) \/ Reprioritize(t, p)
  \/ \E S \in SUBSET Tasks : Cancel(S)
  \/ \E t \in Tasks : Start(t) \/ Report(t) \/ Finalize(t)

SafetySpec == Init /\ [][Next]_svars

\* What a worker has started, it ends.
Fairness == \A t \in Tasks : WF_svars(Report(t)) /\ WF_svars(Finalize(t))

Spec == SafetySpec /\ Fairness

TypeOK ==
  /\ phase \in [Tasks -> Phases]
  /\ priority \in [Tasks -> Priorities]
  /\ cancelled \subseteq Tasks
=============================================================================
