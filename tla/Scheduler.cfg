CONSTANTS
  Tasks <- MCTasks
  Priorities <- MCPriorities
  Workers = {w1, w2}
  MaxSequence = 3
SPECIFICATION FairSpec
INVARIANTS
  QueueIsSound
  RunningTaskOwned
  WorkConserving
  SchedulerOutlivesWorkers
PROPERTIES
  UrgentThenNewest
  ImplementsTaskService
  QueueDrains
  ShutdownCompletes
\* After the scheduler is destroyed nothing happens.
CHECK_DEADLOCK FALSE
