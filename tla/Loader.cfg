CONSTANTS
  ThumbnailTasks = {1, 2, 3}
  PreviewTasks = {11}
  Photos = {a}
  NoTask = NoTask
  PoolSize = 2
  MaxGeneration = 1
SPECIFICATION FairSpec
INVARIANTS
  RequestsAreSound
  StaleAreCancelled
PROPERTIES
  EveryRequestEnds
\* The tasks there may be are used up.
CHECK_DEADLOCK FALSE
