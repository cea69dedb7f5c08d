CONSTANTS
  a = a
  b = b
  Tasks = {1, 2, 3}
  Photos = {a, b}
  NoPhoto = NoPhoto
  NoTask = NoTask
  PoolSize = 2
  Files <- MCFiles
  Lower <- MCLower
SPECIFICATION FairPanelSpec
INVARIANTS
  PanelInStep
  FileIsReadRight
PROPERTIES
  PanelCatchesUp
\* The tasks there may be are used up.
CHECK_DEADLOCK FALSE
