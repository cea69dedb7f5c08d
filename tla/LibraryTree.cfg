CONSTANTS
  Tasks = {1, 2, 3}
  LibraryIds = {1, 2}
  Names = {0, 1}
  MaxContent = 1
  PoolSize = 2
SPECIFICATION FairSpec
INVARIANTS
  TreeIsSound
PROPERTIES
  LibraryShowsUp
\* The tasks there may be are used up.
CHECK_DEADLOCK FALSE
