CONSTANTS
  Tasks = {1, 2}
  LibraryIds = {1, 2}
  Paths <- MCPaths
  Below <- MCBelow
  PhotosIn <- MCPhotosIn
  NoPath = NoPath
  PoolSize = 2
  TakenAt <- MCTakenAt
  MakerOf <- MCMakerOf
  ModelOf <- MCModelOf
  LensOf <- MCLensOf
  NameRank <- MCNameRank
  LowerName <- MCLowerName
  NoText = ""
  ParentPath <- MCParentPath
  DayTicks = 2
  MonthDays = 2
  YearMonths = 2
  UtcOffset = 1
SPECIFICATION FairSpec
INVARIANTS
  DatabaseIsSound
  TreesFindPhotos
  QueriesStayInside
PROPERTIES
  PhotosStay
  ImportShowsUp
\* The tasks and the ids there may be are used up.
CHECK_DEADLOCK FALSE
