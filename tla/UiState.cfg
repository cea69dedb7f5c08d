CONSTANTS
  p1 = p1
  p2 = p2
  Sources <- MCSources
  Content <- MCContent
  Format <- MCFormat
  Filters <- MCFilters
  Value <- MCValue
  NoPhoto = NoPhoto
  Paths = {Trip, Odd}
  NoPath = NoPath
  Trip = Trip
  Odd = Odd
  Utf8 <- MCUtf8
  MaxUnsaved = 1
  Queries <- MCQueries
  Libraries = {0}
  Sections = {"image"}
  SortMenu = {"Name"}
  OldFiles <- MCOldFiles
SPECIFICATION UiSpec
INVARIANTS
  RestartKeepsState
  ViewAgrees
