CONSTANTS
  p1 = p1
  p2 = p2
  p3 = p3
  Sources <- MCSources
  Content <- MCContent
  Format <- MCFormat
  Filters <- MCFilters
  Value <- MCValue
  NoPhoto = NoPhoto
SPECIFICATION Spec
INVARIANTS
  RowsAreSound
PROPERTIES
  CurrentIndexFollows
  PreviewFollows
