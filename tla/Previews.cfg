CONSTANTS
  RowCount = 3
  PreviewRange = 1
  ImageSizes <- MCImageSizes
  MaxSizeBytes = 8
  PixmapSize <- MCPixmapSize
  MaxCost = 6
  MaxTasks <- MCMaxTasks
  Convertible = {1, 2, 3}
SPECIFICATION FairPreviewSpec
INVARIANTS
  PreviewsAreSound
PROPERTIES
  PreviewGetsShown
\* The program may crash.
CHECK_DEADLOCK FALSE
