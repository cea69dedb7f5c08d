CONSTANTS
  Keys <- MCKeys
  NoKey = NoKey
  FileSize <- MCFileSize
  Quotas <- MCQuotas
  FilesMayVanish = TRUE
  Doubtful = {"medium"}
SPECIFICATION FairSpec
INVARIANTS
  IndexIsSound
  DiskWithinQuota
  FilesAreSound
PROPERTIES
  WriteEndsUnlessFilesVanish
  DestructorEnds
