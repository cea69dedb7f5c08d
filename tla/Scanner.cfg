CONSTANTS
  Tasks = {1, 2, 3}
  Folders <- MCFolders
  Libraries <- MCLibraries
  NoSource = NoSource
  Entries <- MCEntries
  Content <- MCContent
SPECIFICATION FairSpec
INVARIANTS
  FoundListIsSound
  OnePhotoForAll
  CancelledExactlyStale
PROPERTIES
  SourceIsShown
