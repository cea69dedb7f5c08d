CONSTANTS
  Gigabyte = 4
  SpinRange = 2
  Folders <- MCFolders
  Defaults <- MCDefaults
  OldSettings <- MCOldSettings
  NoFile = NoFile
  Unreadable = Unreadable
  Closed = Closed
SPECIFICATION Spec
INVARIANTS
  CoreOutlivesItsUsers
PROPERTIES
  SettingsWhole
