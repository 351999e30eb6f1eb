SPECIFICATION LiveSpec
CONSTANTS
  Library <- MCLibrary
  Folder <- MCFolder
  File <- MCFile
  Title <- MCTitle
  Content <- MCContent
  LibOf <- MCLibOf
  FolderOf <- MCFolderOf
  HashOf <- MCHashOf
  ModTime <- MCModTime
  TitleOf <- MCTitleOf
  StartDisk <- MCStartDisk
  Absent = Absent
  NoRow = NoRow
  Mixed = Mixed
  PurgeMissing = "never"
  Targets <- MCTargets
  MaxEdits = 2
  MaxCuts = 1
  MaxFaults = 0
INVARIANTS AlbumsFresh MaintenanceDone
PROPERTIES  NoFalseMissing FullScanReadsAll 
