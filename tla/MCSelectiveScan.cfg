SPECIFICATION Spec
CONSTANTS
  Library <- MCLibrary
  Folder <- MCFolder
  File <- MCFile
  Title <- MCTitle
  Content <- MCContent
  LibOf <- MCLibOf
  FolderOf <- MCFolderOf
  HashOf <- MCHashOf
  ModTime <- MCModTime
  TitleOf <- MCTitleOf
  StartDisk <- MCStartDisk
  Absent = Absent
  NoRow = NoRow
  Mixed = Mixed
  PurgeMissing = "always"
  Targets <- MCTargets
  MaxEdits = 1
  MaxCuts = 0
  MaxFaults = 1
INVARIANTS AlbumsFresh MaintenanceDone
