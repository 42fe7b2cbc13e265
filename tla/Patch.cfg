SPECIFICATION PatchSpec
CONSTANTS
  Paths = {1, 2, 3}
  Byte = {0, 1, 2}
  Absent = Absent
  NoPackage = NoPackage
  NoMatch = NoMatch
  NoResult = NoResult
  Garbage = Garbage
  FolderOf <- MCFolderOf
  Above <- MCAbove
  Scenarios <- MCScenarios
  ChecksumModulo = 4
  BlocksPerFile = 2
  OffsetModulo = 4
  MaxLength = 3
CHECK_DEADLOCK FALSE
INVARIANTS
  PatchTypeOK
  RollingIsExact
  IndexExact
  ChunkFound
  PatchesRebuild
  ApplyRestores
  NoMixture
  FailureExplained
  NoEmptyFolders
PROPERTIES
  RemovalLast
  ApplyEnds
