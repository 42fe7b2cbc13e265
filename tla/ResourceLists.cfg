SPECIFICATION Spec
CONSTANTS
  Unset = Unset
  Default = Default
  Files <- MCFiles
  MaxLength = 3
  GroupFile <- MCGroupFile
  GroupVersions <- MCVersions
  ResourcePrefixes <- MCPrefixes
  Operations <- MCOperations
CHECK_DEADLOCK FALSE
INVARIANTS
  MergeUnion
  DiffReconstructs
  DiffListsExact
  DocumentsRestoreGroups
