SPECIFICATION Spec
CONSTANTS
  Bundles <- MCBundles
  SourceTypes = {"LOCAL_CDN", "REMOTE_CDN"}
  MaxExcess = 1
  MaxFiles = 3
  MaxChunks = 3
  MaxLength = 4
  ChunkSizes = {1, 2}
INVARIANTS
  TypeOK
  UnpackRestores
  CleanUnpackSucceeds
PROPERTIES
  UnpackEnds
