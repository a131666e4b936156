SPECIFICATION PartsSpec
CONSTANTS
  Package <- MCPackage
  Path <- MCPath
  Dir <- MCDir
  Shared <- MCShared
  Above <- MCAbove
  Rank <- MCRank
  Payload <- MCPayload
  Deps <- MCDeps
  Requests <- Orderly
  RecPackage <- MCRecPackage
  Revision <- MCRevision
  VersionOf <- MCVersionOf
  RecPath <- MCRecPath
  RecTrees = {"version-1", "version-2"}
  RecDirectory = {"directory"}
  MaxEdited = 1
  Contents = {"a", "b", "c"}
  None = None
INVARIANTS NoOrphanFile 
PROPERTIES EditsSurvive TakesOnlyItsOwn RecordsHold DefaultsFollow
