SPECIFICATION WSpec
CONSTANTS
  Package = {"theme", "app", "other"}
  Path <- MCPath
  Payload = {"a", "d", "d/c", "d/e"}
  Dir = {"d"}
  Tmp = "tmp"
  Meta <- MCMeta
  Manifest <- MCManifest
  Above <- MCAbove
  Rank <- MCRank
  Roots <- MCRoots
  Starts = {{}, {"theme"}}
  Owned <- SharingOwned
  ClaimSets <- MCClaimSets
  Provisional = {}
  Supersedes <- Nothing
  Deps <- SharingDeps
  Shared <- SharingShared
  Stages <- SharingStages
  Reopen = FALSE
  MaxTx = 3
  MaxLog = 20
  MaxCrash = 1
PROPERTIES DepositsAreDeclared 
