SPECIFICATION WSpec
CONSTANTS
  Package = {"seed", "glibc", "other"}
  Path <- MCPath
  Payload = {"a", "b", "d", "d/c"}
  Dir = {"d"}
  Tmp = "tmp"
  Meta <- MCMeta
  Manifest <- MCManifest
  Above <- MCAbove
  Rank <- MCRank
  Roots <- MCRoots
  Starts = {{"seed"}}
  Owned <- SuccessionOwned
  ClaimSets <- MCClaimSets
  Provisional = {"seed"}
  Supersedes <- SuccessionSupersedes
  Deps <- Nothing
  Shared <- Nothing
  Stages <- SuccessionStages
  Reopen = TRUE
  MaxTx = 3
  MaxLog = 20
  MaxCrash = 1
INVARIANTS OwnershipHolds
PROPERTIES InstallsAtomically CessionsAreProved
