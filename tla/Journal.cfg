SPECIFICATION MCSpec
CONSTANTS
  Package = {"p", "q"}
  Path <- MCPath
  Payload = {"d", "d/b"}
  Dir = {"d"}
  Tmp = "tmp"
  Meta <- MCMeta
  Manifest <- MCManifest
  Above <- MCAbove
  Roots <- MCRoots
  ClaimSets <- MCClaimSets
  Reopen = FALSE
  MaxTx = 2
  MaxLog = 4
  MaxCrash = 2
INVARIANTS NothingLost
PROPERTIES RollbackRestores CommitIsFinal EveryJournalRetired FoundBackupsKept
