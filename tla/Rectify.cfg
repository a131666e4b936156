SPECIFICATION FairSpec
CONSTANTS
  Package <- MCPackage
  Tree <- MCTree
  Fingerprint <- MCFingerprint
  Deps <- MCDeps
  FirstTree = "t1"
  Stamps = 2
  MaxKill = 1
  MaxFail = 1
  MaxNews = 1
  MaxRemove = 1
PROPERTIES ReceiptsAreTrue FailureKeepsWork Converges
CHECK_DEADLOCK FALSE
