SPECIFICATION SupplySpec
CONSTANTS
  Package <- PlanPackage
  KIND <- PlanKind
  DEPS <- PlanDeps
  BUILD_DEPS <- PlanBuildDeps
  NEEDED <- PlanNeeded
  GIVEN <- PlanGiven
  DIRECTORY <- PlanDirectory
  BUILDS <- PlanBuilds
  SIGNED = {"lib"}
  Command <- PlanCommand
  FirstOffer <- PlanOffer
  Changing = {"lib"}
  MaxTree = 1
  MaxCommand = 3
  MaxTrouble = 1
  Process = {p1, p2}
  MaxRun = 2
  MaxLoss = 1
  MaxPublish = 2
  MaxEdit = 1
  Unused = Unused
INVARIANTS CacheStaysTrue InputsAreAdmitted BuiltAsDeclared
PROPERTIES PlansHold
CHECK_DEADLOCK FALSE
