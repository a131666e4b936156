SPECIFICATION Spec
CONSTANTS
  Package <- MCPackage
  Command = {"a", "b", "m"}
  Recipes <- MCRecipes
  Provisional = {"seed"}
  Supersedes <- MCSupersedes
  Adopts <- MCAdopts
  Persisted = {"m"}
  None = None
  Torn = Torn
  MaxRun = 4
  MaxStop = 1
INVARIANTS ClaimIsOurs
PROPERTIES CommandStays NamedVersionStays
