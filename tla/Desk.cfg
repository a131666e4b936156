SPECIFICATION FairDesk
CONSTANTS
  MaxKey = 2
  MaxMessage = 1
  MaxCut = 3
  Owner = Owner
  MaxRequest = 2
  MaxAttempt = 4
  MaxKill = 3
  MaxStranger = 1
  Stranger = Stranger
  Bare = Bare
  None = None
  Torn = Torn
  MaxRelease = 3
INVARIANTS KeysAreWhole
PROPERTIES MediumComesWhole MachineBoots Converges
CHECK_DEADLOCK FALSE
