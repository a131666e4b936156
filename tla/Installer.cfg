SPECIFICATION FairInstaller
CONSTANTS
  Version <- Versions
  Tool = {m1, m2}
  Packaged <- Brought
  Image = {b1, b2}
  Medium0 <- TwoMedia
  MaxKill = 1
  MaxFail = 1
  Torn = Torn
  Path <- SmallPath
  Above <- SmallAbove
  Administrative <- SmallAdministrative
  Seeds <- SmallSeeds
  Content <- SmallContent
  Sources <- SmallSources
  Foreign <- SmallForeign
  MaxTotal = 3
  MaxEntries = 3
  MaxChange = 1
  m1 = m1
  m2 = m2
  b1 = b1
  b2 = b2
  Out = Out
  None = None
  a = a
  b = b
  Disk = {a, b}
  Capacity <- Capacities
  Tables <- Tables3
  Before <- TableBefore
  Mib = 3
  Entries = 1
  EspMib = 2
  RootFloor = 1
  EspMin = 5
  RootMin = 13
  SwapMin = 1
  SwapWish = 4
  MaxEdit = 1
  MaxCut = 1
INVARIANTS  TreesAreKept
PROPERTIES OfOneMedium Converges
CHECK_DEADLOCK FALSE
