SPECIFICATION Publishers
CONSTANTS
  p = p
  q = q
  Publisher = {p, q}
  Request = {"r", "s"}
  SidecarOrder <- OneSidecar
  Inode = {1, 2, 3, 4}
  MaxRun = 3
  MaxCut = 0
  Process = {1, 2}
  Object = {1, 2, 3}
  MaxTrouble = 1
  FILES <- TwoFiles
  HOME <- TwoFolders
  Root = "top"
SYMMETRY Alike
INVARIANTS PublicationHolds
CHECK_DEADLOCK FALSE
