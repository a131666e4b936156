SPECIFICATION FairPublishers
CONSTANTS
  Publisher = {"p"}
  SidecarOrder <- AllSidecars
  Request = {"r", "s"}
  Inode = {1, 2, 3}
  MaxRun = 6
  MaxCut = 4
  Process = {1}
  Object = {1, 2, 3}
  MaxTrouble = 3
  FILES <- TwoFiles
  HOME <- TwoFolders
  Root = "top"
INVARIANTS PublicationHolds
PROPERTIES Published
CHECK_DEADLOCK FALSE
