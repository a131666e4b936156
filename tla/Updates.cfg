SPECIFICATION FairSpec
CONSTANTS
  Order <- TwoChannels
  Version <- MCVersion
  Fingerprint <- MCFingerprint
  MaxRelease = 2
  MaxNews = 2
  MaxTrouble = 1
INVARIANTS GenerationsSurvive RecordIsExplained
PROPERTIES Converges
CHECK_DEADLOCK FALSE
