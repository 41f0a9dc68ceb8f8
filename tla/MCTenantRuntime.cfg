SPECIFICATION FairRuntimeSpec
CONSTANTS
  Configs <- AllConfigs
  MaxTick = 3
  MaxYield = 3
INVARIANTS
  OneSubmissionPerTick
  RunIsAccountedFor
  LostRecordIsNotReady
PROPERTIES
  LoopIsUnaffected
  LoopEnds
CHECK_DEADLOCK FALSE
