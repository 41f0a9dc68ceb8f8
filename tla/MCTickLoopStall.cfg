SPECIFICATION FairRuntimeSpec
CONSTANTS
  Configs <- LiveConfig
  MaxTick = 2
  MaxYield = 3
PROPERTIES
  SubmitNeverStalls
CHECK_DEADLOCK FALSE
