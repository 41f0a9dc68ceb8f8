SPECIFICATION ProcessSpec
CONSTANTS
  Tenants = {t1}
  tenant = t1
  None = None
  Callers = {c1, c2}
  Ids = {d1, d2}
  Duration = 1
  MaxFence = 2
  MaxTime = 1
  MaxTick = 2
  MaxRestarts = 1
  Closers = {1, 2}
  SdkTurns <- MCTurns
  Decisions <- MCDecisions
  MaxTurns = 3
SYMMETRY Symmetry
INVARIANTS
  StateIsRecoverable
  
  OnlyTheNewestHandleIsActive
  PlansAndClosesAreSound
PROPERTIES
  RecoveryIsSoundUnderLease
  LeasesImplementAuthority
CHECK_DEADLOCK FALSE
