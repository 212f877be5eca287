SPECIFICATION FairSpec
CONSTANTS
  Cbws <- AllCases
  Ep0Requests <- SomeEp0
  Blocks = 2
  Outside <- SomeFail
  Races <- NoRaces
  MaxStates = 2
  MaxRx = 2
CHECK_DEADLOCK FALSE
INVARIANTS
  CswIsHonest
  PhasesAgree
  SilentOnlyAfterError
  FailureIsExplained
  IdleReleasesDevice
PROPERTIES
  RecoveryEnds
