SPECIFICATION Spec
CONSTANTS
  None = None
  iPersonalityId = MTP
  OtherPersonality = Other
  Outside <- SomeFail
  Attachments <- SomeDevices
  LoadResults <- SomeLoads
  MessageKinds <- SomeMessages
  StartResults <- StartRunsOut
  StopResults <- StopMayFail
  FailedStates <- AnyFailure
  Races <- AllRaces
  MaxPlugs = 0
  MaxTroubles = 1
CHECK_DEADLOCK FALSE
INVARIANTS
  TypeOK
  TimersFollowState
  IndicatorTracksVBus
