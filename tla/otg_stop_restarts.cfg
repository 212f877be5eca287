SPECIFICATION Spec
CONSTANTS
  None = None
  iPersonalityId = MTP
  OtherPersonality = Other
  Outside <- AlwaysGood
  Attachments <- AnyDevice
  LoadResults <- AnyLoad
  MessageKinds <- GoodDevices
  StartResults <- StartsWell
  StopResults <- StopMayFail
  FailedStates <- ToIdle
  Races <- OnlyOtherClient
  MaxPlugs = 1
  MaxTroubles = 1
CHECK_DEADLOCK FALSE
PROPERTIES
  StopHolds
