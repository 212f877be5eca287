SPECIFICATION FairSpec
CONSTANTS
  None = None
  iPersonalityId = MTP
  OtherPersonality = Other
  Outside <- AlwaysGood
  Attachments <- AnyDevice
  LoadResults <- AnyLoad
  MessageKinds <- GoodDevices
  StartResults <- StartsWell
  StopResults <- StartsWell
  FailedStates <- ToIdle
  Races <- NoRaces
  MaxPlugs = 1
  MaxTroubles = 1
CHECK_DEADLOCK FALSE
INVARIANTS
  NeverPanics
  UnpluggedIsUndefined
PROPERTIES
  HostsOnlyAttached
  UnplugStops
  GoneIsNotHosted
  DelaysEnd
