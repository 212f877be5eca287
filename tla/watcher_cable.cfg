SPECIFICATION FairSpec
CONSTANTS
  pa = pa  pb = pb  pc = pc  s1 = s1  s2 = s2
  None = None  Unsupported = Unsupported
  Personalities <- TwoPersonalities
  Hidden <- Empty
  ChargingPersonality = None
  Sessions <- OneSession
  ClientOps <- NoClients
  NonBlocking <- Blocking
  DeferredCalls <- Deferred
  ConfirmAnswers <- ConfirmOrNot
  TryStartAnswers <- StartMayFail
  NullCompletionFaults = TRUE
  BusStates <- MostBusStates
  GlobalStates <- WakesUp
  LockValues <- AllLockValues
  IdPins <- BDevice
  Outside <- WithDevCon
CHECK_DEADLOCK FALSE
INVARIANTS
  TypeOK
  PluginFollowsWatcher
  NeverFaults
  IndicatorTracksDevice
PROPERTIES
  LockStops
  StartsOnlyWithCable
  LifecycleSpec
  DisconnectStops
  ConnectStarts
