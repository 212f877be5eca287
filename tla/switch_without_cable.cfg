SPECIFICATION Spec
CONSTANTS
  pa = pa  pb = pb  pc = pc  s1 = s1  s2 = s2
  None = None  Unsupported = Unsupported
  Personalities <- TwoPersonalities
  Hidden <- Empty
  ChargingPersonality = None
  Sessions <- OneSession
  ClientOps <- SetOnly
  NonBlocking <- Blocking
  DeferredCalls <- Empty
  ConfirmAnswers <- ConfirmOrNot
  TryStartAnswers <- StartMayFail
  NullCompletionFaults = TRUE
  BusStates <- SomeBusStates
  GlobalStates <- NormalOnly
  LockValues <- NeverLocked
  IdPins <- BDevice
  Outside <- AlwaysGood
CHECK_DEADLOCK FALSE
PROPERTIES
  StartsOnlyWithCable
