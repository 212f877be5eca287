SPECIFICATION FairSpec
CONSTANTS
  pa = pa  pb = pb  pc = pc  s1 = s1  s2 = s2
  None = None  Unsupported = Unsupported
  Personalities <- TwoPersonalities
  Hidden <- Empty
  ChargingPersonality = None
  Sessions <- TwoSessions
  ClientOps <- Changes
  NonBlocking <- AnyBlocking
  DeferredCalls <- Empty
  ConfirmAnswers <- ConfirmOrNot
  TryStartAnswers <- StartMayFail
  NullCompletionFaults = TRUE
  BusStates <- PlugOnly
  GlobalStates <- WakesUp
  LockValues <- AllLockValues
  IdPins <- BDevice
  Outside <- AlwaysGood
CHECK_DEADLOCK FALSE
INVARIANTS
  ActiveInBusyStates
  HandlerServesWatcher
  PublishedIsRunning
  CancelNeverHangs
PROPERTIES
  RequestsAnswered
