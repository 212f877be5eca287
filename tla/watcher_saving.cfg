SPECIFICATION Spec
CONSTANTS
  pa = pa  pb = pb  pc = pc  s1 = s1  s2 = s2
  None = None  Unsupported = Unsupported
  Personalities <- TwoPersonalities
  Hidden <- JustB
  ChargingPersonality = None
  Sessions <- OneSession
  ClientOps <- AllOperations
  NonBlocking <- Blocking
  DeferredCalls <- Empty
  ConfirmAnswers <- ConfirmOrNot
  TryStartAnswers <- StartMayFail
  NullCompletionFaults = TRUE
  BusStates <- PlugOnly
  GlobalStates <- NormalOnly
  LockValues <- NeverLocked
  IdPins <- BothPlugs
  Outside <- DiskFull
CHECK_DEADLOCK FALSE
INVARIANTS
  AckedIsSaved
