SPECIFICATION FairSpec
CONSTANTS
  DeviceIds <- TwoIds
  HostIds <- Chosen
  Mapping <- Mapped
  Requests <- SomeRequests
  SetAnswers <- MaySet
  MaxStates = 1
  Alternates = TRUE
CHECK_DEADLOCK FALSE
INVARIANTS
  Ep0InStep
  SuccessIsReal
PROPERTIES
  ResultSettles
  HostAnswered
  ConnectedIsServed
