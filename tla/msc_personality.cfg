SPECIFICATION FairSpec
CONSTANTS
  Drives <- ThreeDrives
  Systems <- FatOrOther
  DismountAnswers <- MayRefuse
  Faulty <- OneFaulty
CHECK_DEADLOCK FALSE
INVARIANTS
  HomeAgain
PROPERTIES
  StopEndsMounting
  AllDrivesServed
  EncryptedStays
  
