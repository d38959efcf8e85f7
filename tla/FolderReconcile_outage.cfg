SPECIFICATION FairSpec
CONSTANTS
  f1 = f1
  Folders <- OneFolder
  NoFolder = NoFolder
  MaxTroubles = 3
INVARIANTS
  TypeOK
  CatchUpOnlyInOutage
  
PROPERTIES
  CaughtUp
  
CHECK_DEADLOCK FALSE
