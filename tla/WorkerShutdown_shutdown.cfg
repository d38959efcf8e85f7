SPECIFICATION FairSpec
CONSTANTS
  Timeout = 5
  Grace = 3
  Kill = 6
  Slow = 2
INVARIANTS
  TypeOK
  StageBounded
  JobsAreHandedBack
  NothingEscapes
PROPERTY
  StagesEnd
CHECK_DEADLOCK FALSE
