SPECIFICATION FairSpec
CONSTANTS
  r1 = r1
  r2 = r2
  a = a
  b = b
  Requests = {r1, r2}
  Files = {a, b}
  NoFile = NoFile
  MaxUploads = 3
  MaxDocs = 4
  MaxRequests = 3
  MaxFaults = 1
INVARIANTS
  TypeOK
  
  UploadsAreCounted
PROPERTIES
  StagedFilesGo
CHECK_DEADLOCK FALSE
