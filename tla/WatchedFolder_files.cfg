SPECIFICATION FairSpec
CONSTANTS
  old = old
  new = new
  tmp = tmp
  a = a
  b = b
  Empty = Empty
  Paths = {old, new}
  Aside = {tmp}
  Contents = {a, b}
  Initially <- MCInitially
  Returns = FALSE
  MaxChanges = 2
  MaxFaults = 1
INVARIANTS
  TypeOK
  DocumentsFollowRows
PROPERTIES
  DeletedStaysDeleted
  CopiesAreNotMoves
  RowsFollowDisk
