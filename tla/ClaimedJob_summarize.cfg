SPECIFICATION Spec
CONSTANTS
  w1 = w1
  w2 = w2
  s1 = s1
  Workers <- TwoWorkers
  Sessions <- OneSession
  Stage = "summarize"
  MaxAttempts = 2
  Batches = 0
  Troubles <- NoEnqueue
  MaxTrouble = 3
SYMMETRY WorkerSymmetry
INVARIANT LooksBeforeItWrites
PROPERTY ImplementsLease
CHECK_DEADLOCK FALSE
