SPECIFICATION Spec
CONSTANTS
  w1 = w1
  w2 = w2
  s1 = s1
  Workers <- TwoWorkers
  Sessions <- OneSession
  Stage = "embed"
  MaxAttempts = 2
  Batches = 1
  Troubles <- AllTroubles
  MaxTrouble = 2
INVARIANTS TypeOK  LooksBeforeItWrites BudgetCountsOutages
PROPERTIES ReaperSparesLiveRuns EveryJobSettles ImplementsLease
CHECK_DEADLOCK FALSE
