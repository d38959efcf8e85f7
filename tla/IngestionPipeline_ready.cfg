SPECIFICATION Spec
CONSTANTS
  io1 = io1
  io2 = io2
  cpu1 = cpu1
  Workers <- TwoIo
  Serves <- TwoIoQueues
  NeedsOcr = TRUE
  Troubles <- StoppedRuns
  MaxTrouble = 2
  NoWorker = NoWorker
INVARIANTS ReadyIsWhole StagesInOrder
CHECK_DEADLOCK FALSE
