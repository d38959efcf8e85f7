SPECIFICATION Spec
CONSTANTS
  io1 = io1
  io2 = io2
  cpu1 = cpu1
  Workers <- OneOfEach
  Serves <- Queues
  NeedsOcr = FALSE
  Troubles <- LostRuns
  MaxTrouble = 3
  NoWorker = NoWorker
INVARIANTS TypeOK ReadyIsWhole StagesInOrder
 
CHECK_DEADLOCK FALSE
