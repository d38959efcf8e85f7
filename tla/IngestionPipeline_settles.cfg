SPECIFICATION Spec
CONSTANTS
  io1 = io1
  io2 = io2
  cpu1 = cpu1
  Workers <- OneOfEach
  Serves <- Queues
  NeedsOcr = FALSE
  Troubles <- AllButRaceAndCrash
  MaxTrouble = 2
  NoWorker = NoWorker
PROPERTY PipelineSettles
CHECK_DEADLOCK FALSE
