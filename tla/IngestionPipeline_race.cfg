SPECIFICATION Spec
CONSTANTS
  io1 = io1
  io2 = io2
  cpu1 = cpu1
  Workers <- OneOfEach
  Serves <- Queues
  NeedsOcr = FALSE
  Troubles <- RaceOnly
  MaxTrouble = 2
  NoWorker = NoWorker
PROPERTIES PipelineSettles
CHECK_DEADLOCK FALSE
