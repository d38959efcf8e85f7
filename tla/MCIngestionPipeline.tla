------------------------ MODULE MCIngestionPipeline ------------------------
(* IngestionPipeline with the values its TLC runs give the parameters. *)
EXTENDS IngestionPipeline

CONSTANTS io1, io2, cpu1

(* QUEUE_STAGES; the llm queue's worker is folded into the cpu one. *)
IoStages == {"extract", "chunk", "entities", "finalize"}
CpuStages == {"ocr", "embed", "summarize"}

OneOfEach == {io1, cpu1}
TwoIo == {io1, io2, cpu1}
Queues == [w \in OneOfEach |-> IF w = cpu1 THEN CpuStages ELSE IoStages]
TwoIoQueues == [w \in TwoIo |-> IF w = cpu1 THEN CpuStages ELSE IoStages]

(* Which disturbances a run allows. *)
StoppedRuns == {"fail", "shutdown", "cancel"}
LostRuns == StoppedRuns \cup {"crash", "lapse"}
AllButRaceAndCrash == TroubleKinds \ {"race", "crash"}
RaceOnly == {"race"}
=============================================================================
