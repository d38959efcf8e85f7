----------------------- MODULE IngestionPipelineProofs -----------------------
(***************************************************************************)
(* What is proved of IngestionPipeline for every set of workers and queues *)
(* and every number of disturbances: of every kind for the types, and for  *)
(* the other theorems of the kinds each names.                             *)
(***************************************************************************)
EXTENDS IngestionPipeline, TLAPS

-----------------------------------------------------------------------------
(* Type correctness *)

LEMMA JobsAreJobs ==
  /\ NoJob \in Job
  /\ \A g \in Nat : QueuedJob(g) \in Job /\ SkippedJob(g) \in Job
BY DEF NoJob, QueuedJob, SkippedJob, Job

LEMMA IdleIsRun == Idle \in Run
BY DEF Idle, Run, PC, Stages, Pages, NoPages

LEMMA InitType == Init => TypeOK
<1> SUFFICES ASSUME Init PROVE TypeOK
  OBVIOUS
<1>1. job \in [Stages -> Job]
  BY JobsAreJobs DEF Init
<1>2. doc \in [gen: Nat, status: DocStatus]
  BY DEF Init, DocStatus
<1>3. run \in [Workers -> Run]
  BY IdleIsRun DEF Init
<1> QED
  BY <1>1, <1>2, <1>3 DEF Init, TypeOK, Pages, NoPages

(* Every update of a run's fields that a step makes leaves a run. *)
LEMMA UpdatesAreRuns ==
  ASSUME NEW r \in Run
  PROVE  /\ \A p \in PC : [r EXCEPT !.pc = p] \in Run
         /\ \A p \in PC, t \in SUBSET Stages :
              [r EXCEPT !.pc = p, !.todo = t] \in Run
         /\ \A p \in PC, q \in Pages : [r EXCEPT !.pc = p, !.seen = q] \in Run
         /\ \A b \in BOOLEAN : [r EXCEPT !.gone = b] \in Run
         /\ \A p \in PC, s \in Stages, g \in Nat :
              [r EXCEPT !.pc = p, !.ins = s, !.insGen = g] \in Run
<1>1. \A p \in PC : [r EXCEPT !.pc = p] \in Run
  BY DEF Run
<1>2. ASSUME NEW p \in PC, NEW t \in SUBSET Stages
      PROVE  [r EXCEPT !.pc = p, !.todo = t] \in Run
  BY DEF Run
<1>3. \A p \in PC, q \in Pages : [r EXCEPT !.pc = p, !.seen = q] \in Run
  BY DEF Run
<1>4. ASSUME NEW b \in BOOLEAN PROVE [r EXCEPT !.gone = b] \in Run
  BY DEF Run
<1>5. \A p \in PC, s \in Stages, g \in Nat :
        [r EXCEPT !.pc = p, !.ins = s, !.insGen = g] \in Run
  BY DEF Run
<1> QED
  BY <1>1, <1>2, <1>3, <1>4, <1>5

(* The ways a step changes a run keep its type. *)
LEMMA RunMoves ==
  ASSUME TypeOK, NEW w \in Workers
  PROVE  /\ \A pc \in PC : Goto(w, pc) => run' \in [Workers -> Run]
         /\ EndRun(w) => run' \in [Workers -> Run]
         /\ \A s \in Stages : Enqueued(w, s) => run' \in [Workers -> Run]
<1>1. \A pc \in PC : Goto(w, pc) => run' \in [Workers -> Run]
  BY DEF Goto, TypeOK, Run
<1>2. EndRun(w) => run' \in [Workers -> Run]
  BY IdleIsRun DEF EndRun, TypeOK
<1>3. ASSUME NEW s \in Stages, Enqueued(w, s) PROVE run' \in [Workers -> Run]
  <2>1. CASE run[w].todo \ {s} = {}
    BY <1>2, <1>3, <2>1 DEF Enqueued
  <2>2. CASE run[w].todo \ {s} # {}
    <3>1. run' = [run EXCEPT ![w].pc = "enqueue", ![w].todo = run[w].todo \ {s}]
      BY <1>3, <2>2 DEF Enqueued
    <3>2. run[w] \in Run /\ run[w].todo \ {s} \in SUBSET Stages
      BY DEF TypeOK, Run
    <3>3. [run[w] EXCEPT !.pc = "enqueue", !.todo = run[w].todo \ {s}] \in Run
      BY <3>2, UpdatesAreRuns DEF PC
    <3> QED
      BY <3>1, <3>3 DEF TypeOK
  <2> QED
    BY <2>1, <2>2
<1> QED
  BY <1>1, <1>2, <1>3

(* What a step may write into the document and its jobs. *)
LEMMA RowMoves ==
  ASSUME TypeOK, NEW s \in Stages
  PROVE  /\ \A g \in Nat : Enqueue(s, g) => job' \in [Stages -> Job]
         /\ StatusEnqueued(s) => doc' \in [gen: Nat, status: DocStatus]
         /\ Requeue(s) => job' \in [Stages -> Job]
         /\ NewGeneration => /\ doc' \in [gen: Nat, status: DocStatus]
                             /\ job' \in [Stages -> Job]
<1>1. \A g \in Nat : Enqueue(s, g) => job' \in [Stages -> Job]
  BY JobsAreJobs DEF Enqueue, TypeOK
<1>2. StatusEnqueued(s) => doc' \in [gen: Nat, status: DocStatus]
  BY DEF StatusEnqueued, TypeOK, DocStatus
<1>3. Requeue(s) => job' \in [Stages -> Job]
  BY JobsAreJobs DEF Requeue, TypeOK, Job
<1>4. NewGeneration => /\ doc' \in [gen: Nat, status: DocStatus]
                       /\ job' \in [Stages -> Job]
  BY JobsAreJobs DEF NewGeneration, TypeOK, DocStatus
<1> QED
  BY <1>1, <1>2, <1>3, <1>4

LEMMA StepType == ASSUME TypeOK, [Next]_vars PROVE TypeOK'
<1>1. ASSUME NEW w \in Workers, NEW s \in Stages, Claim(w, s) PROVE TypeOK'
  <2>1. job' \in [Stages -> Job]
    BY <1>1 DEF Claim, TypeOK, Job
  <2>2. run' \in [Workers -> Run]
    BY <1>1, IdleIsRun DEF Claim, TypeOK, Run, PC
  <2> QED
    BY <1>1, <2>1, <2>2 DEF Claim, TypeOK, data
<1>2. ASSUME NEW w \in Workers, Start(w) PROVE TypeOK'
  <2>1. Input(run[w].stage) \in Pages
    BY DEF Input, FromFile, Pages, NoPages, TypeOK
  <2>2. run' \in [Workers -> Run]
    <3>1. CASE EndRun(w) \/ Goto(w, "mark")
      BY <3>1, RunMoves DEF PC
    <3>2. CASE run' = [run EXCEPT ![w].pc = "check",
                                  ![w].seen = Input(run[w].stage)]
      <4>1. [run[w] EXCEPT !.pc = "check", !.seen = Input(run[w].stage)] \in Run
        BY <2>1, UpdatesAreRuns DEF TypeOK, PC
      <4> QED
        BY <3>2, <4>1 DEF TypeOK
    <3> QED
      BY <1>2, <3>1, <3>2 DEF Start
  <2> QED
    BY <1>2, <2>2 DEF Start, TypeOK, data
<1>3. ASSUME NEW w \in Workers, Check(w) PROVE TypeOK'
  <2>1. run' \in [Workers -> Run]
    BY <1>3, RunMoves DEF Check, PC
  <2> QED
    BY <1>3, <2>1 DEF Check, TypeOK, data
<1>4. ASSUME NEW w \in Workers, StageFails(w) PROVE TypeOK'
  <2>1. run' \in [Workers -> Run]
    BY <1>4, RunMoves DEF StageFails, PC
  <2> QED
    BY <1>4, <2>1 DEF StageFails, Disturb, TypeOK, data
<1>5. ASSUME NEW w \in Workers, Write(w) PROVE TypeOK'
  <2>1. run' \in [Workers -> Run]
    <3>1. ASSUME NEW deleted, AfterWrite(w, deleted) PROVE run' \in [Workers -> Run]
      <4>1. NoPages \in Pages /\ "mark" \in PC
        BY DEF NoPages, Pages, PC
      <4>2. ASSUME NEW v \in Workers PROVE run'[v] \in Run
        <5>1. run[w] \in Run /\ run[v] \in Run
          BY DEF TypeOK
        <5>2. [run[w] EXCEPT !.pc = "mark", !.seen = NoPages] \in Run
          BY <4>1, <5>1, UpdatesAreRuns
        <5>3. [run[v] EXCEPT !.gone = run[v].pc \in {"check", "write"}] \in Run
          <6>1. (run[v].pc \in {"check", "write"}) \in BOOLEAN
            OBVIOUS
          <6> QED
            BY <5>1, <6>1, UpdatesAreRuns, Zenon
        <5> QED
          BY <3>1, <5>1, <5>2, <5>3 DEF AfterWrite
      <4> QED
        BY <3>1, <4>2 DEF AfterWrite
    <3> QED
      BY <1>5, <3>1 DEF Write
  <2>2. run[w].seen \in Pages
    BY DEF TypeOK, Run
  <2>3. [run[w].seen EXCEPT !.ocr = run[w].seen.ocr + 1] \in Pages
    BY <2>2 DEF Pages
  <2>4. /\ pages' \in Pages /\ chunks' \in Pages
        /\ vecs' \in BOOLEAN /\ ents' \in BOOLEAN
        /\ doc' \in [gen: Nat, status: DocStatus]
    BY <1>5, <2>2, <2>3 DEF Write, TypeOK, data, DocStatus
  <2> QED
    BY <1>5, <2>1, <2>4 DEF Write, TypeOK
<1>6. ASSUME NEW w \in Workers, WriteFails(w) PROVE TypeOK'
  <2>1. run' \in [Workers -> Run]
    BY <1>6, RunMoves DEF WriteFails, PC
  <2> QED
    BY <1>6, <2>1 DEF WriteFails, TypeOK, data
<1>7. ASSUME NEW w \in Workers, MarkDone(w) PROVE TypeOK'
  <2>1. run' \in [Workers -> Run]
    BY <1>7, RunMoves DEF MarkDone, PC
  <2>2. job' \in [Stages -> Job]
    BY <1>7 DEF MarkDone, TypeOK, Job
  <2>3. doc' \in [gen: Nat, status: DocStatus]
    BY <1>7 DEF MarkDone, TypeOK, DocStatus, StatusAfter
  <2> QED
    BY <1>7, <2>1, <2>2, <2>3 DEF MarkDone, TypeOK, data
<1>8. ASSUME NEW w \in Workers, Advance(w) PROVE TypeOK'
  <2>1. ToEnqueue(doc.gen) \in SUBSET Stages
    BY DEF ToEnqueue, FirstMissing, FanOut, Parallel, Background, Stages
  <2>2. run' \in [Workers -> Run]
    <3>1. CASE EndRun(w)
      BY <3>1, RunMoves
    <3>2. CASE run' = [run EXCEPT ![w].pc = "enqueue", ![w].todo = ToEnqueue(doc.gen)]
      <4>1. [run[w] EXCEPT !.pc = "enqueue", !.todo = ToEnqueue(doc.gen)] \in Run
        BY <2>1, UpdatesAreRuns DEF TypeOK, PC
      <4> QED
        BY <3>2, <4>1 DEF TypeOK
    <3> QED
      BY <1>8, <3>1, <3>2 DEF Advance
  <2>3. job' \in [Stages -> Job]
    BY <1>8, JobsAreJobs DEF Advance, TypeOK
  <2>4. doc' \in [gen: Nat, status: DocStatus]
    BY <1>8 DEF Advance, TypeOK, DocStatus
  <2> QED
    BY <1>8, <2>2, <2>3, <2>4 DEF Advance, TypeOK, data
<1>9. ASSUME NEW w \in Workers, NEW s \in Stages, EnqueueStage(w, s) PROVE TypeOK'
  <2>1. run' \in [Workers -> Run]
    BY <1>9, RunMoves DEF EnqueueStage
  <2>2. job' \in [Stages -> Job] /\ doc' \in [gen: Nat, status: DocStatus]
    BY <1>9, RowMoves DEF EnqueueStage, TypeOK
  <2> QED
    BY <1>9, <2>1, <2>2 DEF EnqueueStage, TypeOK, data
<1>10. ASSUME NEW w \in Workers, NEW s \in Stages, FindMissing(w, s) PROVE TypeOK'
  <2>1. run' \in [Workers -> Run]
    <3>1. [run[w] EXCEPT !.pc = "insert", !.ins = s, !.insGen = doc.gen] \in Run
      BY UpdatesAreRuns DEF TypeOK, PC
    <3> QED
      BY <1>10, <3>1 DEF FindMissing, TypeOK
  <2> QED
    BY <1>10, <2>1 DEF FindMissing, Disturb, TypeOK, data
<1>11. ASSUME NEW w \in Workers, InsertJob(w) PROVE TypeOK'
  <2>1. run[w].ins \in Stages /\ run[w].insGen \in Nat
    BY DEF TypeOK, Run
  <2>2. run' \in [Workers -> Run]
    BY <1>11, <2>1, RunMoves DEF InsertJob, PC
  <2>3. job' \in [Stages -> Job] /\ doc' \in [gen: Nat, status: DocStatus]
    BY <1>11, <2>1, RowMoves DEF InsertJob, TypeOK
  <2> QED
    BY <1>11, <2>2, <2>3 DEF InsertJob, TypeOK, data
<1>12. ASSUME NEW w \in Workers, RecordFailure(w) PROVE TypeOK'
  <2>1. run' \in [Workers -> Run]
    BY <1>12, RunMoves DEF RecordFailure
  <2>2. job' \in [Stages -> Job]
    BY <1>12 DEF RecordFailure, TypeOK, Job
  <2>3. doc' \in [gen: Nat, status: DocStatus]
    BY <1>12 DEF RecordFailure, TypeOK, DocStatus
  <2> QED
    BY <1>12, <2>1, <2>2, <2>3 DEF RecordFailure, TypeOK, data
<1>13. ASSUME NEW w \in Workers, Shutdown(w) PROVE TypeOK'
  <2>1. run' \in [Workers -> Run] /\ run[w].stage \in Stages
    BY <1>13, RunMoves DEF Shutdown, TypeOK, Run
  <2>2. job' \in [Stages -> Job]
    BY <1>13, <2>1, RowMoves DEF Shutdown, TypeOK
  <2> QED
    BY <1>13, <2>1, <2>2 DEF Shutdown, Disturb, TypeOK, data
<1>14. ASSUME NEW w \in Workers, Crash(w) PROVE TypeOK'
  <2>1. run' \in [Workers -> Run]
    BY <1>14, RunMoves DEF Crash
  <2> QED
    BY <1>14, <2>1 DEF Crash, Disturb, TypeOK, data
<1>15. ASSUME NEW s \in Stages, ReapDead(s) \/ ReapLive(s) PROVE TypeOK'
  <2>1. job' \in [Stages -> Job]
    BY <1>15, RowMoves DEF ReapDead, ReapLive
  <2> QED
    BY <1>15, <2>1 DEF ReapDead, ReapLive, Disturb, TypeOK, data
<1>16. CASE Cancel
  <2>1. job' \in [Stages -> Job]
    BY <1>16 DEF Cancel, TypeOK, Job
  <2>2. doc' \in [gen: Nat, status: DocStatus]
    BY <1>16 DEF Cancel, TypeOK, DocStatus
  <2> QED
    BY <1>16, <2>1, <2>2 DEF Cancel, Disturb, TypeOK, data
<1>17. CASE Reprocess
  <2>1. /\ doc' \in [gen: Nat, status: DocStatus]
        /\ job' \in [Stages -> Job]
    BY <1>17, RowMoves DEF Reprocess, Stages
  <2> QED
    BY <1>17, <2>1 DEF Reprocess, Disturb, TypeOK, data
<1>18. CASE Refresh
  <2>1. /\ doc' \in [gen: Nat, status: DocStatus]
        /\ job' \in [Stages -> Job]
    BY <1>18, RowMoves DEF Refresh, Stages
  <2>2. run' \in [Workers -> Run]
    <3>1. ASSUME NEW w \in Workers PROVE run'[w] \in Run
      <4>1. run[w] \in Run
        BY DEF TypeOK
      <4>2. [run[w] EXCEPT !.gone = run[w].gone
               \/ /\ run[w].pc \in {"check", "write"}
                  /\ run[w].stage \in {"ocr", "entities", "embed"}] \in Run
        BY <4>1 DEF Run
      <4> QED
        BY <1>18, <4>2 DEF Refresh
    <3> QED
      BY <1>18, <3>1 DEF Refresh
  <2> QED
    <3>1. NoPages \in Pages
      BY DEF Pages, NoPages
    <3>2. /\ pages' \in Pages /\ chunks' \in Pages
          /\ vecs' \in BOOLEAN /\ ents' \in BOOLEAN
      BY <1>18, <3>1 DEF Refresh
    <3>3. trouble' \in Nat
      BY <1>18 DEF Refresh, Disturb, TypeOK
    <3> QED
      BY <2>1, <2>2, <3>2, <3>3 DEF TypeOK
<1>19. CASE Resummarize
  <2>1. job' \in [Stages -> Job]
    BY <1>19, RowMoves DEF Resummarize, TypeOK, Stages
  <2> QED
    BY <1>19, <2>1 DEF Resummarize, Disturb, TypeOK, data
<1>20. CASE UNCHANGED vars
  BY <1>20 DEF vars, TypeOK
<1> QED
  BY <1>1, <1>2, <1>3, <1>4, <1>5, <1>6, <1>7, <1>8, <1>9, <1>10, <1>11, <1>12,
     <1>13, <1>14, <1>15, <1>16, <1>17, <1>18, <1>19, <1>20
  DEF Next, RunStep

(* Every reachable state is well typed: whatever the workers, clients and reaper
   do, a document, its jobs and its runs only ever hold the values the code
   knows.                                                                  *)
THEOREM PipelineTypeCorrect == Spec => []TypeOK
BY InitType, StepType, PTL DEF Spec

-----------------------------------------------------------------------------
(* A document fails only by a run that failed while it held its claim.

   _record_job_failure marks the document failed when its own row is absent or
   of another generation, too.  That this never shows needs an invariant of
   the runs: a run of the current generation has its row, and while it may yet
   fail with the claim that row is running, or cancelled.  It holds where
   enqueue_stage's insert never breaks the unique key.                     *)

(* No run is between finding a row missing and inserting it. *)
NoInserts == \A w \in Workers : run[w].pc # "insert"

(* A run's generation is the document's or an older one; at the document's, the
   row it was claimed from is there, of that generation.                   *)
RowsKept ==
  \A w \in Workers :
    run[w].pc # "idle" =>
      /\ run[w].gen <= doc.gen
      /\ run[w].gen = doc.gen =>
           /\ job[run[w].stage].gen = doc.gen
           /\ job[run[w].stage].status # "absent"

(* Where a run that may yet fail still owns its row, the row is running unless
   it was cancelled.                                                       *)
MayFail(w) == run[w].pc \in {"start", "check", "write", "fail"}

ClaimsRun ==
  \A w \in Workers :
    (/\ MayFail(w) /\ run[w].gen = doc.gen
     /\ job[run[w].stage].owner = w)
      => job[run[w].stage].status \in {"running", "error"}

RunsHaveRows == NoInserts /\ RowsKept /\ ClaimsRun

(* What any step but a new generation does to a run, ... *)
RunGoesOn(w) ==
  \/ run'[w].pc = "idle"
  \/ /\ run'[w].pc \notin {"idle", "insert"}
     /\ run[w].pc # "idle"
     /\ run'[w].stage = run[w].stage
     /\ run'[w].gen = run[w].gen
     /\ MayFail(w)' => MayFail(w)

(* ... and to a row, unless a worker claims or marks it. *)
RowGoesOn(s) ==
  /\ \/ job'[s].gen = doc.gen
     \/ job'[s].gen = job[s].gen
  /\ job'[s].status = "absent" => job[s].status = "absent"
  /\ \/ job'[s].owner = NoWorker
     \/ /\ job'[s].owner = job[s].owner
        /\ job'[s].status \in {job[s].status, "error"}

LEMMA GoesOnKeeps ==
  ASSUME TypeOK, RunsHaveRows, doc'.gen = doc.gen,
         \A w \in Workers : RunGoesOn(w),
         \A s \in Stages : RowGoesOn(s)
  PROVE  RunsHaveRows'
<1>1. \A w \in Workers : run[w].stage \in Stages
  BY DEF TypeOK, Run
<1>2. NoInserts'
  BY DEF NoInserts, RunGoesOn
<1>3. RowsKept'
  BY <1>1 DEF RowsKept, RunGoesOn, RowGoesOn, RunsHaveRows
<1>4. ClaimsRun'
  BY <1>1, PipelineAssumption 
  DEF ClaimsRun, RunGoesOn, RowGoesOn, RunsHaveRows, MayFail
<1> QED
  BY <1>2, <1>3, <1>4 DEF RunsHaveRows

LEMMA InitHasRows == Init => RunsHaveRows
BY DEF Init, Idle, RunsHaveRows, NoInserts, RowsKept, ClaimsRun, MayFail

LEMMA ClaimKeepsRows ==
  ASSUME TypeOK, RunsHaveRows, NEW w \in Workers, NEW s \in Stages, Claim(w, s)
  PROVE  RunsHaveRows'
<1>1. /\ doc.gen \in Nat /\ doc' = doc
      /\ \A v \in Workers : run[v].stage \in Stages
  BY DEF TypeOK, Run, Claim
<1>2. /\ run'[w].pc = "start" /\ run'[w].stage = s /\ run'[w].gen = doc.gen
      /\ \A v \in Workers \ {w} : run'[v] = run[v]
  BY DEF Claim, Idle, TypeOK
<1>3. /\ job'[s].gen = doc.gen /\ job'[s].status = "running" /\ job'[s].owner = w
      /\ \A t \in Stages \ {s} : job'[t] = job[t]
  BY DEF Claim, TypeOK, Job
<1>4. NoInserts'
  BY <1>2 DEF RunsHaveRows, NoInserts
<1>5. RowsKept'
  BY <1>1, <1>2, <1>3 DEF RunsHaveRows, RowsKept
<1>6. ClaimsRun'
  BY <1>1, <1>2, <1>3 DEF RunsHaveRows, ClaimsRun, MayFail
<1> QED
  BY <1>4, <1>5, <1>6 DEF RunsHaveRows

LEMMA MarkDoneKeepsRows ==
  ASSUME TypeOK, RunsHaveRows, NEW w \in Workers, MarkDone(w)
  PROVE  RunsHaveRows'
<1> DEFINE s == run[w].stage
<1>1. \A v \in Workers : run[v].stage \in Stages
  BY DEF TypeOK, Run
<1>2. doc'.gen = doc.gen
  BY DEF MarkDone, TypeOK
<1>3. /\ \A v \in Workers \ {w} : run'[v] = run[v]
      /\ ~MayFail(w)' /\ run'[w].pc # "insert"
      /\ run'[w].pc # "idle" => /\ run[w].pc # "idle"
                                /\ run'[w].stage = s /\ run'[w].gen = run[w].gen
  BY DEF MarkDone, Goto, EndRun, Idle, TypeOK, Run, MayFail
<1>4. \/ job' = job
      \/ /\ job[s].owner = w
         /\ job'[s].owner = w /\ job'[s].gen = job[s].gen /\ job'[s].status = "done"
         /\ \A t \in Stages \ {s} : job'[t] = job[t]
  BY <1>1 DEF MarkDone, RunIsCurrent, TypeOK, Job
<1>5. NoInserts'
  BY <1>3 DEF RunsHaveRows, NoInserts
<1>6. RowsKept'
  BY <1>1, <1>2, <1>3, <1>4 DEF RunsHaveRows, RowsKept
<1>7. ClaimsRun'
  BY <1>1, <1>2, <1>3, <1>4 DEF RunsHaveRows, ClaimsRun, MayFail
<1> QED
  BY <1>5, <1>6, <1>7 DEF RunsHaveRows

LEMMA NewGenerationKeepsRows ==
  ASSUME TypeOK, RunsHaveRows, NewGeneration,
         \A w \in Workers : run'[w].pc = run[w].pc /\ run'[w].gen = run[w].gen
  PROVE  RunsHaveRows'
<1>1. doc'.gen = doc.gen + 1
  BY DEF NewGeneration
<1>2. \A w \in Workers : run[w].gen \in Nat
  BY DEF TypeOK, Run
<1>3. doc.gen \in Nat
  BY DEF TypeOK
<1>4. \A w \in Workers :
        run'[w].pc # "idle" => run'[w].gen <= doc'.gen /\ run'[w].gen # doc'.gen
  BY <1>1, <1>2, <1>3 DEF RunsHaveRows, RowsKept
<1> QED
  BY <1>4 DEF RunsHaveRows, NoInserts, RowsKept, ClaimsRun, MayFail

(* The ways a step lets the runs go on, ... *)
LEMMA RunsGoOn ==
  ASSUME TypeOK, RunsHaveRows, NEW w \in Workers
  PROVE  /\ UNCHANGED run => \A v \in Workers : RunGoesOn(v)
         /\ EndRun(w) => \A v \in Workers : RunGoesOn(v)
         /\ \A pc \in {"mark", "advance", "enqueue"} :
              Goto(w, pc) /\ run[w].pc # "idle" => \A v \in Workers : RunGoesOn(v)
         /\ \A pc \in {"check", "write", "fail"} :
              Goto(w, pc) /\ MayFail(w) => \A v \in Workers : RunGoesOn(v)
         /\ \A s \in Stages :
              Enqueued(w, s) /\ run[w].pc # "idle" => \A v \in Workers : RunGoesOn(v)
<1>1. run \in [Workers -> Run]
  BY DEF TypeOK
<1>2. ASSUME NEW v \in Workers, run'[v] = run[v] PROVE RunGoesOn(v)
  BY <1>2 DEF RunGoesOn, RunsHaveRows, NoInserts, MayFail
<1>3. UNCHANGED run => \A v \in Workers : RunGoesOn(v)
  BY <1>2
<1>4. EndRun(w) => \A v \in Workers : RunGoesOn(v)
  <2>1. ASSUME EndRun(w), NEW v \in Workers PROVE RunGoesOn(v)
    BY <1>1, <1>2, <2>1 DEF EndRun, Idle, RunGoesOn
  <2> QED
    BY <2>1
<1>5. ASSUME NEW pc \in {"mark", "advance", "enqueue"},
             Goto(w, pc), run[w].pc # "idle", NEW v \in Workers
      PROVE  RunGoesOn(v)
  BY <1>1, <1>2, <1>5 DEF Goto, Run, RunGoesOn, MayFail
<1>6. ASSUME NEW pc \in {"check", "write", "fail"},
             Goto(w, pc), MayFail(w), NEW v \in Workers
      PROVE  RunGoesOn(v)
  BY <1>1, <1>2, <1>6 DEF Goto, Run, RunGoesOn, MayFail
<1>7. ASSUME NEW s \in Stages, Enqueued(w, s), run[w].pc # "idle", NEW v \in Workers
      PROVE  RunGoesOn(v)
  <2>1. CASE EndRun(w)
    BY <1>4, <2>1
  <2>2. CASE run' = [run EXCEPT ![w].pc = "enqueue", ![w].todo = run[w].todo \ {s}]
    BY <1>1, <1>2, <1>7, <2>2 DEF Run, RunGoesOn, MayFail
  <2> QED
    BY <1>7, <2>1, <2>2 DEF Enqueued
<1> QED
  BY <1>3, <1>4, <1>5, <1>6, <1>7

(* ... and the rows. *)
LEMMA RowsGoOn ==
  ASSUME TypeOK
  PROVE  /\ UNCHANGED job => \A s \in Stages : RowGoesOn(s)
         /\ \A s \in Stages :
              Enqueue(s, doc.gen) => \A t \in Stages : RowGoesOn(t)
         /\ \A s \in Stages : Requeue(s) => \A t \in Stages : RowGoesOn(t)
<1>1. job \in [Stages -> Job]
  BY DEF TypeOK
<1>2. ASSUME NEW s \in Stages, job'[s] = job[s] PROVE RowGoesOn(s)
  BY <1>2 DEF RowGoesOn
<1>3. ASSUME NEW s \in Stages, Enqueue(s, doc.gen), NEW t \in Stages
      PROVE  RowGoesOn(t)
  BY <1>1, <1>2, <1>3 DEF Enqueue, QueuedJob, RowGoesOn
<1>4. ASSUME NEW s \in Stages, Requeue(s), NEW t \in Stages PROVE RowGoesOn(t)
  BY <1>1, <1>2, <1>4 DEF Requeue, QueuedJob, RowGoesOn
<1> QED
  BY <1>2, <1>3, <1>4

LEMMA StepKeepsRows ==
  ASSUME TypeOK, RunsHaveRows, "race" \notin Troubles, [Next]_vars
  PROVE  RunsHaveRows'
<1>1. ASSUME NEW w \in Workers, Start(w) \/ Check(w) PROVE RunsHaveRows'
  <2>1. CASE run' = [run EXCEPT ![w].pc = "check", ![w].seen = Input(run[w].stage)]
             /\ run[w].pc = "start"
    <3>1. \A v \in Workers : RunGoesOn(v)
      BY <2>1 DEF RunGoesOn, RunsHaveRows, NoInserts, MayFail, TypeOK, Run
    <3> QED
      BY <1>1, <3>1, RowsGoOn, GoesOnKeeps DEF Start, Check
  <2>2. CASE ~(run' = [run EXCEPT ![w].pc = "check", ![w].seen = Input(run[w].stage)]
               /\ run[w].pc = "start")
    <3>1. run[w].pc \in {"start", "check"}
          /\ (EndRun(w) \/ \E pc \in {"mark", "write"} : Goto(w, pc))
      BY <1>1, <2>2 DEF Start, Check
    <3>2. \A v \in Workers : RunGoesOn(v)
      BY <3>1, RunsGoOn DEF MayFail
    <3> QED
      BY <1>1, <3>2, RowsGoOn, GoesOnKeeps DEF Start, Check
  <2> QED
    BY <2>1, <2>2
<1>2. ASSUME NEW w \in Workers, StageFails(w) \/ WriteFails(w) PROVE RunsHaveRows'
  <2>1. \A v \in Workers : RunGoesOn(v)
    BY <1>2, RunsGoOn DEF StageFails, WriteFails, MayFail
  <2> QED
    BY <1>2, <2>1, RowsGoOn, GoesOnKeeps DEF StageFails, WriteFails
<1>3. ASSUME NEW w \in Workers, Write(w) PROVE RunsHaveRows'
  <2>1. PICK deleted : AfterWrite(w, deleted)
    BY <1>3 DEF Write
  <2>2. ASSUME NEW v \in Workers PROVE RunGoesOn(v)
    BY <1>3, <2>1 DEF Write, AfterWrite, RunGoesOn, RunsHaveRows, NoInserts, MayFail,
                      TypeOK, Run
  <2>3. doc'.gen = doc.gen
    BY <1>3 DEF Write, TypeOK
  <2> QED
    BY <1>3, <2>2, <2>3, RowsGoOn, GoesOnKeeps DEF Write
<1>4. ASSUME NEW w \in Workers, Advance(w) PROVE RunsHaveRows'
  <2>1. ASSUME NEW v \in Workers PROVE RunGoesOn(v)
    <3>1. CASE EndRun(w)
      BY <3>1, RunsGoOn
    <3>2. CASE run' = [run EXCEPT ![w].pc = "enqueue", ![w].todo = ToEnqueue(doc.gen)]
      BY <1>4, <3>2 DEF Advance, RunGoesOn, RunsHaveRows, NoInserts, MayFail, TypeOK, Run
    <3> QED
      BY <1>4, <3>1, <3>2 DEF Advance
  <2>2. ASSUME NEW s \in Stages PROVE RowGoesOn(s)
    BY <1>4 DEF Advance, SkippedJob, RowGoesOn, TypeOK
  <2>3. doc'.gen = doc.gen
    BY <1>4 DEF Advance, TypeOK
  <2> QED
    BY <2>1, <2>2, <2>3, GoesOnKeeps
<1>5. ASSUME NEW w \in Workers, NEW s \in Stages, EnqueueStage(w, s)
      PROVE  RunsHaveRows'
  <2>1. \A v \in Workers : RunGoesOn(v)
    BY <1>5, RunsGoOn DEF EnqueueStage, NextToEnqueue
  <2>2. \A t \in Stages : RowGoesOn(t)
    BY <1>5, RowsGoOn DEF EnqueueStage
  <2>3. doc'.gen = doc.gen
    BY <1>5 DEF EnqueueStage, StatusEnqueued, TypeOK
  <2> QED
    BY <2>1, <2>2, <2>3, GoesOnKeeps
<1>6. ASSUME NEW w \in Workers, RecordFailure(w) PROVE RunsHaveRows'
  <2>1. \A v \in Workers : RunGoesOn(v)
    BY <1>6, RunsGoOn DEF RecordFailure
  <2>2. ASSUME NEW s \in Stages PROVE RowGoesOn(s)
    BY <1>6 DEF RecordFailure, OwnRow, RowGoesOn, TypeOK, Job
  <2>3. doc'.gen = doc.gen
    BY <1>6 DEF RecordFailure, TypeOK
  <2> QED
    BY <2>1, <2>2, <2>3, GoesOnKeeps
<1>7. ASSUME NEW w \in Workers, Shutdown(w) \/ Crash(w) PROVE RunsHaveRows'
  <2>1. \A v \in Workers : RunGoesOn(v)
    BY <1>7, RunsGoOn DEF Shutdown, Crash
  <2>2. \A s \in Stages : RowGoesOn(s)
    BY <1>7, RowsGoOn DEF Shutdown, Crash, TypeOK, Run
  <2> QED
    BY <1>7, <2>1, <2>2, GoesOnKeeps DEF Shutdown, Crash
<1>8. ASSUME NEW s \in Stages, ReapDead(s) \/ ReapLive(s) PROVE RunsHaveRows'
  <2>1. \A v \in Workers : RunGoesOn(v)
    BY <1>8, RunsGoOn DEF ReapDead, ReapLive
  <2>2. \A t \in Stages : RowGoesOn(t)
    BY <1>8, RowsGoOn DEF ReapDead, ReapLive
  <2> QED
    BY <1>8, <2>1, <2>2, GoesOnKeeps DEF ReapDead, ReapLive
<1>9. CASE Cancel \/ Resummarize
  <2>1. \A v \in Workers : RunGoesOn(v)
    BY <1>9, RunsGoOn DEF Cancel, Resummarize
  <2>2. ASSUME NEW s \in Stages PROVE RowGoesOn(s)
    <3>1. CASE Cancel
      BY <3>1 DEF Cancel, RowGoesOn, TypeOK, Job
    <3>2. CASE Resummarize
      BY <3>2, RowsGoOn DEF Resummarize, Stages
    <3> QED
      BY <1>9, <3>1, <3>2
  <2>3. doc'.gen = doc.gen
    BY <1>9 DEF Cancel, Resummarize, TypeOK
  <2> QED
    BY <2>1, <2>2, <2>3, GoesOnKeeps
<1>10. CASE Reprocess \/ Refresh
  <2>1. \A w \in Workers : run'[w].pc = run[w].pc /\ run'[w].gen = run[w].gen
    BY <1>10 DEF Reprocess, Refresh, TypeOK, Run
  <2> QED
    BY <1>10, <2>1, NewGenerationKeepsRows DEF Reprocess, Refresh
<1>11. CASE UNCHANGED vars
  BY <1>11 DEF vars, RunsHaveRows, NoInserts, RowsKept, ClaimsRun, MayFail
<1>12. ASSUME NEW w \in Workers PROVE ~InsertJob(w)
  BY DEF RunsHaveRows, NoInserts, InsertJob
<1>13. ASSUME NEW w \in Workers, NEW s \in Stages PROVE ~FindMissing(w, s)
  BY DEF FindMissing, Disturb
<1> QED
  BY <1>1, <1>2, <1>3, <1>4, <1>5, <1>6, <1>7, <1>8, <1>9, <1>10, <1>11, <1>12, <1>13,
     ClaimKeepsRows, MarkDoneKeepsRows
  DEF Next, RunStep

(* Only a recorded failure fails the document, and by the invariant it is one of
   a run that holds its claim.                                             *)
LEMMA FailureIsGenuine ==
  ASSUME TypeOK, RunsHaveRows, "race" \notin Troubles, [Next]_vars,
         doc.status # "failed", doc'.status = "failed"
  PROVE  \E w \in Workers :
           /\ run[w].pc = "fail" /\ run[w].gen = doc.gen
           /\ job[run[w].stage].status = "running"
           /\ job[run[w].stage].owner = w
<1>1. PICK w \in Workers : RecordFailure(w)
  <2>1. ASSUME NEW w \in Workers
        PROVE  /\ ~Start(w) /\ ~Check(w) /\ ~Write(w) /\ ~WriteFails(w)
               /\ ~StageFails(w) /\ ~Shutdown(w) /\ ~Crash(w)
    BY DEF Start, Check, Write, WriteFails, StageFails, Shutdown, Crash, TypeOK
  <2>2. ASSUME NEW w \in Workers
        PROVE  ~MarkDone(w) /\ ~Advance(w) /\ ~InsertJob(w)
    BY DEF MarkDone, StatusAfter, Advance, InsertJob, RunsHaveRows, NoInserts, TypeOK
  <2>3. ASSUME NEW w \in Workers, NEW s \in Stages
        PROVE  ~EnqueueStage(w, s) /\ ~Claim(w, s) /\ ~FindMissing(w, s)
    BY DEF EnqueueStage, StatusEnqueued, Claim, FindMissing, TypeOK
  <2>4. ASSUME NEW s \in Stages PROVE ~ReapDead(s) /\ ~ReapLive(s)
    BY DEF ReapDead, ReapLive
  <2>5. ~Cancel /\ ~Reprocess /\ ~Refresh /\ ~Resummarize
    BY DEF Cancel, Reprocess, Refresh, NewGeneration, Resummarize, TypeOK
  <2>6. Next
    BY DEF vars
  <2> QED
    BY <2>1, <2>2, <2>3, <2>4, <2>5, <2>6 DEF Next, RunStep
<1>2. ~KeepsRow(w) /\ run[w].pc = "fail" /\ run[w].gen = doc.gen
  BY <1>1 DEF RecordFailure
<1>3. OwnRow(w)
  BY <1>2 DEF OwnRow, RunsHaveRows, RowsKept
<1>4. job[run[w].stage].owner = w /\ job[run[w].stage].status # "error"
  BY <1>2, <1>3 DEF KeepsRow
<1>5. job[run[w].stage].status = "running"
  BY <1>2, <1>4 DEF RunsHaveRows, ClaimsRun, MayFail
<1> QED
  BY <1>2, <1>4, <1>5

(* Where no two advances race to insert a row, a document fails only by a run
   that failed while it held the claim of its stage at the document's
   generation: neither a superseded, a requeued nor a cancelled run can fail
   it, whatever else happens.                                              *)
THEOREM FailsOnlyByItsClaim ==
  ASSUME "race" \notin Troubles PROVE Spec => NoSpuriousFailure
<1>1. Init => TypeOK /\ RunsHaveRows
  BY InitType, InitHasRows
<1>2. TypeOK /\ RunsHaveRows /\ [Next]_vars => (TypeOK /\ RunsHaveRows)'
  BY StepType, StepKeepsRows
<1>3. TypeOK /\ RunsHaveRows /\ [Next]_vars =>
        [(doc.status # "failed" /\ doc'.status = "failed")
           => \E w \in Workers :
                /\ run[w].pc = "fail" /\ run[w].gen = doc.gen
                /\ job[run[w].stage].status = "running"
                /\ job[run[w].stage].owner = w]_vars
  BY FailureIsGenuine
<1> QED
  BY <1>1, <1>2, <1>3, PTL DEF Spec, NoSpuriousFailure

-----------------------------------------------------------------------------
(* The stages run in turn, and a document that reads ready is whole.

   Without a second generation, of the stages extract, OCR and chunk one is
   passed on at a time: its row is queued once, by the run of the stage before
   it, which is then over.  So none of them writes after it was marked done,
   and what it wrote stands.  The parallel stages may be enqueued again, which
   does no harm: they only add.

   The hypotheses are what the code needs.  A reprocess or a resummarize
   enqueues stages out of turn; two inserts of one row may race; and a run
   that the reaper took for dead may write over what its successor made, if
   the stage's queue has another worker.                                   *)
InTurnTroubles ==
  /\ Troubles \subseteq {"fail", "shutdown", "cancel", "crash", "lapse"}
  /\ "lapse" \in Troubles =>
       \A v, w \in Workers : Serves[v] \cap Serves[w] # {} => v = w

First == {"extract", "ocr", "chunk"}

Settled(s) == job[s].status = "done"
Missing(s) == job[s].status = "absent"

Working(w) == run[w].pc \in {"start", "check", "write", "mark", "fail"}
Advancing(w) == run[w].pc \in {"advance", "enqueue"}

OneGeneration ==
  /\ doc.gen = 1
  /\ \A s \in Stages : ~Missing(s) => job[s].gen = 1
  /\ \A w \in Workers : run[w].pc # "idle" => run[w].gen = 1

(* A row is there only if the stages before it are done. *)
RowsInOrder ==
  /\ ~Missing("ocr") => Settled("extract")
  /\ ~Missing("chunk") => Settled("ocr")
  /\ \A s \in Stages \ First : ~Missing(s) => Settled("chunk")
  /\ ~Missing("finalize") => ents /\ vecs
  /\ ~NeedsOcr => job["ocr"].status \in {"absent", "done"}

(* What a run knows of its row: a first stage is not done before its run has
   marked it, and is done from then on.                                    *)
Holds(w, s) ==
  /\ Working(w) \/ Advancing(w)
  /\ s \in Serves[w]
  /\ ~Missing(s)
  /\ s = "ocr" => NeedsOcr
  /\ s \in First /\ Working(w) =>
       /\ job[s].status # "done"
       /\ job[s].status = "queued" => "lapse" \in Troubles
       /\ job[s].status = "running" => job[s].owner = w
  /\ s \in First /\ Advancing(w) => Settled(s)

RunsHold == \A w \in Workers : run[w].pc # "idle" => Holds(w, run[w].stage)

OneRunEach ==
  \A v, w \in Workers :
    /\ run[v].pc # "idle" /\ run[w].pc # "idle"
    /\ run[v].stage = run[w].stage /\ run[w].stage \in First
    => v = w

(* A run that advances after a first stage is the one to enqueue the next. *)
Passes(w) ==
  LET enqueues == run[w].pc = "enqueue"
      todo == run[w].todo
  IN
  CASE run[w].stage = "extract" ->
         /\ run[w].pc = "advance" => Missing("ocr")
         /\ enqueues /\ NeedsOcr => todo = {"ocr"} /\ Missing("ocr")
         /\ enqueues /\ ~NeedsOcr =>
              todo = {"chunk"} /\ Missing("chunk") /\ Settled("ocr")
    [] run[w].stage = "ocr" ->
         Missing("chunk") /\ (enqueues => todo = {"chunk"})
    [] OTHER ->
         enqueues => /\ todo \cap First = {}
                     /\ "finalize" \in todo => ents /\ vecs

(* What a run loaded is there as it was. *)
Loaded(w) ==
  run[w].pc \in {"check", "write"} =>
    /\ run[w].stage = "extract" => run[w].seen = [gen |-> 1, ocr |-> 0]
    /\ run[w].stage \in {"ocr", "chunk"} => run[w].seen = pages

Made(s) ==
  CASE s = "extract" -> pages.gen = 1
    [] s = "ocr" -> NeedsOcr => pages.ocr > 0
    [] s = "chunk" -> chunks = pages
    [] s = "entities" -> ents
    [] s = "embed" -> vecs
    [] OTHER -> TRUE

(* A run that is about to mark its stage done with a claim it still has. *)
MarksMade(w) ==
  /\ run[w].pc = "mark"
  /\ job[run[w].stage].owner = w
  /\ job[run[w].stage].status # "error"
  => Made(run[w].stage)

SettledIsMade == \A s \in Stages : Settled(s) => Made(s)

ReadyAfterAll == doc.status = "ready" => Settled("chunk") /\ ents /\ vecs

RunsInTurn ==
  \A w \in Workers :
    /\ Advancing(w) => Passes(w)
    /\ Loaded(w)
    /\ MarksMade(w)

InTurn ==
  /\ OneGeneration /\ RowsInOrder /\ RunsHold /\ OneRunEach /\ RunsInTurn
  /\ SettledIsMade /\ ReadyAfterAll

LEMMA InitInTurn == Init => InTurn
<1> SUFFICES ASSUME Init PROVE InTurn
  OBVIOUS
<1>1. /\ job["extract"] = QueuedJob(1)
      /\ \A s \in Stages \ {"extract"} : job[s] = NoJob
      /\ \A w \in Workers : run[w] = Idle
  BY DEF Init, Stages
<1>2. \A s \in Stages : ~Settled(s) /\ (s # "extract" => Missing(s))
  BY <1>1 DEF Settled, Missing, QueuedJob, NoJob
<1>3. OneGeneration /\ RowsInOrder
  BY <1>1, <1>2 DEF Init, OneGeneration, RowsInOrder, QueuedJob, Idle, Stages, First, Missing,
                    NoJob
<1>4. RunsHold /\ OneRunEach /\ RunsInTurn
  BY <1>1 DEF RunsHold, OneRunEach, RunsInTurn, Idle, Advancing, Loaded, MarksMade
<1>5. SettledIsMade /\ ReadyAfterAll
  BY <1>2 DEF SettledIsMade, ReadyAfterAll, Init
<1> QED
  BY <1>3, <1>4, <1>5 DEF InTurn

(* Facts of types that every step below needs. *)
LEMMA Typed ==
  ASSUME TypeOK
  PROVE  /\ \A w \in Workers : run[w] \in Run /\ run[w].stage \in Stages
         /\ \A s \in Stages : job[s] \in Job /\ job[s].owner # NoWorker => job[s].owner \in Workers
         /\ DOMAIN run = Workers /\ DOMAIN job = Stages
         /\ pages \in Pages /\ chunks \in Pages
BY DEF TypeOK, Run, Job

(* The first stages are done one after the other: once a later row is there,
   those before it are done.                                               *)
LEMMA DoneBefore ==
  ASSUME RowsInOrder
  PROVE  /\ Settled("ocr") => Settled("extract")
         /\ Settled("chunk") => Settled("ocr") /\ Settled("extract")
         /\ ~Settled("extract") => \A s \in Stages \ {"extract"} : Missing(s)
         /\ ~Settled("ocr") => \A s \in Stages \ {"extract", "ocr"} : Missing(s)
         /\ ~Settled("chunk") => \A s \in Stages \ First : Missing(s)
BY DEF RowsInOrder, Settled, Missing, First, Stages

(* A step of a run's own that writes no row and no data. *)
SameRun(w) ==
  /\ run'[w].pc = run[w].pc /\ run'[w].stage = run[w].stage
  /\ run'[w].gen = run[w].gen /\ run'[w].seen = run[w].seen
  /\ run'[w].todo = run[w].todo

Ends(w) == run'[w].pc = "idle"

WorksOn(w) ==
  /\ Working(w) /\ Working(w)'
  /\ run'[w].stage = run[w].stage /\ run'[w].gen = run[w].gen
  /\ Loaded(w)' /\ MarksMade(w)'

LEMMA RunsGoOnInTurn ==
  ASSUME TypeOK, InTurn, doc' = doc, job' = job, UNCHANGED data,
         \A w \in Workers : Ends(w) \/ SameRun(w) \/ WorksOn(w)
  PROVE  InTurn'
<1>1. /\ pages' = pages /\ chunks' = chunks /\ vecs' = vecs /\ ents' = ents
  BY DEF data
<1>2. \A s : (Settled(s)' <=> Settled(s)) /\ (Missing(s)' <=> Missing(s)) /\ (Made(s)' <=> Made(s))
  BY <1>1 DEF Settled, Missing, Made
<1>3. \A w \in Workers :
        ~Ends(w) => /\ run[w].pc # "idle" <=> run'[w].pc # "idle"
                    /\ run'[w].stage = run[w].stage /\ run'[w].gen = run[w].gen
                    /\ Working(w)' <=> Working(w)
                    /\ Advancing(w)' <=> Advancing(w)
  BY DEF SameRun, WorksOn, Working, Advancing, Ends
<1>4. OneGeneration'
  BY <1>2, <1>3 DEF InTurn, OneGeneration, Ends
<1>5. RowsInOrder'
  BY <1>1, <1>2 DEF InTurn, RowsInOrder
<1>6. RunsHold'
  <2>1. ASSUME NEW w \in Workers, run'[w].pc # "idle" PROVE Holds(w, run[w].stage)'
    BY <1>2, <1>3, <2>1 DEF InTurn, RunsHold, Holds, Ends
  <2> QED
    BY <1>3, <2>1 DEF RunsHold, Ends
<1>7. OneRunEach'
  BY <1>3 DEF InTurn, OneRunEach, Ends
<1>8. RunsInTurn'
  <2>1. ASSUME NEW w \in Workers
        PROVE (Advancing(w) => Passes(w))' /\ Loaded(w)' /\ MarksMade(w)'
    <3>1. CASE Ends(w)
      BY <3>1 DEF Ends, Advancing, Loaded, MarksMade
    <3>2. CASE WorksOn(w)
      BY <3>2 DEF WorksOn, Working, Advancing
    <3>3. CASE SameRun(w)
      <4>1. (Advancing(w) => Passes(w))'
        BY <1>1, <1>2, <3>3 DEF InTurn, RunsInTurn, SameRun, Advancing, Passes
      <4>2. Loaded(w)' /\ MarksMade(w)'
        BY <1>1, <1>2, <3>3 DEF InTurn, RunsInTurn, SameRun, Loaded, MarksMade
      <4> QED
        BY <4>1, <4>2
    <3> QED
      BY <3>1, <3>2, <3>3
  <2> QED
    BY <2>1 DEF RunsInTurn
<1>9. SettledIsMade' /\ ReadyAfterAll'
  BY <1>1, <1>2 DEF InTurn, SettledIsMade, ReadyAfterAll
<1> QED
  BY <1>4, <1>5, <1>6, <1>7, <1>8, <1>9 DEF InTurn

(* A step that gives a row back or ends it in error, or leaves it alone. *)
RowFalls(s) ==
  \/ job'[s] = job[s]
  \/ /\ job'[s].gen = job[s].gen
     /\ ~Missing(s)
     /\ s \in First => ~Settled(s)
     /\ \/ job'[s].status = "error"
        \/ /\ job'[s].status = "queued" /\ job'[s].owner = NoWorker
           /\ job[s].status = "running"
           /\ s \in First /\ "lapse" \notin Troubles =>
                \A w \in Workers : ~(Working(w)' /\ run'[w].stage = s)

LEMMA RowsFallInTurn ==
  ASSUME TypeOK, InTurn, UNCHANGED data, doc'.gen = doc.gen,
         doc'.status = "ready" => doc.status = "ready",
         \A w \in Workers : Ends(w) \/ SameRun(w),
         \A s \in Stages : RowFalls(s)
  PROVE  InTurn'
<1>1. /\ pages' = pages /\ chunks' = chunks /\ vecs' = vecs /\ ents' = ents
  BY DEF data
<1>2. /\ \A s \in Stages : (Settled(s)' => Settled(s)) /\ (Missing(s)' <=> Missing(s))
      /\ \A s : Made(s)' <=> Made(s)
      /\ \A s \in Stages : s \in First => (Settled(s)' <=> Settled(s))
  BY <1>1 DEF RowFalls, Settled, Missing, Made
<1>3. First \subseteq Stages /\ "finalize" \in Stages
  BY DEF First, Stages
<1>4. \A w \in Workers : ~Ends(w) => SameRun(w)
  OBVIOUS
<1>5. \A w \in Workers : run[w].stage \in Stages
  BY Typed
<1>6. OneGeneration'
  BY <1>2, <1>4 DEF InTurn, OneGeneration, Ends, SameRun, RowFalls, Missing
<1>7. RowsInOrder'
  <2>1. ~NeedsOcr => job'["ocr"].status \in {"absent", "done"}
    BY <1>3 DEF InTurn, RowsInOrder, RowFalls, First, Missing, Settled
  <2> QED
    BY <1>1, <1>2, <1>3, <2>1 DEF InTurn, RowsInOrder, First
<1>8. RunsHold'
  <2>1. ASSUME NEW w \in Workers, NEW s \in Stages, s = run[w].stage,
               run'[w].pc # "idle"
        PROVE  Holds(w, s)' /\ run'[w].stage = s
    <3>1. Holds(w, s) /\ SameRun(w)
      BY <1>4, <2>1 DEF InTurn, RunsHold, SameRun, Ends
    <3>2. (Working(w)' <=> Working(w)) /\ (Advancing(w)' <=> Advancing(w))
      BY <3>1 DEF Working, Advancing, SameRun
    <3>3. Working(w)' /\ s \in First =>
            /\ job'[s].status # "done"
            /\ job'[s].status = "queued" => "lapse" \in Troubles
            /\ job'[s].status = "running" => job'[s].owner = w
      <4>1. CASE job'[s] = job[s]
        BY <3>1, <3>2, <4>1 DEF Holds
      <4>2. CASE job'[s] # job[s]
        BY <2>1, <3>1, <4>2 DEF RowFalls, SameRun
      <4> QED
        BY <4>1, <4>2
    <3> QED
      BY <1>2, <2>1, <3>1, <3>2, <3>3 DEF Holds, SameRun
  <2> QED
    BY <1>4, <1>5, <2>1 DEF RunsHold, SameRun, Ends
<1>9. OneRunEach'
  BY <1>4 DEF InTurn, OneRunEach, SameRun, Ends
<1>10. RunsInTurn'
  <2>1. ASSUME NEW w \in Workers
        PROVE (Advancing(w) => Passes(w))' /\ Loaded(w)' /\ MarksMade(w)'
    <3>1. CASE Ends(w)
      BY <3>1 DEF Ends, Advancing, Loaded, MarksMade
    <3>2. CASE SameRun(w)
      <4>1. (Advancing(w) => Passes(w))'
        BY <1>1, <1>2, <1>3, <3>2 DEF InTurn, RunsInTurn, SameRun, Advancing, Passes, First
      <4>2. Loaded(w)'
        BY <1>1, <3>2 DEF InTurn, RunsInTurn, SameRun, Loaded
      <4>3. MarksMade(w)'
        <5>1. SUFFICES ASSUME NEW s \in Stages, s = run[w].stage, run[w].pc = "mark",
                              job'[s].owner = w, job'[s].status # "error"
                       PROVE  Made(s)
          BY <1>2, <1>5, <3>2 DEF SameRun, MarksMade
        <5>2. NoWorker # w
          BY PipelineAssumption
        <5>3. job'[s] = job[s]
          BY <5>1, <5>2 DEF RowFalls
        <5> QED
          BY <5>1, <5>3 DEF InTurn, RunsInTurn, MarksMade
      <4> QED
        BY <4>1, <4>2, <4>3
    <3> QED
      BY <3>1, <3>2
  <2> QED
    BY <2>1 DEF RunsInTurn
<1>11. SettledIsMade' /\ ReadyAfterAll'
  BY <1>1, <1>2, <1>3 DEF InTurn, SettledIsMade, ReadyAfterAll, First
<1> QED
  BY <1>6, <1>7, <1>8, <1>9, <1>10, <1>11 DEF InTurn

(* What a run that is under way has: its row, of its generation, and what the
   stages before its own made.                                             *)
LEMMA UnderWay ==
  ASSUME TypeOK, InTurn, NEW w \in Workers, run[w].pc # "idle",
         NEW s \in Stages, s = run[w].stage
  PROVE  /\ doc.gen = 1 /\ run[w].gen = 1 /\ job[s].gen = 1
         /\ Holds(w, s)
         /\ s \in {"ocr", "chunk"} => Settled("extract") /\ pages.gen = 1
         /\ s = "chunk" => Settled("ocr")
         /\ s \notin First => Settled("chunk") /\ chunks = pages /\ pages.gen = 1
         /\ s = "finalize" => ents /\ vecs
<1>1. Holds(w, s) /\ ~Missing(s)
  BY DEF InTurn, RunsHold, Holds
<1>2. doc.gen = 1 /\ run[w].gen = 1 /\ job[s].gen = 1
  BY <1>1 DEF InTurn, OneGeneration
<1>3. {"extract", "ocr", "chunk"} \subseteq Stages
  BY DEF Stages
<1>4. Settled("extract") => pages.gen = 1
  BY <1>3 DEF InTurn, SettledIsMade, Made
<1>5. Settled("chunk") => chunks = pages
  BY <1>3 DEF InTurn, SettledIsMade, Made
<1>6. RowsInOrder
  BY DEF InTurn
<1>7. /\ s \in {"ocr", "chunk"} => Settled("extract")
      /\ s = "chunk" => Settled("ocr")
      /\ s \notin First => Settled("chunk") /\ Settled("extract")
      /\ s = "finalize" => ents /\ vecs
  BY <1>1, <1>6, DoneBefore DEF RowsInOrder, First
<1> QED
  BY <1>1, <1>2, <1>4, <1>5, <1>7

LEMMA ClaimInTurn ==
  ASSUME TypeOK, InTurn, InTurnTroubles, NEW w \in Workers, NEW s \in Stages, Claim(w, s)
  PROVE  InTurn'
<1>1. /\ pages' = pages /\ chunks' = chunks /\ vecs' = vecs /\ ents' = ents /\ doc' = doc
  BY DEF Claim, data
<1>2. /\ job[s].status = "queued" /\ job'[s].status = "running" /\ job'[s].owner = w
      /\ job'[s].gen = job[s].gen
      /\ \A t \in Stages \ {s} : job'[t] = job[t]
  BY DEF Claim, TypeOK, Job
<1>3. /\ run[w].pc = "idle" /\ run'[w].pc = "start" /\ run'[w].stage = s
      /\ run'[w].gen = doc.gen /\ s \in Serves[w]
      /\ \A v \in Workers \ {w} : run'[v] = run[v]
  BY DEF Claim, Idle, TypeOK
<1>4. /\ \A t \in Stages : (Settled(t)' <=> Settled(t)) /\ (Missing(t)' <=> Missing(t))
      /\ \A t : Made(t)' <=> Made(t)
  BY <1>1, <1>2 DEF Settled, Missing, Made
<1>5. First \subseteq Stages /\ "finalize" \in Stages /\ \A v \in Workers : run[v].stage \in Stages
  BY Typed DEF First, Stages
<1>6. OneGeneration'
  BY <1>1, <1>2, <1>3, <1>4 DEF InTurn, OneGeneration
<1>7. RowsInOrder'
  <2>1. ~NeedsOcr => job'["ocr"].status \in {"absent", "done"}
    BY <1>2, <1>5 DEF InTurn, RowsInOrder, First
  <2> QED
    BY <1>1, <1>4, <1>5, <2>1 DEF InTurn, RowsInOrder, First
<1>8. ASSUME NEW v \in Workers, v # w, run[v].pc # "idle", run[v].stage = s, s \in First
      PROVE  FALSE
  <2>1. Holds(v, s)
    BY <1>8, UnderWay
  <2>2. ~Advancing(v)
    BY <1>2, <1>8, <2>1 DEF Holds, Settled
  <2>3. Working(v)
    BY <2>1, <2>2 DEF Holds
  <2>4. "lapse" \in Troubles /\ s \in Serves[v]
    BY <1>2, <1>8, <2>1, <2>3 DEF Holds
  <2> QED
    BY <1>3, <1>8, <2>4 DEF InTurnTroubles
<1>9. RunsHold'
  <2>1. ASSUME NEW v \in Workers, NEW t \in Stages, t = run'[v].stage, run'[v].pc # "idle"
        PROVE  Holds(v, t)'
    <3>1. CASE v = w
      <4>1. t = s /\ Working(w)' /\ ~Advancing(w)'
        BY <1>3, <2>1, <3>1 DEF Working, Advancing
      <4>2. s = "ocr" => NeedsOcr
        BY <1>2 DEF InTurn, RowsInOrder
      <4> QED
        BY <1>2, <1>3, <3>1, <4>1, <4>2 DEF Holds, Missing
    <3>2. CASE v # w
      <4>1. run'[v] = run[v] /\ Holds(v, t)
        BY <1>3, <2>1, <3>2 DEF InTurn, RunsHold
      <4>2. CASE t \in First
        <5>1. job'[t] = job[t]
          BY <1>2, <1>8, <2>1, <3>2, <4>1, <4>2
        <5> QED
          BY <4>1, <5>1 DEF Holds, Working, Advancing, Missing, Settled
      <4>3. CASE t \notin First
        BY <1>4, <4>1, <4>3 DEF Holds, Working, Advancing
      <4> QED
        BY <4>2, <4>3
    <3> QED
      BY <3>1, <3>2
  <2>2. \A v \in Workers : run'[v].stage \in Stages
    BY <1>3, <1>5
  <2> QED
    BY <2>1, <2>2 DEF RunsHold
<1>10. OneRunEach'
  <2>1. ASSUME NEW v \in Workers, v # w PROVE run'[v].pc # "idle" /\ run'[v].stage = s => s \notin First
    BY <1>3, <1>8, <2>1
  <2> QED
    BY <1>3, <2>1 DEF InTurn, OneRunEach
<1>11. RunsInTurn'
  <2>1. ASSUME NEW v \in Workers
        PROVE (Advancing(v) => Passes(v))' /\ Loaded(v)' /\ MarksMade(v)'
    <3>1. CASE v = w
      BY <1>3, <3>1 DEF Advancing, Loaded, MarksMade
    <3>2. CASE v # w
      <4>1. run'[v] = run[v]
        BY <1>3, <3>2
      <4>2. (Advancing(v) => Passes(v))'
        BY <1>1, <1>4, <1>5, <4>1 DEF InTurn, RunsInTurn, Advancing, Passes, First
      <4>3. Loaded(v)'
        BY <1>1, <4>1 DEF InTurn, RunsInTurn, Loaded
      <4>4. MarksMade(v)'
        <5>1. SUFFICES ASSUME NEW t \in Stages, t = run[v].stage, run[v].pc = "mark",
                              job'[t].owner = v, job'[t].status # "error"
                       PROVE  Made(t)
          BY <1>4, <1>5, <4>1 DEF MarksMade
        <5>2. job'[t] = job[t]
          BY <1>2, <3>2, <5>1
        <5> QED
          BY <5>1, <5>2 DEF InTurn, RunsInTurn, MarksMade
      <4> QED
        BY <4>2, <4>3, <4>4
    <3> QED
      BY <3>1, <3>2
  <2> QED
    BY <2>1 DEF RunsInTurn
<1>12. SettledIsMade' /\ ReadyAfterAll'
  BY <1>1, <1>4, <1>5 DEF InTurn, SettledIsMade, ReadyAfterAll, First
<1> QED
  BY <1>6, <1>7, <1>9, <1>10, <1>11, <1>12 DEF InTurn

(* A stage that finds nothing to do has its product already. *)
LEMMA NothingToMake ==
  ASSUME TypeOK, InTurn, NEW w \in Workers, run[w].pc # "idle",
         NEW s \in Stages, s = run[w].stage, NothingToDo(s)
  PROVE  Made(s)
<1>1. /\ doc.gen = 1
      /\ s \in {"ocr", "chunk"} => pages.gen = 1
      /\ s \notin First => chunks.gen = 1
  BY UnderWay
<1>2. s # "finalize" => Input(s) # NoPages
  BY <1>1 DEF Input, FromFile, NoPages, First, Stages
<1> QED
  BY <1>2 DEF NothingToDo, Made

LEMMA InputIsThere ==
  ASSUME TypeOK, InTurn, NEW w \in Workers, run[w].pc # "idle",
         NEW s \in Stages, s = run[w].stage
  PROVE  /\ s = "extract" => Input(s) = [gen |-> 1, ocr |-> 0]
         /\ s \in {"ocr", "chunk"} => Input(s) = pages
<1>1. doc.gen = 1 /\ (s = "ocr" => pages.gen = 1)
  BY UnderWay
<1> QED
  BY <1>1 DEF Input, FromFile, NoPages

(* The steps that write nothing but the run. *)
LEMMA RunStepInTurn ==
  ASSUME TypeOK, InTurn, NEW w \in Workers,
         Start(w) \/ Check(w) \/ StageFails(w) \/ WriteFails(w) \/ Crash(w)
  PROVE  InTurn'
<1> DEFINE s == run[w].stage
<1>1. doc' = doc /\ job' = job /\ UNCHANGED data
  BY DEF Start, Check, StageFails, WriteFails, Crash
<1>2. /\ pages' = pages /\ chunks' = chunks /\ vecs' = vecs /\ ents' = ents
  BY <1>1 DEF data
<1>3. /\ run \in [Workers -> Run] /\ s \in Stages /\ run[w].pc # "idle"
  BY Typed DEF TypeOK, Start, Check, StageFails, WriteFails, Crash
<1>4. ASSUME EndRun(w) PROVE Ends(w) /\ \A v \in Workers \ {w} : SameRun(v)
  BY <1>3, <1>4 DEF EndRun, Idle, Ends, SameRun
<1>5. ASSUME NEW pc \in {"write", "mark", "fail"}, Goto(w, pc)
      PROVE  /\ run'[w].pc = pc /\ run'[w].stage = s /\ run'[w].gen = run[w].gen
             /\ run'[w].seen = run[w].seen
             /\ \A v \in Workers \ {w} : SameRun(v)
  BY <1>3, <1>5 DEF Goto, SameRun, Run
<1>6. ASSUME MarksMade(w)', Working(w), Goto(w, "mark") PROVE WorksOn(w)
  BY <1>5, <1>6 DEF WorksOn, Working, Loaded
<1>7. CASE Start(w)
  <2>1. Working(w)
    BY <1>7 DEF Start, Working
  <2>2. CASE EndRun(w)
    BY <1>1, <1>4, <2>2, RunsGoOnInTurn
  <2>3. CASE NothingToDo(s) /\ Goto(w, "mark")
    <3>1. Made(s)
      BY <1>3, <2>3, NothingToMake
    <3>2. Made(run[w].stage)'
      BY <1>2, <1>5, <2>3, <3>1 DEF Made
    <3>3. WorksOn(w)
      BY <1>6, <2>1, <2>3, <3>2 DEF MarksMade
    <3> QED
      BY <1>1, <1>5, <2>3, <3>3, RunsGoOnInTurn
  <2>4. CASE run' = [run EXCEPT ![w].pc = "check", ![w].seen = Input(s)]
    <3>1. /\ run'[w].pc = "check" /\ run'[w].stage = s /\ run'[w].gen = run[w].gen
          /\ run'[w].seen = Input(s)
          /\ \A v \in Workers \ {w} : SameRun(v)
      BY <1>3, <2>4 DEF SameRun, Run
    <3>2. Loaded(w)'
      BY <1>2, <1>3, <3>1, InputIsThere DEF Loaded
    <3>3. WorksOn(w)
      BY <2>1, <3>1, <3>2 DEF WorksOn, Working, MarksMade
    <3> QED
      BY <1>1, <3>1, <3>3, RunsGoOnInTurn
  <2> QED
    BY <1>7, <2>2, <2>3, <2>4 DEF Start
<1>8. CASE Check(w)
  <2>1. Working(w) /\ run[w].pc = "check"
    BY <1>8 DEF Check, Working
  <2>2. CASE Goto(w, "write")
    <3>1. Loaded(w)
      BY DEF InTurn, RunsInTurn
    <3>2. WorksOn(w)
      BY <1>2, <1>5, <2>1, <2>2, <3>1 DEF WorksOn, Working, MarksMade, Loaded
    <3> QED
      BY <1>1, <1>5, <2>2, <3>2, RunsGoOnInTurn
  <2>3. CASE Goto(w, "mark") /\ ~RunIsCurrent(w)
    <3>1. doc.gen = run[w].gen /\ job[s].gen = run[w].gen /\ ~Missing(s)
      BY <1>3, UnderWay DEF Holds
    <3>2. job[s].status = "error" \/ job[s].owner # w
      BY <2>3, <3>1 DEF RunIsCurrent, Wanted, Missing
    <3>3. WorksOn(w)
      BY <1>1, <1>5, <1>6, <2>1, <2>3, <3>2 DEF MarksMade
    <3> QED
      BY <1>1, <1>5, <2>3, <3>3, RunsGoOnInTurn
  <2> QED
    BY <1>8, <2>2, <2>3 DEF Check
<1>9. CASE StageFails(w) \/ WriteFails(w)
  <2>1. Working(w) /\ Goto(w, "fail")
    BY <1>9 DEF StageFails, WriteFails, Working
  <2>2. WorksOn(w)
    BY <1>5, <2>1 DEF WorksOn, Working, MarksMade, Loaded
  <2> QED
    BY <1>1, <1>5, <2>1, <2>2, RunsGoOnInTurn
<1>10. CASE Crash(w)
  BY <1>1, <1>4, <1>10, RunsGoOnInTurn DEF Crash
<1> QED
  BY <1>7, <1>8, <1>9, <1>10

(* The steps that give a row back or end it in error. *)
LEMMA RowStepInTurn ==
  ASSUME TypeOK, InTurn,
         \/ \E w \in Workers : RecordFailure(w) \/ Shutdown(w)
         \/ \E s \in Stages : ReapDead(s) \/ ReapLive(s)
         \/ Cancel
  PROVE  InTurn'
<1>1. /\ run \in [Workers -> Run] /\ job \in [Stages -> Job]
      /\ \A w \in Workers : run[w].stage \in Stages
  BY Typed DEF TypeOK
<1>2. ASSUME NEW w \in Workers, EndRun(w)
      PROVE  Ends(w) /\ \A v \in Workers \ {w} : SameRun(v)
  BY <1>1, <1>2 DEF EndRun, Idle, Ends, SameRun
<1>3. ASSUME NEW s \in Stages, ~Missing(s), s \in First => ~Settled(s),
             job' = [job EXCEPT ![s].status = "error"]
      PROVE  \A t \in Stages : RowFalls(t)
  BY <1>1, <1>3 DEF RowFalls, Job
<1>4. ASSUME NEW s \in Stages, job[s].status = "running", Requeue(s),
             s \in First /\ "lapse" \notin Troubles =>
               \A w \in Workers : ~(Working(w)' /\ run'[w].stage = s)
      PROVE  \A t \in Stages : RowFalls(t)
  BY <1>1, <1>4 DEF RowFalls, Requeue, QueuedJob, Missing, Settled
<1>5. UNCHANGED job => \A t \in Stages : RowFalls(t)
  BY DEF RowFalls
<1>6. ASSUME NEW w \in Workers, RecordFailure(w) PROVE InTurn'
  <2>1. PICK s \in Stages : s = run[w].stage
    BY <1>1
  <2>2. Holds(w, s) /\ Working(w)
    BY <1>6, <2>1, UnderWay DEF RecordFailure, Working
  <2>3. \A t \in Stages : RowFalls(t)
    <3>1. CASE UNCHANGED job
      BY <1>5, <3>1
    <3>2. CASE job' = [job EXCEPT ![s].status = "error"]
      BY <1>3, <2>2, <3>2 DEF Holds, Settled
    <3> QED
      BY <1>6, <2>1, <3>1, <3>2 DEF RecordFailure
  <2>4. UNCHANGED data /\ doc'.gen = doc.gen /\ (doc'.status = "ready" => doc.status = "ready")
    BY <1>6 DEF RecordFailure, TypeOK
  <2> QED
    BY <1>2, <1>6, <2>3, <2>4, RowsFallInTurn DEF RecordFailure
<1>7. ASSUME NEW w \in Workers, Shutdown(w) PROVE InTurn'
  <2>1. PICK s \in Stages : s = run[w].stage
    BY <1>1
  <2>2. Ends(w) /\ (\A v \in Workers \ {w} : SameRun(v)) /\ run[w].pc # "idle"
    BY <1>2, <1>7 DEF Shutdown
  <2>3. \A t \in Stages : RowFalls(t)
    <3>1. CASE UNCHANGED job
      BY <1>5, <3>1
    <3>2. CASE Requeue(s) /\ job[s].status = "running"
      <4>1. ASSUME s \in First, NEW v \in Workers, Working(v)', run'[v].stage = s PROVE FALSE
        <5>1. v # w /\ SameRun(v) /\ run[v].pc # "idle"
          BY <2>2, <4>1 DEF Ends, Working, SameRun
        <5> QED
          BY <2>1, <2>2, <4>1, <5>1 DEF InTurn, OneRunEach, SameRun
      <4> QED
        BY <1>4, <3>2, <4>1
    <3> QED
      BY <1>7, <2>1, <3>1, <3>2 DEF Shutdown
  <2>4. UNCHANGED data /\ doc' = doc
    BY <1>7 DEF Shutdown
  <2> QED
    BY <2>2, <2>3, <2>4, RowsFallInTurn
<1>8. ASSUME NEW s \in Stages, ReapDead(s) \/ ReapLive(s) PROVE InTurn'
  <2>1. /\ job[s].status = "running" /\ job[s].gen = doc.gen
        /\ Requeue(s) /\ UNCHANGED data /\ doc' = doc /\ run' = run
    BY <1>8 DEF ReapDead, ReapLive, Orphaned
  <2>2. ASSUME s \in First, "lapse" \notin Troubles, NEW w \in Workers,
               Working(w)', run'[w].stage = s
        PROVE  FALSE
    <3>1. Working(w) /\ run[w].stage = s /\ run[w].pc # "idle"
      BY <2>1, <2>2 DEF Working
    <3>2. run[w].gen = doc.gen /\ Holds(w, s)
      BY <3>1, UnderWay
    <3>3. job[s].owner = w
      BY <2>1, <2>2, <3>1, <3>2 DEF Holds
    <3>4. ~Abandoned(s)
      BY <2>1, <3>1, <3>2, <3>3 DEF Abandoned
    <3> QED
      BY <1>8, <2>2, <3>4 DEF ReapDead, ReapLive, Disturb
  <2>3. \A t \in Stages : RowFalls(t)
    BY <1>4, <2>1, <2>2
  <2>4. \A w \in Workers : SameRun(w)
    BY <2>1 DEF SameRun
  <2> QED
    BY <2>1, <2>3, <2>4, RowsFallInTurn
<1>9. CASE Cancel
  <2>1. \A s \in Stages : RowFalls(s)
    BY <1>1, <1>9 DEF Cancel, RowFalls, Job, Missing, Settled
  <2>2. UNCHANGED data /\ doc'.gen = doc.gen /\ (doc'.status = "ready" => doc.status = "ready")
    BY <1>9 DEF Cancel, TypeOK
  <2>3. \A w \in Workers : SameRun(w)
    BY <1>9 DEF Cancel, SameRun
  <2> QED
    BY <2>1, <2>2, <2>3, RowsFallInTurn
<1> QED
  BY <1>6, <1>7, <1>8, <1>9

(* What a first stage writes is written while no later row is there, so nothing
   made from it is lost; what the others write only adds.                  *)
LEMMA WriteInTurn ==
  ASSUME TypeOK, InTurn, NEW w \in Workers, Write(w)
  PROVE  InTurn'
<1>1. PICK s \in Stages : s = run[w].stage
  BY Typed
<1>2. /\ run \in [Workers -> Run] /\ job \in [Stages -> Job]
      /\ \A v \in Workers : run[v].stage \in Stages
      /\ pages \in Pages /\ chunks \in Pages
  BY Typed DEF TypeOK
<1>3. PICK deleted : AfterWrite(w, deleted)
  BY DEF Write
<1>4. /\ run[w].pc = "write" /\ run'[w].pc = "mark" /\ run'[w].stage = s
      /\ run'[w].gen = run[w].gen
  <2>1. run[w] \in Run /\ run[w].pc = "write"
    BY <1>2 DEF Write
  <2>2. run'[w] = [run[w] EXCEPT !.pc = "mark", !.seen = NoPages]
    BY <1>3 DEF AfterWrite
  <2> QED
    BY <1>1, <2>1, <2>2 DEF Run
<1>5. ASSUME NEW v \in Workers \ {w} PROVE SameRun(v)
  BY <1>2, <1>3, <1>5 DEF AfterWrite, SameRun, Run
<1>6. /\ Holds(w, s) /\ Working(w) /\ ~Advancing(w) /\ doc.gen = 1
      /\ s \in First => ~Settled(s)
      /\ s \in {"ocr", "chunk"} => Settled("extract") /\ pages.gen = 1
      /\ s = "chunk" => Settled("ocr")
      /\ s \notin First => Settled("chunk")
      /\ s = "finalize" => ents /\ vecs
  BY <1>1, <1>4, UnderWay DEF Holds, Working, Advancing, Settled
<1>7. job' = job /\ doc'.gen = doc.gen
  BY DEF Write, TypeOK
<1>8. \A t : (Settled(t)' <=> Settled(t)) /\ (Missing(t)' <=> Missing(t))
  BY <1>7 DEF Settled, Missing
<1>9. /\ s = "extract" => \A t \in Stages \ {"extract"} : Missing(t)
      /\ s = "ocr" => \A t \in Stages \ {"extract", "ocr"} : Missing(t)
      /\ s = "chunk" => \A t \in Stages \ First : Missing(t)
  BY <1>6, DoneBefore DEF InTurn, First
<1>10. ASSUME NEW v \in Workers, v # w, run[v].pc # "idle"
       PROVE  ~Missing(run[v].stage) /\ (s \in First => run[v].stage # s)
  BY <1>1, <1>4, <1>10, UnderWay, <1>2 DEF Holds, InTurn, OneRunEach
<1>11. (* what changes *)
       /\ s \in {"extract", "ocr"} =>
            chunks' = chunks /\ vecs' = vecs /\ ents' = ents /\ doc' = doc
       /\ s = "extract" => pages' = [gen |-> 1, ocr |-> 0]
       /\ s = "ocr" => pages'.gen = pages.gen /\ pages'.ocr > 0
       /\ s = "chunk" => pages' = pages /\ chunks' = pages /\ doc' = doc
       /\ s \notin First => /\ pages' = pages /\ chunks' = chunks
                            /\ vecs => vecs'
                            /\ ents => ents'
       /\ s = "entities" => ents'
       /\ s = "embed" => vecs'
       /\ doc'.status = "ready" => doc.status = "ready" \/ s = "finalize"
  <2>1. Loaded(w)
    BY DEF InTurn, RunsInTurn
  <2>2. /\ s = "extract" => run[w].seen = [gen |-> 1, ocr |-> 0]
        /\ s \in {"ocr", "chunk"} => run[w].seen = pages
    BY <1>1, <1>4, <2>1 DEF Loaded
  <2>3. s = "ocr" => pages'.gen = pages.gen /\ pages'.ocr > 0
    BY <1>1, <1>2, <2>2 DEF Write, Pages
  <2> QED
    BY <1>1, <2>2, <2>3 DEF Write, data, First
<1>12. OneGeneration'
  BY <1>4, <1>5, <1>7, <1>8 DEF InTurn, OneGeneration, SameRun
<1>13. RowsInOrder'
  <2>1. ~Missing("finalize") => ents' /\ vecs'
    <3>1. SUFFICES ASSUME ~Missing("finalize") PROVE ents' /\ vecs'
      OBVIOUS
    <3>2. ents /\ vecs
      BY <3>1 DEF InTurn, RowsInOrder
    <3>3. s # "chunk"
      BY <1>9, <3>1 DEF First, Stages
    <3> QED
      BY <1>11, <3>2, <3>3 DEF First
  <2> QED
    BY <1>7, <1>8, <2>1 DEF InTurn, RowsInOrder
<1>14. RunsHold'
  <2>1. ASSUME NEW v \in Workers, NEW t \in Stages, t = run[v].stage, run'[v].pc # "idle"
        PROVE  Holds(v, t)' /\ run'[v].stage = t
    <3>1. /\ run'[v].stage = t /\ (Working(v)' <=> Working(v)) /\ (Advancing(v)' <=> Advancing(v))
          /\ run[v].pc # "idle"
      BY <1>1, <1>4, <1>5, <2>1 DEF SameRun, Working, Advancing
    <3>2. Holds(v, t)
      BY <2>1, <3>1, UnderWay
    <3> QED
      BY <1>7, <1>8, <3>1, <3>2 DEF Holds
  <2> QED
    BY <1>2, <2>1 DEF RunsHold
<1>15. OneRunEach'
  BY <1>1, <1>4, <1>5 DEF InTurn, OneRunEach, SameRun
<1>16. ASSUME NEW v \in Workers PROVE (Advancing(v) => Passes(v))'
  <2>1. CASE v = w
    BY <1>4, <2>1 DEF Advancing
  <2>2. CASE v # w
    <3>1. SUFFICES ASSUME Advancing(v) PROVE Passes(v)'
      BY <1>5, <2>2 DEF SameRun, Advancing
    <3>2. Passes(v) /\ SameRun(v) /\ run[v].pc # "idle"
      BY <1>5, <2>2, <3>1 DEF InTurn, RunsInTurn, Advancing
    <3>3. run[v].stage \notin {"extract", "ocr"} /\ ents /\ vecs => ents' /\ vecs'
      <4>1. CASE s = "chunk"
        <5>1. PICK t \in Stages : t = run[v].stage
          BY <1>2
        <5>2. ~Missing(t) /\ t # "chunk"
          BY <1>10, <2>2, <3>2, <4>1, <5>1 DEF First
        <5>3. t \in {"extract", "ocr"}
          BY <1>9, <4>1, <5>2 DEF First
        <5> QED
          BY <5>1, <5>3
      <4>2. CASE s # "chunk"
        BY <1>11, <4>2 DEF First
      <4> QED
        BY <4>1, <4>2
    <3> QED
      BY <1>8, <3>2, <3>3 DEF Passes, SameRun
  <2> QED
    BY <2>1, <2>2
<1>17. ASSUME NEW v \in Workers PROVE Loaded(v)'
  <2>1. CASE v = w
    BY <1>4, <2>1 DEF Loaded
  <2>2. CASE v # w
    <3>1. SUFFICES ASSUME run[v].pc \in {"check", "write"}, run[v].stage \in {"ocr", "chunk"}
                   PROVE  pages' = pages
      BY <1>5, <2>2 DEF SameRun, Loaded, InTurn, RunsInTurn
    <3>2. s \notin {"extract", "ocr"}
      BY <1>2, <1>9, <1>10, <2>2, <3>1 DEF First
    <3> QED
      BY <1>11, <3>2 DEF First
  <2> QED
    BY <2>1, <2>2
<1>18. ASSUME NEW t \in Stages, Made(t), ~Missing(t), t # s PROVE Made(t)'
  <2>1. CASE s = "extract"
    BY <1>9, <1>18, <2>1
  <2>2. CASE s = "ocr"
    BY <1>9, <1>11, <1>18, <2>2 DEF Made
  <2>3. CASE s = "chunk"
    BY <1>9, <1>11, <1>18, <2>3 DEF Made, First
  <2>4. CASE s \notin First
    <3>1. CASE t = "entities"
      BY <1>11, <1>18, <2>4, <3>1 DEF Made
    <3>2. CASE t = "embed"
      BY <1>11, <1>18, <2>4, <3>2 DEF Made
    <3>3. CASE t \notin {"entities", "embed"}
      BY <1>11, <1>18, <2>4, <3>3 DEF Made
    <3> QED
      BY <3>1, <3>2, <3>3
  <2> QED
    BY <2>1, <2>2, <2>3, <2>4 DEF First
<1>19. Made(s)'
  BY <1>11 DEF Made, First
<1>20. ASSUME NEW v \in Workers PROVE MarksMade(v)'
  <2>1. CASE v = w
    BY <1>4, <1>19, <2>1 DEF MarksMade
  <2>2. CASE v # w
    <3>1. PICK t \in Stages : t = run[v].stage
      BY <1>2
    <3>2. SUFFICES ASSUME run[v].pc = "mark", job[t].owner = v, job[t].status # "error"
                   PROVE  Made(t)'
      BY <1>5, <1>7, <2>2, <3>1 DEF SameRun, MarksMade
    <3>3. Made(t) /\ ~Missing(t)
      BY <1>10, <2>2, <3>1, <3>2 DEF InTurn, RunsInTurn, MarksMade
    <3> QED
      BY <1>18, <1>19, <3>3
  <2> QED
    BY <2>1, <2>2
<1>21. SettledIsMade'
  BY <1>8, <1>18, <1>19 DEF InTurn, SettledIsMade, Settled, Missing
<1>22. ReadyAfterAll'
  <2>1. CASE s \in First
    <3>1. ~Settled("chunk")
      BY <1>6, <2>1, DoneBefore DEF InTurn, First
    <3>2. doc'.status # "ready"
      BY <1>11, <2>1, <3>1 DEF InTurn, ReadyAfterAll, First
    <3> QED
      BY <3>2 DEF ReadyAfterAll
  <2>2. CASE s \notin First
    BY <1>6, <1>8, <1>11, <2>2 DEF InTurn, ReadyAfterAll
  <2> QED
    BY <2>1, <2>2
<1> QED
  BY <1>12, <1>13, <1>14, <1>15, <1>16, <1>17, <1>20, <1>21, <1>22 DEF InTurn, RunsInTurn

LEMMA MarkDoneInTurn ==
  ASSUME TypeOK, InTurn, NEW w \in Workers, MarkDone(w)
  PROVE  InTurn'
<1>1. PICK s \in Stages : s = run[w].stage
  BY Typed
<1>2. /\ run \in [Workers -> Run] /\ job \in [Stages -> Job]
      /\ \A v \in Workers : run[v].stage \in Stages
  BY Typed DEF TypeOK
<1>3. UNCHANGED data /\ run[w].pc = "mark" /\ Working(w)
  BY DEF MarkDone, Working
<1>4. /\ pages' = pages /\ chunks' = chunks /\ vecs' = vecs /\ ents' = ents
  BY <1>3 DEF data
<1>5. CASE ~RunIsCurrent(w)
  <2>1. EndRun(w) /\ doc' = doc /\ job' = job
    BY <1>5 DEF MarkDone
  <2>2. \A v \in Workers : Ends(v) \/ SameRun(v)
    BY <1>2, <2>1 DEF EndRun, Idle, Ends, SameRun
  <2> QED
    BY <1>3, <2>1, <2>2, RunsGoOnInTurn
<1>6. CASE RunIsCurrent(w)
  <2>1. /\ Holds(w, s) /\ doc.gen = 1 /\ run[w].gen = 1
        /\ s \notin First => Settled("chunk")
        /\ s = "finalize" => ents /\ vecs
    BY <1>1, <1>3, UnderWay
  <2>2. Made(s)
    <3>1. job[s].owner = w /\ job[s].status # "error"
      BY <1>1, <1>6 DEF RunIsCurrent, Wanted
    <3> QED
      BY <1>1, <1>3, <3>1 DEF InTurn, RunsInTurn, MarksMade
  <2>3. /\ job'[s].status = "done" /\ job'[s].gen = job[s].gen
        /\ \A t \in Stages \ {s} : job'[t] = job[t]
    BY <1>1, <1>2, <1>6 DEF MarkDone, Job
  <2>4. /\ Ends(w) \/ (run'[w].pc = "advance" /\ run'[w].stage = s /\ run'[w].gen = 1)
        /\ \A v \in Workers \ {w} : run'[v] = run[v]
    BY <1>1, <1>2, <1>6, <2>1 DEF MarkDone, EndRun, Goto, Idle, Ends, Run
  <2>5. /\ doc'.gen = doc.gen
        /\ doc'.status = "ready" => doc.status = "ready" \/ s = "finalize"
    BY <1>1, <1>6 DEF MarkDone, TypeOK, StatusAfter
  <2>6. /\ \A t \in Stages : (Settled(t)' <=> Settled(t) \/ t = s)
        /\ \A t \in Stages : Missing(t)' <=> Missing(t)
        /\ \A t : Made(t)' <=> Made(t)
    BY <1>4, <2>1, <2>3 DEF Settled, Missing, Made, Holds
  <2>7. First \subseteq Stages /\ "finalize" \in Stages
    BY DEF First, Stages
  <2>8. s \in First => ~Settled(s)
    BY <1>3, <2>1 DEF Holds, Settled
  <2>9. ASSUME NEW v \in Workers, v # w, run[v].pc # "idle"
        PROVE  s \in First => run[v].stage # s
    BY <1>1, <1>3, <2>9 DEF InTurn, OneRunEach
  <2>10. OneGeneration'
    BY <2>3, <2>4, <2>5, <2>6 DEF InTurn, OneGeneration, Ends
  <2>11. RowsInOrder'
    <3>1. ~NeedsOcr => job'["ocr"].status \in {"absent", "done"}
      BY <2>3, <2>7 DEF InTurn, RowsInOrder, First
    <3> QED
      BY <1>4, <2>6, <2>7, <3>1 DEF InTurn, RowsInOrder, First
  <2>12. RunsHold'
    <3>1. ASSUME NEW v \in Workers, NEW t \in Stages, t = run[v].stage, run'[v].pc # "idle"
          PROVE  Holds(v, t)' /\ run'[v].stage = t
      <4>1. CASE v = w
        <5>1. t = s /\ run'[w].stage = s /\ ~Working(w)' /\ Advancing(w)'
          BY <1>1, <2>4, <3>1, <4>1 DEF Ends, Working, Advancing
        <5> QED
          BY <2>1, <2>6, <4>1, <5>1 DEF Holds
      <4>2. CASE v # w
        <5>1. run'[v] = run[v] /\ Holds(v, t)
          BY <2>4, <3>1, <4>2 DEF InTurn, RunsHold
        <5>2. (Working(v)' <=> Working(v)) /\ (Advancing(v)' <=> Advancing(v))
          BY <5>1 DEF Working, Advancing
        <5>3. t \in First => job'[t] = job[t]
          BY <2>3, <2>9, <3>1, <4>2, <5>1
        <5> QED
          BY <2>6, <3>1, <5>1, <5>2, <5>3 DEF Holds
      <4> QED
        BY <4>1, <4>2
    <3> QED
      BY <1>2, <3>1 DEF RunsHold
  <2>13. OneRunEach'
    BY <1>1, <1>3, <2>4 DEF InTurn, OneRunEach, Ends
  <2>14. ASSUME NEW v \in Workers PROVE (Advancing(v) => Passes(v))'
    <3>1. CASE v = w
      <4>1. SUFFICES ASSUME run'[w].pc = "advance", run'[w].stage = s PROVE Passes(w)'
        BY <2>4, <3>1 DEF Ends, Advancing
      <4>2. /\ s = "extract" => Missing("ocr")
            /\ s = "ocr" => Missing("chunk")
        BY <2>8, DoneBefore DEF InTurn, First, Stages
      <4> QED
        BY <2>6, <2>7, <4>1, <4>2 DEF Passes, First
    <3>2. CASE v # w
      <4>1. run'[v] = run[v]
        BY <2>4, <3>2
      <4> QED
        BY <1>4, <2>6, <2>7, <4>1 DEF InTurn, RunsInTurn, Advancing, Passes, First
    <3> QED
      BY <3>1, <3>2
  <2>15. ASSUME NEW v \in Workers PROVE Loaded(v)' /\ MarksMade(v)'
    <3>1. CASE v = w
      BY <2>4, <3>1 DEF Loaded, MarksMade, Ends
    <3>2. CASE v # w
      <4>1. run'[v] = run[v]
        BY <2>4, <3>2
      <4>2. Loaded(v)'
        BY <1>4, <4>1 DEF InTurn, RunsInTurn, Loaded
      <4>3. PICK t \in Stages : t = run[v].stage
        BY <1>2
      <4>4. CASE t = s
        BY <2>2, <2>6, <4>1, <4>2, <4>3, <4>4 DEF MarksMade
      <4>5. CASE t # s
        <5>1. job'[t] = job[t]
          BY <2>3, <4>5
        <5>2. MarksMade(v)
          BY DEF InTurn, RunsInTurn
        <5> QED
          BY <2>6, <4>1, <4>2, <4>3, <5>1, <5>2 DEF MarksMade
      <4> QED
        BY <4>4, <4>5
    <3> QED
      BY <3>1, <3>2
  <2>16. SettledIsMade'
    BY <2>2, <2>6 DEF InTurn, SettledIsMade
  <2>17. ReadyAfterAll'
    BY <1>4, <2>1, <2>5, <2>6, <2>7 DEF InTurn, ReadyAfterAll, First
  <2> QED
    BY <2>10, <2>11, <2>12, <2>13, <2>14, <2>15, <2>16, <2>17 DEF InTurn, RunsInTurn
<1> QED
  BY <1>5, <1>6

(* What advance_pipeline decides, by the stage it advances from. *)
LEMMA Decisions ==
  ASSUME TypeOK, InTurn, NEW w \in Workers, run[w].pc = "advance",
         NEW s \in Stages, s = run[w].stage
  PROVE  /\ SkipsOcr(1) <=> s = "extract" /\ ~NeedsOcr
         /\ s = "extract" => ToEnqueue(1) = IF NeedsOcr THEN {"ocr"} ELSE {"chunk"}
         /\ s = "ocr" => ToEnqueue(1) = {"chunk"}
         /\ s \notin {"extract", "ocr"} =>
              /\ ToEnqueue(1) \cap First = {}
              /\ "finalize" \in ToEnqueue(1) => ents /\ vecs
              /\ RestoresReady(1) => Settled("chunk") /\ ents /\ vecs
<1>1. Advancing(w) /\ Holds(w, s) /\ Passes(w)
      /\ (s = "chunk" => Settled("ocr")) /\ (s \notin First => Settled("chunk"))
  BY UnderWay DEF InTurn, RunsInTurn, Advancing
<1>2. s \in First => Settled(s)
  BY <1>1 DEF Holds
<1>3. job \in [Stages -> Job] /\ {"extract", "ocr", "chunk", "entities", "embed"} \subseteq Stages
  BY DEF TypeOK, Stages
<1>4. \A t \in Stages :
        /\ t \in Completed(1) <=> Settled(t)
        /\ Settled(t) => t \notin Waiting(1)
        /\ Missing(t) => t \notin Waiting(1) /\ t \notin Completed(1)
  BY DEF InTurn, OneGeneration, Completed, Waiting, Done, InFlight, Settled, Missing
<1>5. CASE s = "extract"
  <2>1. Settled("extract") /\ Missing("ocr") /\ Missing("chunk")
    <3>1. Settled("extract") /\ Missing("ocr")
      BY <1>1, <1>2, <1>5 DEF Passes, First
    <3>2. ~Settled("ocr")
      BY <3>1 DEF Settled, Missing
    <3> QED
      BY <3>1, <3>2 DEF InTurn, RowsInOrder
  <2>2. SkipsOcr(1) <=> ~NeedsOcr
    BY <1>3, <1>4, <2>1 DEF SkipsOcr
  <2>3. FirstMissing(Skipped(1)) = IF NeedsOcr THEN {"ocr"} ELSE {"chunk"}
    BY <1>3, <1>4, <2>1, <2>2 DEF FirstMissing, Skipped
  <2> QED
    BY <1>3, <1>4, <1>5, <2>1, <2>2, <2>3 DEF ToEnqueue
<1>6. CASE s = "ocr"
  <2>1. Settled("extract") /\ Settled("ocr") /\ Missing("chunk")
    BY <1>1, <1>2, <1>6, DoneBefore DEF Passes, First, InTurn
  <2>2. ~SkipsOcr(1)
    BY <1>3, <1>4, <2>1 DEF SkipsOcr
  <2>3. FirstMissing(Skipped(1)) = {"chunk"}
    BY <1>3, <1>4, <2>1, <2>2 DEF FirstMissing, Skipped
  <2> QED
    BY <1>3, <1>4, <1>6, <2>1, <2>2, <2>3 DEF ToEnqueue
<1>7. CASE s \notin {"extract", "ocr"}
  <2>1. Settled("extract") /\ Settled("ocr") /\ Settled("chunk")
    BY <1>1, <1>2, <1>7, DoneBefore DEF First, InTurn
  <2>2. ~SkipsOcr(1)
    BY <1>3, <1>4, <2>1 DEF SkipsOcr
  <2>3. FirstMissing(Skipped(1)) = {}
    BY <1>3, <1>4, <2>1, <2>2 DEF FirstMissing, Skipped
  <2>4. Parallel \subseteq Completed(1) => ents /\ vecs
    BY <1>3, <1>4 DEF Parallel, InTurn, SettledIsMade, Made
  <2>5. ToEnqueue(1) \cap First = {}
    BY <2>3 DEF ToEnqueue, FanOut, Parallel, Background, First
  <2>6. "finalize" \in ToEnqueue(1) => ents /\ vecs
    BY <2>3, <2>4 DEF ToEnqueue, FanOut, FanIn, Parallel, Background
  <2>7. RestoresReady(1) => Settled("chunk") /\ ents /\ vecs
    BY <2>1, <2>2, <2>4 DEF RestoresReady, Skipped
  <2> QED
    BY <1>7, <2>2, <2>5, <2>6, <2>7
<1> QED
  BY <1>5, <1>6, <1>7

LEMMA AdvanceInTurn ==
  ASSUME TypeOK, InTurn, NEW w \in Workers, Advance(w)
  PROVE  InTurn'
<1>1. PICK s \in Stages : s = run[w].stage
  BY Typed
<1>2. /\ run \in [Workers -> Run] /\ job \in [Stages -> Job]
      /\ \A v \in Workers : run[v].stage \in Stages
  BY Typed DEF TypeOK
<1>3. UNCHANGED data /\ run[w].pc = "advance" /\ Advancing(w)
  BY DEF Advance, Advancing
<1>4. /\ pages' = pages /\ chunks' = chunks /\ vecs' = vecs /\ ents' = ents
  BY <1>3 DEF data
<1>5. First \subseteq Stages /\ "finalize" \in Stages /\ \A t \in First : t \in Stages
  BY DEF First, Stages
<1>6. /\ doc.gen = 1 /\ run[w].gen = 1 /\ Holds(w, s)
      /\ s = "extract" => Missing("ocr") /\ Settled("extract")
  BY <1>1, <1>3, UnderWay DEF InTurn, RunsInTurn, Passes, Holds, First
<1>7. /\ SkipsOcr(1) <=> s = "extract" /\ ~NeedsOcr
      /\ s = "extract" => ToEnqueue(1) = IF NeedsOcr THEN {"ocr"} ELSE {"chunk"}
      /\ s = "ocr" => ToEnqueue(1) = {"chunk"}
      /\ s \notin {"extract", "ocr"} =>
           /\ ToEnqueue(1) \cap First = {}
           /\ "finalize" \in ToEnqueue(1) => ents /\ vecs
           /\ RestoresReady(1) => Settled("chunk") /\ ents /\ vecs
  BY <1>1, <1>3, Decisions
<1>8. RestoresReady(1) => Settled("chunk") /\ ents /\ vecs
  BY <1>7 DEF RestoresReady
<1>9. /\ \A v \in Workers \ {w} : run'[v] = run[v]
      /\ Ends(w) \/ /\ run'[w].pc = "enqueue" /\ run'[w].stage = s /\ run'[w].gen = 1
                    /\ run'[w].todo = ToEnqueue(1)
  BY <1>1, <1>2, <1>6 DEF Advance, EndRun, Idle, Ends, Run
<1>10. /\ \A t \in Stages \ {"ocr"} : job'[t] = job[t]
       /\ job'["ocr"] = IF SkipsOcr(1) THEN SkippedJob(1) ELSE job["ocr"]
  BY <1>2, <1>5, <1>6 DEF Advance, First
<1>11. doc'.gen = 1 /\ (doc'.status = "ready" => doc.status = "ready" \/ RestoresReady(1))
  BY <1>6 DEF Advance, TypeOK
<1>12. /\ \A t \in Stages : (Settled(t)' <=> Settled(t) \/ (t = "ocr" /\ SkipsOcr(1)))
       /\ \A t \in Stages : (Missing(t)' <=> Missing(t) /\ ~(t = "ocr" /\ SkipsOcr(1)))
       /\ \A t : Made(t)' <=> Made(t)
  BY <1>4, <1>10 DEF Settled, Missing, Made, SkippedJob
<1>13. OneGeneration'
  BY <1>9, <1>10, <1>11, <1>12 DEF InTurn, OneGeneration, SkippedJob, Ends
<1>14. RowsInOrder'
  <2>1. ~NeedsOcr => job'["ocr"].status \in {"absent", "done"}
    BY <1>10 DEF InTurn, RowsInOrder, SkippedJob
  <2> QED
    BY <1>4, <1>5, <1>6, <1>7, <1>12, <2>1 DEF InTurn, RowsInOrder, First
<1>15. ASSUME NEW v \in Workers, run[v].pc # "idle", run[v].stage = "ocr"
       PROVE  ~SkipsOcr(1)
  <2>1. Holds(v, "ocr")
    BY <1>15, UnderWay, <1>5 DEF First
  <2> QED
    BY <1>7, <2>1 DEF Holds
<1>16. RunsHold'
  <2>1. ASSUME NEW v \in Workers, NEW t \in Stages, t = run[v].stage, run'[v].pc # "idle"
        PROVE  Holds(v, t)' /\ run'[v].stage = t
    <3>1. /\ run'[v].stage = t /\ run[v].pc # "idle"
          /\ (Working(v)' <=> Working(v)) /\ (Advancing(v)' <=> Advancing(v))
      BY <1>1, <1>3, <1>9, <2>1 DEF Working, Advancing, Ends
    <3>2. Holds(v, t)
      BY <2>1, <3>1, UnderWay
    <3>3. job'[t] = job[t]
      BY <1>10, <1>15, <2>1, <3>1
    <3> QED
      BY <3>1, <3>2, <3>3 DEF Holds, Missing, Settled
  <2> QED
    BY <1>2, <2>1 DEF RunsHold
<1>17. OneRunEach'
  BY <1>1, <1>3, <1>9 DEF InTurn, OneRunEach, Ends
<1>18. ASSUME NEW v \in Workers PROVE (Advancing(v) => Passes(v))'
  <2>1. CASE v = w
    <3>1. SUFFICES ASSUME run'[w].pc = "enqueue", run'[w].stage = s,
                          run'[w].todo = ToEnqueue(1)
                   PROVE  Passes(w)'
      BY <1>9, <2>1 DEF Ends, Advancing
    <3>2. CASE s = "extract"
      <4>1. Missing("chunk")
        BY <1>6, <3>2 DEF InTurn, RowsInOrder, Missing, Settled
      <4> QED
        BY <1>5, <1>6, <1>7, <1>12, <3>1, <3>2, <4>1 DEF Passes, First
    <3>3. CASE s = "ocr"
      <4>1. Missing("chunk")
        BY <1>1, <1>3, <3>3 DEF InTurn, RunsInTurn, Passes
      <4> QED
        BY <1>5, <1>7, <1>12, <3>1, <3>3, <4>1 DEF Passes, First
    <3>4. CASE s \notin {"extract", "ocr"}
      BY <1>4, <1>7, <3>1, <3>4 DEF Passes
    <3> QED
      BY <3>2, <3>3, <3>4
  <2>2. CASE v # w
    <3>1. run'[v] = run[v]
      BY <1>9, <2>2
    <3>2. SUFFICES ASSUME Advancing(v) PROVE Passes(v)'
      BY <3>1 DEF Advancing
    <3>3. Passes(v) /\ run[v].pc # "idle"
      BY <3>2 DEF InTurn, RunsInTurn, Advancing
    <3>4. run[v].stage = "extract" => s # "extract"
      BY <1>1, <1>3, <2>2, <3>3 DEF InTurn, OneRunEach, First
    <3>5. run[v].stage = "extract" => ~SkipsOcr(1)
      BY <1>7, <3>4
    <3> QED
      BY <1>4, <1>5, <1>12, <3>1, <3>3, <3>5 DEF Passes, First
  <2> QED
    BY <2>1, <2>2
<1>19. ASSUME NEW v \in Workers PROVE Loaded(v)' /\ MarksMade(v)'
  <2>1. CASE v = w
    BY <1>9, <2>1 DEF Loaded, MarksMade, Ends
  <2>2. CASE v # w
    <3>1. run'[v] = run[v]
      BY <1>9, <2>2
    <3>2. Loaded(v)'
      BY <1>4, <3>1 DEF InTurn, RunsInTurn, Loaded
    <3>3. PICK t \in Stages : t = run[v].stage
      BY <1>2
    <3>4. run[v].pc = "mark" => job'[t] = job[t]
      BY <1>10, <1>15, <3>3
    <3>5. MarksMade(v)
      BY DEF InTurn, RunsInTurn
    <3> QED
      BY <1>12, <3>1, <3>2, <3>3, <3>4, <3>5 DEF MarksMade
  <2> QED
    BY <2>1, <2>2
<1>20. SettledIsMade'
  <2>1. SkipsOcr(1) => Made("ocr")
    BY <1>7 DEF Made
  <2> QED
    BY <1>12, <2>1 DEF InTurn, SettledIsMade
<1>21. ReadyAfterAll'
  BY <1>4, <1>5, <1>8, <1>11, <1>12 DEF InTurn, ReadyAfterAll, First
<1> QED
  BY <1>13, <1>14, <1>16, <1>17, <1>18, <1>19, <1>20, <1>21 DEF InTurn, RunsInTurn

(* Only the run of the stage before enqueues a first stage. *)
LEMMA EnqueueInTurn ==
  ASSUME TypeOK, InTurn, NEW w \in Workers, NEW s \in Stages, EnqueueStage(w, s)
  PROVE  InTurn'
<1>1. PICK r \in Stages : r = run[w].stage
  BY Typed
<1>2. /\ run \in [Workers -> Run] /\ job \in [Stages -> Job]
      /\ \A v \in Workers : run[v].stage \in Stages
  BY Typed DEF TypeOK
<1>3. /\ UNCHANGED data /\ run[w].pc = "enqueue" /\ Advancing(w) /\ s \in run[w].todo
  BY DEF EnqueueStage, NextToEnqueue, Advancing
<1>4. /\ pages' = pages /\ chunks' = chunks /\ vecs' = vecs /\ ents' = ents
  BY <1>3 DEF data
<1>5. First \subseteq Stages /\ "finalize" \in Stages /\ \A t \in First : t \in Stages
  BY DEF First, Stages
<1>6. /\ doc.gen = 1 /\ run[w].gen = 1 /\ Holds(w, r) /\ Passes(w)
      /\ r \notin First => Settled("chunk")
      /\ r \in First => Settled(r)
  BY <1>1, <1>3, UnderWay DEF InTurn, RunsInTurn, Holds
<1>7. /\ r = "extract" /\ NeedsOcr => run[w].todo = {"ocr"} /\ s = "ocr" /\ Missing("ocr")
      /\ r = "extract" /\ ~NeedsOcr =>
           run[w].todo = {"chunk"} /\ s = "chunk" /\ Missing("chunk") /\ Settled("ocr")
      /\ r = "ocr" => run[w].todo = {"chunk"} /\ s = "chunk" /\ Missing("chunk") /\ NeedsOcr
      /\ r \notin {"extract", "ocr"} =>
           /\ run[w].todo \cap First = {} /\ s \notin First /\ Settled("chunk")
           /\ "finalize" \in run[w].todo => ents /\ vecs
  BY <1>1, <1>3, <1>6 DEF Passes, First, Holds
<1>8. /\ \A v \in Workers \ {w} : run'[v] = run[v]
      /\ Ends(w) \/ /\ run'[w].pc = "enqueue" /\ run'[w].stage = r /\ run'[w].gen = 1
                    /\ run'[w].todo = run[w].todo \ {s} /\ run[w].todo \ {s} # {}
  BY <1>1, <1>2, <1>6 DEF EnqueueStage, Enqueued, EndRun, Idle, Ends, Run
<1>9. \/ doc' = doc /\ job' = job
      \/ Enqueue(s, 1) /\ StatusEnqueued(s)
  BY <1>6 DEF EnqueueStage
<1>10. doc'.gen = 1 /\ (doc'.status = "ready" => doc.status = "ready")
  BY <1>6, <1>9 DEF StatusEnqueued, TypeOK
<1>11. /\ \A t \in Stages \ {s} : job'[t] = job[t]
       /\ job'[s] = job[s] \/ job'[s] = QueuedJob(1)
  BY <1>2, <1>9 DEF Enqueue
<1>12. /\ \A t \in Stages \ {s} : (Settled(t)' <=> Settled(t)) /\ (Missing(t)' <=> Missing(t))
       /\ Settled(s)' => Settled(s)
       /\ Missing(s)' => Missing(s)
       /\ \A t : Made(t)' <=> Made(t)
  BY <1>4, <1>11 DEF Settled, Missing, Made, QueuedJob
<1>13. s \in First => Missing(s) /\ ~Settled(s)
  BY <1>6, <1>7 DEF First, Missing, Settled
<1>14. OneGeneration'
  BY <1>8, <1>10, <1>11 DEF InTurn, OneGeneration, QueuedJob, Missing, Ends
<1>15. \A t \in First : Settled(t) => Settled(t)'
  BY <1>5, <1>12, <1>13
<1>16. RowsInOrder'
  <2>1. ~NeedsOcr => job'["ocr"].status \in {"absent", "done"}
    <3>1. ~NeedsOcr => s # "ocr"
      BY <1>5, <1>7 DEF First
    <3> QED
      BY <1>5, <1>11, <3>1 DEF InTurn, RowsInOrder, First
  <2>2. ~Missing("ocr")' => Settled("extract")'
    BY <1>5, <1>6, <1>7, <1>12, <1>15 DEF InTurn, RowsInOrder, First
  <2>3. ~Missing("chunk")' => Settled("ocr")'
    BY <1>5, <1>6, <1>7, <1>12, <1>15 DEF InTurn, RowsInOrder, First
  <2>4. ASSUME NEW t \in Stages \ First, ~Missing(t)' PROVE Settled("chunk")'
    BY <1>5, <1>7, <1>12, <1>15, <2>4 DEF InTurn, RowsInOrder, First
  <2>5. ~Missing("finalize")' => ents' /\ vecs'
    BY <1>3, <1>4, <1>5, <1>7, <1>12 DEF InTurn, RowsInOrder, First
  <2> QED
    BY <2>1, <2>2, <2>3, <2>4, <2>5 DEF RowsInOrder
<1>17. ASSUME NEW v \in Workers, run[v].pc # "idle", run[v].stage = s PROVE s \notin First
  <2>1. Holds(v, s)
    BY <1>17, UnderWay
  <2> QED
    BY <1>13, <2>1 DEF Holds
<1>18. RunsHold'
  <2>1. ASSUME NEW v \in Workers, NEW t \in Stages, t = run[v].stage, run'[v].pc # "idle"
        PROVE  Holds(v, t)' /\ run'[v].stage = t
    <3>1. /\ run'[v].stage = t /\ run[v].pc # "idle"
          /\ (Working(v)' <=> Working(v)) /\ (Advancing(v)' <=> Advancing(v))
      BY <1>1, <1>3, <1>8, <2>1 DEF Working, Advancing, Ends
    <3>2. Holds(v, t)
      BY <2>1, <3>1, UnderWay
    <3>3. t \in First => job'[t] = job[t]
      BY <1>11, <1>17, <2>1, <3>1
    <3>4. ~Missing(t)'
      BY <1>12, <3>2 DEF Holds
    <3> QED
      BY <3>1, <3>2, <3>3, <3>4 DEF Holds, Settled
  <2> QED
    BY <1>2, <2>1 DEF RunsHold
<1>19. OneRunEach'
  BY <1>1, <1>3, <1>8 DEF InTurn, OneRunEach, Ends
<1>20. ASSUME NEW v \in Workers PROVE (Advancing(v) => Passes(v))'
  <2>1. CASE v = w
    <3>1. SUFFICES ASSUME run'[w].pc = "enqueue", run'[w].stage = r,
                          run'[w].todo = run[w].todo \ {s}, run[w].todo \ {s} # {}
                   PROVE  Passes(w)'
      BY <1>8, <2>1 DEF Ends, Advancing
    <3>2. r \notin {"extract", "ocr"}
      BY <1>7, <3>1
    <3> QED
      BY <1>4, <1>7, <3>1, <3>2 DEF Passes
  <2>2. CASE v # w
    <3>1. run'[v] = run[v]
      BY <1>8, <2>2
    <3>2. SUFFICES ASSUME Advancing(v) PROVE Passes(v)'
      BY <3>1 DEF Advancing
    <3>3. Passes(v) /\ run[v].pc # "idle"
      BY <3>2 DEF InTurn, RunsInTurn, Advancing
    <3>4. CASE run[v].stage = "extract"
      <4>1. r # "extract"
        BY <1>1, <1>3, <2>2, <3>3, <3>4 DEF InTurn, OneRunEach, First
      <4>2. s # "ocr" /\ (run[v].pc = "enqueue" /\ ~NeedsOcr => s # "chunk")
        BY <1>7, <4>1 DEF First
      <4> QED
        BY <1>5, <1>12, <1>15, <3>1, <3>3, <3>4, <4>2 DEF Passes, First
    <3>5. CASE run[v].stage = "ocr"
      <4>1. Holds(v, "ocr")
        BY <1>5, <3>3, <3>5, UnderWay DEF First
      <4>2. r # "ocr"
        BY <1>1, <1>3, <2>2, <3>3, <3>5 DEF InTurn, OneRunEach, First
      <4>3. r = "extract" => s = "ocr" /\ Missing("ocr")
        BY <1>7, <4>1 DEF Holds
      <4>4. s # "chunk"
        BY <1>7, <4>2, <4>3 DEF First
      <4> QED
        BY <1>5, <1>12, <3>1, <3>3, <3>5, <4>4 DEF Passes, First
    <3>6. CASE run[v].stage \notin {"extract", "ocr"}
      BY <1>4, <3>1, <3>3, <3>6 DEF Passes
    <3> QED
      BY <3>4, <3>5, <3>6
  <2> QED
    BY <2>1, <2>2
<1>21. ASSUME NEW v \in Workers PROVE Loaded(v)' /\ MarksMade(v)'
  <2>1. CASE v = w
    BY <1>8, <2>1 DEF Loaded, MarksMade, Ends
  <2>2. CASE v # w
    <3>1. run'[v] = run[v]
      BY <1>8, <2>2
    <3>2. Loaded(v)'
      BY <1>4, <3>1 DEF InTurn, RunsInTurn, Loaded
    <3>3. PICK t \in Stages : t = run[v].stage
      BY <1>2
    <3>4. job'[t] = job[t] \/ job'[t].owner = NoWorker
      BY <1>11 DEF QueuedJob
    <3>5. MarksMade(v) /\ NoWorker # v
      BY PipelineAssumption DEF InTurn, RunsInTurn
    <3> QED
      BY <1>12, <3>1, <3>2, <3>3, <3>4, <3>5 DEF MarksMade
  <2> QED
    BY <2>1, <2>2
<1>22. SettledIsMade'
  BY <1>12 DEF InTurn, SettledIsMade
<1>23. ReadyAfterAll'
  BY <1>4, <1>5, <1>10, <1>15 DEF InTurn, ReadyAfterAll, First
<1> QED
  BY <1>14, <1>16, <1>18, <1>19, <1>20, <1>21, <1>22, <1>23 DEF InTurn, RunsInTurn

LEMMA StepInTurn ==
  ASSUME TypeOK, InTurn, InTurnTroubles, [Next]_vars
  PROVE  InTurn'
<1>1. /\ ~Reprocess /\ ~Refresh /\ ~Resummarize
      /\ \A w \in Workers, s \in Stages : ~FindMissing(w, s)
  BY DEF InTurnTroubles, Disturb, Reprocess, Refresh, Resummarize, FindMissing
<1>2. ASSUME NEW w \in Workers PROVE ~InsertJob(w)
  <2>1. run[w].pc # "insert"
    BY DEF InTurn, RunsHold, Holds, Working, Advancing
  <2> QED
    BY <2>1 DEF InsertJob
<1>3. CASE UNCHANGED vars
  <2>1. doc' = doc /\ job' = job /\ UNCHANGED data /\ \A w \in Workers : SameRun(w)
    BY <1>3 DEF vars, data, SameRun
  <2> QED
    BY <2>1, RunsGoOnInTurn
<1> QED
  BY <1>1, <1>2, <1>3, RunStepInTurn, RowStepInTurn, ClaimInTurn, WriteInTurn, MarkDoneInTurn,
     AdvanceInTurn, EnqueueInTurn
  DEF Next, RunStep

(* A stage done at the current generation has made what it is for, and one under
   way has what it works from, whichever runs fail, are shut down, crash or are
   taken for dead, and wherever a cancel falls: any number of workers and
   disturbances, with OCR and without.                                     *)
THEOREM OrderKept ==
  ASSUME InTurnTroubles PROVE Spec => []StagesInOrder
<1>1. Init => TypeOK /\ InTurn
  BY InitType, InitInTurn
<1>2. TypeOK /\ InTurn /\ [Next]_vars => (TypeOK /\ InTurn)'
  BY StepType, StepInTurn
<1>3. TypeOK /\ InTurn => StagesInOrder
  <2> SUFFICES ASSUME TypeOK, InTurn PROVE StagesInOrder
    OBVIOUS
  <2>1. doc.gen = 1 /\ pages \in Pages
    BY DEF InTurn, OneGeneration, TypeOK
  <2>2. {"extract", "ocr", "chunk", "entities", "embed"} \subseteq Stages
    BY DEF Stages
  <2>3. /\ Settled("extract") => Product("extract")
        /\ Settled("ocr") => Product("ocr")
        /\ Settled("chunk") => Product("chunk")
    BY <2>1, <2>2, DoneBefore DEF InTurn, SettledIsMade, Made, Product
  <2>4. \A s \in Stages : Settled(s) => Product(s)
    BY <2>2, <2>3 DEF InTurn, SettledIsMade, Made, Product, Stages
  <2>5. ASSUME NEW s \in Stages, ~Missing(s), NEW t \in Needs(s) PROVE Product(t)
    <3>1. CASE s \in First
      <4>1. Settled(t)
        BY <2>5, <3>1, DoneBefore DEF InTurn, RowsInOrder, First, Needs
      <4> QED
        BY <2>2, <2>4, <2>5, <3>1, <4>1 DEF Needs, First
    <3>2. CASE s \notin First /\ s # "finalize"
      BY <2>3, <2>5, <3>2 DEF InTurn, RowsInOrder, First, Needs, Stages
    <3>3. CASE s = "finalize"
      BY <2>5, <3>3 DEF InTurn, RowsInOrder, Needs, Product
    <3> QED
      BY <3>1, <3>2, <3>3
  <2> QED
    BY <2>4, <2>5 DEF StagesInOrder, Done, InFlight, Settled, Missing
<1> QED
  BY <1>1, <1>2, <1>3, PTL DEF Spec

(* OCR adds to what it read, so running it twice would show in the pages.  It
   has no second run where a run that ends, ends its row or gives it back
   unwritten: the shutdown's deadline is held off from OCR's commit to its
   mark, but a crash, or a reaper that takes the run for dead, falls in
   between.                                                                *)
OcrTroubles == NeedsOcr => Troubles \subseteq {"fail", "shutdown", "cancel"}

Reading(w) == run[w].stage = "ocr" /\ run[w].pc \in {"start", "check", "write"}

OcrRuns == \E w \in Workers : run[w].stage = "ocr" /\ Working(w)

OcrOnce ==
  /\ ~NeedsOcr => pages.ocr = 0
  /\ NeedsOcr =>
       /\ pages.ocr <= 1
       /\ job["ocr"].status \in {"absent", "queued"} => pages.ocr = 0
       /\ \A w \in Workers : Reading(w) => pages.ocr = 0
       /\ job["ocr"].status = "running" => OcrRuns

LEMMA InitOcrOnce == Init => OcrOnce
<1> SUFFICES ASSUME Init PROVE OcrOnce
  OBVIOUS
<1>1. pages.ocr = 0 /\ job["ocr"].status = "absent"
  BY DEF Init, NoPages, NoJob, Stages
<1> QED
  BY <1>1 DEF OcrOnce

LEMMA OcrGoesOn ==
  ASSUME TypeOK, OcrOnce, NeedsOcr, pages' = pages, NEW w \in Workers,
         \A v \in Workers \ {w} : SameRun(v),
         Reading(w)' => Reading(w) \/ pages.ocr = 0,
         job'["ocr"].status \in {"absent", "queued"} =>
           job["ocr"].status \in {"absent", "queued"} \/ pages.ocr = 0,
         job'["ocr"].status = "running" =>
           \/ run'[w].stage = "ocr" /\ Working(w)'
           \/ job["ocr"].status = "running" /\ ~(run[w].stage = "ocr" /\ Working(w))
  PROVE  OcrOnce'
<1>1. \A v \in Workers : Reading(v)' => pages.ocr = 0
  BY DEF OcrOnce, Reading, SameRun
<1>2. job'["ocr"].status = "running" => OcrRuns'
  <2>1. SUFFICES ASSUME job["ocr"].status = "running", ~(run[w].stage = "ocr" /\ Working(w))
                 PROVE  OcrRuns'
    BY DEF OcrRuns
  <2>2. PICK v \in Workers : run[v].stage = "ocr" /\ Working(v)
    BY <2>1 DEF OcrOnce, OcrRuns
  <2>3. run'[v].stage = "ocr" /\ Working(v)'
    BY <2>1, <2>2 DEF SameRun, Working
  <2> QED
    BY <2>3 DEF OcrRuns
<1> QED
  BY <1>1, <1>2 DEF OcrOnce

(* The steps of a run. *)
LEMMA OcrRunSteps ==
  ASSUME TypeOK, InTurn, OcrTroubles, OcrOnce, NeedsOcr, NEW w \in Workers,
         RunStep(w) \/ StageFails(w) \/ Shutdown(w) \/ Crash(w)
  PROVE  OcrOnce'
<1>1. PICK s \in Stages : s = run[w].stage
  BY Typed
<1>2. /\ run \in [Workers -> Run] /\ job \in [Stages -> Job]
      /\ pages \in Pages /\ "ocr" \in Stages /\ run[w] \in Run
  BY Typed DEF TypeOK, Stages
<1>3. run[w].pc # "idle"
  BY DEF RunStep, Start, Check, Write, WriteFails, MarkDone, Advance, InsertJob,
         RecordFailure, EnqueueStage, NextToEnqueue, StageFails, Shutdown, Crash
<1>4. /\ Holds(w, s) /\ doc.gen = 1 /\ run[w].gen = 1 /\ job[s].gen = 1
      /\ s \in {"ocr", "chunk"} => pages.gen = 1
  BY <1>1, <1>3, UnderWay
<1>5. ~Crash(w) /\ "lapse" \notin Troubles
  BY DEF OcrTroubles, Crash, Disturb
<1>6. (* a run of OCR whose row is running still owns it *)
      s = "ocr" /\ Working(w) =>
        /\ job["ocr"].status \notin {"absent", "queued", "done"}
        /\ job["ocr"].status = "running" => job["ocr"].owner = w /\ RunIsCurrent(w) /\ OwnRow(w)
  BY <1>1, <1>4, <1>5 DEF Holds, Missing, First, RunIsCurrent, Wanted, OwnRow
<1>7. ASSUME EndRun(w)
      PROVE  /\ \A v \in Workers \ {w} : SameRun(v)
             /\ ~Reading(w)'
  BY <1>2, <1>7 DEF EndRun, Idle, SameRun, Reading
<1>8. ASSUME NEW pc \in PC, Goto(w, pc)
      PROVE  /\ \A v \in Workers \ {w} : SameRun(v)
             /\ run'[w].pc = pc /\ run'[w].stage = s
  BY <1>1, <1>2, <1>8 DEF Goto, SameRun
<1>9. CASE Start(w)
  <2>1. pages' = pages /\ job' = job /\ run[w].pc = "start" /\ Working(w)
    BY <1>9 DEF Start, data, Working
  <2>2. CASE ~Wanted(w) /\ EndRun(w)
    <3>1. s = "ocr" => job["ocr"].status # "running"
      BY <1>6, <2>1, <2>2 DEF RunIsCurrent
    <3> QED
      BY <1>1, <1>7, <2>1, <2>2, <3>1, OcrGoesOn
  <2>3. CASE Goto(w, "mark")
    BY <1>1, <1>8, <2>1, <2>3, OcrGoesOn DEF PC, Working, Reading
  <2>4. CASE run' = [run EXCEPT ![w].pc = "check", ![w].seen = Input(s)]
    <3>1. /\ \A v \in Workers \ {w} : SameRun(v)
          /\ run'[w].pc = "check" /\ run'[w].stage = s
      BY <1>1, <1>2, <2>4 DEF SameRun
    <3> QED
      BY <1>1, <2>1, <3>1, OcrGoesOn DEF Working, Reading
  <2> QED
    BY <1>1, <1>9, <2>2, <2>3, <2>4 DEF Start
<1>10. CASE Check(w) \/ StageFails(w) \/ WriteFails(w)
  <2>1. /\ pages' = pages /\ job' = job /\ Working(w) /\ run[w].pc \in {"check", "write"}
        /\ \E pc \in {"write", "mark", "fail"} : Goto(w, pc)
    BY <1>10 DEF Check, StageFails, WriteFails, data, Working
  <2> QED
    BY <1>1, <1>8, <2>1, OcrGoesOn DEF PC, Working, Reading
<1>11. CASE Write(w)
  <2>1. PICK deleted : AfterWrite(w, deleted)
    BY <1>11 DEF Write
  <2>2. job' = job /\ run[w].pc = "write" /\ Working(w)
    BY <1>11 DEF Write, Working
  <2>3. ASSUME NEW v \in Workers \ {w} PROVE SameRun(v)
    BY <1>2, <2>1, <2>3 DEF AfterWrite, SameRun, Run
  <2>4. run'[w].pc = "mark" /\ run'[w].stage = s
    <3>1. run'[w] = [run[w] EXCEPT !.pc = "mark", !.seen = NoPages]
      BY <2>1 DEF AfterWrite
    <3> QED
      BY <1>1, <1>2, <3>1 DEF Run
  <2>5. CASE s \notin {"extract", "ocr"}
    <3>1. pages' = pages
      BY <1>1, <1>11, <2>5 DEF Write, data
    <3> QED
      BY <1>1, <2>2, <2>3, <2>4, <2>5, <3>1, OcrGoesOn DEF Working, Reading
  <2>6. CASE s = "extract"
    <3>1. Missing("ocr")
      BY <1>4, <2>2, <2>6, DoneBefore DEF Holds, InTurn, First, Settled, Stages
    <3>2. run[w].seen = [gen |-> 1, ocr |-> 0]
      BY <1>1, <2>2, <2>6 DEF InTurn, RunsInTurn, Loaded
    <3>3. pages' = [gen |-> 1, ocr |-> 0]
      BY <1>1, <1>11, <2>6, <3>2 DEF Write
    <3> QED
      BY <2>2, <3>1, <3>3 DEF OcrOnce, Missing
  <2>7. CASE s = "ocr"
    <3>1. pages.ocr = 0
      BY <1>1, <2>2, <2>7 DEF OcrOnce, Reading
    <3>2. run[w].seen = pages
      BY <1>1, <2>2, <2>7 DEF InTurn, RunsInTurn, Loaded
    <3>3. pages'.ocr = 1
      BY <1>1, <1>2, <1>11, <2>7, <3>1, <3>2 DEF Write, Pages
    <3>4. ASSUME NEW v \in Workers, Reading(v)' PROVE FALSE
      <4>1. v # w /\ SameRun(v)
        BY <2>3, <2>4, <3>4 DEF Reading
      <4> QED
        BY <1>1, <1>3, <2>7, <3>4, <4>1 DEF Reading, SameRun, InTurn, OneRunEach, First
    <3>5. OcrRuns'
      BY <2>4, <2>7 DEF OcrRuns, Working
    <3> QED
      BY <1>6, <2>2, <2>7, <3>3, <3>4, <3>5 DEF OcrOnce
  <2> QED
    BY <2>5, <2>6, <2>7
<1>12. CASE MarkDone(w)
  <2>1. pages' = pages /\ run[w].pc = "mark" /\ Working(w)
    BY <1>12 DEF MarkDone, data, Working
  <2>2. CASE RunIsCurrent(w)
    <3>1. job' = [job EXCEPT ![s].status = "done"] /\ (EndRun(w) \/ Goto(w, "advance"))
      BY <1>1, <1>12, <2>2 DEF MarkDone
    <3>2. /\ s = "ocr" => job'["ocr"].status = "done"
          /\ s # "ocr" => job'["ocr"] = job["ocr"]
      BY <1>2, <3>1 DEF Job
    <3>3. (\A v \in Workers \ {w} : SameRun(v)) /\ ~Reading(w)'
      BY <1>7, <1>8, <3>1 DEF PC, Reading
    <3> QED
      BY <1>1, <2>1, <3>2, <3>3, OcrGoesOn
  <2>3. CASE ~RunIsCurrent(w)
    <3>1. EndRun(w) /\ job' = job
      BY <1>12, <2>3 DEF MarkDone
    <3>2. s = "ocr" => job["ocr"].status # "running"
      BY <1>6, <2>1, <2>3
    <3> QED
      BY <1>1, <1>7, <2>1, <3>1, <3>2, OcrGoesOn
  <2> QED
    BY <2>2, <2>3
<1>13. CASE Advance(w)
  <2>1. pages' = pages /\ run[w].pc = "advance" /\ ~Working(w)
    BY <1>13 DEF Advance, data, Working
  <2>2. job' = job
    BY <1>4, <1>13 DEF Advance, SkipsOcr
  <2>3. (\A v \in Workers \ {w} : SameRun(v)) /\ ~Reading(w)'
    <3>1. CASE EndRun(w)
      BY <1>7, <3>1
    <3>2. CASE run' = [run EXCEPT ![w].pc = "enqueue", ![w].todo = ToEnqueue(doc.gen)]
      BY <1>2, <3>2 DEF SameRun, Reading
    <3> QED
      BY <1>13, <3>1, <3>2 DEF Advance
  <2> QED
    BY <2>1, <2>2, <2>3, OcrGoesOn
<1>14. ASSUME NEW t \in Stages, EnqueueStage(w, t) PROVE OcrOnce'
  <2>1. pages' = pages /\ run[w].pc = "enqueue" /\ ~Working(w) /\ t \in run[w].todo
    BY <1>14 DEF EnqueueStage, NextToEnqueue, data, Working
  <2>2. (\A v \in Workers \ {w} : SameRun(v)) /\ ~Reading(w)'
    <3>1. CASE EndRun(w)
      BY <1>7, <3>1
    <3>2. CASE run' = [run EXCEPT ![w].pc = "enqueue", ![w].todo = run[w].todo \ {t}]
      BY <1>2, <3>2 DEF SameRun, Reading
    <3> QED
      BY <1>14, <3>1, <3>2 DEF EnqueueStage, Enqueued
  <2>3. Passes(w)
    BY <2>1 DEF InTurn, RunsInTurn, Advancing
  <2>4. t = "ocr" => Missing("ocr")
    BY <1>1, <2>1, <2>3 DEF Passes, First
  <2>5. job'["ocr"] = job["ocr"] \/ (Missing("ocr") /\ job'["ocr"].status = "queued")
    BY <1>2, <1>14, <2>4 DEF EnqueueStage, Enqueue, QueuedJob
  <2> QED
    BY <2>1, <2>2, <2>5, OcrGoesOn DEF Missing
<1>15. CASE RecordFailure(w)
  <2>1. pages' = pages /\ run[w].pc = "fail" /\ Working(w) /\ EndRun(w)
    BY <1>15 DEF RecordFailure, data, Working
  <2>2. job'["ocr"] = job["ocr"] \/ job'["ocr"].status = "error"
    BY <1>2, <1>15 DEF RecordFailure, Job
  <2>3. s = "ocr" => job'["ocr"].status # "running"
    <3>1. SUFFICES ASSUME s = "ocr", job["ocr"].status = "running"
                   PROVE  job'["ocr"].status = "error"
      BY <2>2
    <3>2. OwnRow(w) /\ ~KeepsRow(w)
      BY <1>1, <1>6, <2>1, <3>1 DEF KeepsRow
    <3> QED
      BY <1>1, <1>2, <1>15, <3>1, <3>2 DEF RecordFailure, Job
  <2> QED
    BY <1>1, <1>7, <2>1, <2>2, <2>3, OcrGoesOn
<1>16. CASE Shutdown(w)
  <2>1. pages' = pages /\ EndRun(w) /\ Working(w) /\ (s = "ocr" => Reading(w))
    BY <1>1, <1>16 DEF Shutdown, data, Working, Reading
  <2>2. s # "ocr" => job'["ocr"] = job["ocr"]
    BY <1>1, <1>2, <1>16 DEF Shutdown, Requeue
  <2>3. s = "ocr" => pages.ocr = 0 /\ job'["ocr"].status # "running"
    <3>1. SUFFICES ASSUME s = "ocr" PROVE pages.ocr = 0 /\ job'["ocr"].status # "running"
      OBVIOUS
    <3>2. pages.ocr = 0
      BY <2>1, <3>1 DEF OcrOnce
    <3>3. CASE job["ocr"].status = "running"
      <4>1. Requeue("ocr")
        BY <1>1, <1>6, <1>16, <2>1, <3>1, <3>3 DEF Shutdown
      <4> QED
        BY <1>2, <3>2, <4>1 DEF Requeue, QueuedJob
    <3>4. CASE job["ocr"].status # "running"
      BY <1>1, <1>16, <3>1, <3>2, <3>4 DEF Shutdown
    <3> QED
      BY <3>3, <3>4
  <2> QED
    BY <1>1, <1>7, <2>1, <2>2, <2>3, OcrGoesOn
<1>17. ~InsertJob(w)
  BY <1>4 DEF InsertJob, Holds, Working, Advancing
<1> QED
  BY <1>5, <1>9, <1>10, <1>11, <1>12, <1>13, <1>14, <1>15, <1>16, <1>17 DEF RunStep

LEMMA StepOcrOnce ==
  ASSUME TypeOK, InTurn, InTurnTroubles, OcrTroubles, OcrOnce, [Next]_vars
  PROVE  OcrOnce'
<1>1. /\ ~Reprocess /\ ~Refresh /\ ~Resummarize
      /\ \A w \in Workers, s \in Stages : ~FindMissing(w, s)
  BY DEF InTurnTroubles, Disturb, Reprocess, Refresh, Resummarize, FindMissing
<1>2. CASE ~NeedsOcr
  <2>1. pages' = pages \/ \E w \in Workers : Write(w)
    BY <1>1 DEF Next, RunStep, vars, data, Claim, Start, Check, WriteFails, MarkDone, Advance,
               InsertJob, RecordFailure, EnqueueStage, StageFails, Shutdown, Crash,
               ReapDead, ReapLive, Cancel
  <2>2. ASSUME NEW w \in Workers, Write(w) PROVE pages'.ocr = 0
    <3>1. PICK s \in Stages : s = run[w].stage
      BY Typed
    <3>2. Holds(w, s) /\ Loaded(w) /\ run[w].pc = "write"
      BY <2>2, <3>1, UnderWay DEF Write, InTurn, RunsInTurn
    <3>3. s # "ocr"
      BY <1>2, <3>2 DEF Holds
    <3>4. s = "extract" => run[w].seen.ocr = 0
      BY <3>1, <3>2 DEF Loaded
    <3> QED
      BY <1>2, <2>2, <3>1, <3>3, <3>4 DEF Write, data, OcrOnce
  <2> QED
    BY <1>2, <2>1, <2>2 DEF OcrOnce
<1>3. CASE NeedsOcr
  <2>1. ASSUME NEW w \in Workers, NEW s \in Stages, Claim(w, s) PROVE OcrOnce'
    <3>1. /\ pages' = pages /\ run[w].pc = "idle"
          /\ run'[w].pc = "start" /\ run'[w].stage = s
          /\ \A v \in Workers \ {w} : SameRun(v)
      BY <2>1 DEF Claim, data, Idle, SameRun, TypeOK
    <3>2. /\ job[s].status = "queued" /\ (s # "ocr" => job'["ocr"] = job["ocr"])
          /\ job'[s].status = "running"
      <4>1. "ocr" \in Stages
        BY DEF Stages
      <4> QED
        BY <2>1, <4>1 DEF Claim, TypeOK, Job
    <3> QED
      BY <1>3, <3>1, <3>2, OcrGoesOn DEF OcrOnce, Reading, Working
  <2>2. ASSUME NEW s \in Stages, ReapDead(s) \/ ReapLive(s) PROVE OcrOnce'
    <3>1. ReapDead(s)
      BY <1>3, <2>2 DEF OcrTroubles, ReapLive, Disturb
    <3>2. s # "ocr"
      <4>1. SUFFICES ASSUME s = "ocr" PROVE FALSE
        OBVIOUS
      <4>2. PICK w \in Workers : run[w].stage = "ocr" /\ Working(w)
        BY <1>3, <3>1, <4>1 DEF ReapDead, Orphaned, OcrOnce, OcrRuns
      <4>3. run[w].pc # "idle" /\ Holds(w, "ocr") /\ doc.gen = 1 /\ run[w].gen = 1
        BY <4>1, <4>2, UnderWay DEF Working
      <4>4. job["ocr"].owner = w /\ job["ocr"].gen = run[w].gen
        BY <3>1, <4>1, <4>2, <4>3 DEF ReapDead, Orphaned, Holds, First
      <4> QED
        BY <3>1, <4>1, <4>2, <4>3, <4>4 DEF ReapDead, Abandoned
    <3>3. pages' = pages /\ job'["ocr"] = job["ocr"] /\ run' = run
      BY <3>1, <3>2 DEF ReapDead, Requeue, data, TypeOK, Stages
    <3> QED
      BY <1>3, <3>3 DEF OcrOnce, OcrRuns, Reading, Working
  <2>3. CASE Cancel
    <3>1. /\ pages' = pages /\ run' = run
          /\ job'["ocr"] = job["ocr"] \/ job'["ocr"].status = "error"
      BY <2>3 DEF Cancel, data, TypeOK, Job, Stages
    <3> QED
      BY <1>3, <3>1 DEF OcrOnce, OcrRuns, Reading, Working
  <2>4. CASE UNCHANGED vars
    BY <2>4 DEF vars, OcrOnce, OcrRuns, Reading, Working
  <2> QED
    BY <1>1, <1>3, <2>1, <2>2, <2>3, <2>4, OcrRunSteps DEF Next
<1> QED
  BY <1>2, <1>3

(* A document that reads ready is searchable as the file is now: its pages are
   OCR'd once if they need it, and every chunk was cut from them and has its
   entities and its embedding, wherever a run fails, is shut down or meets a
   cancel; without OCR, wherever it crashes or is taken for dead, too.      *)
THEOREM ReadyMeansWhole ==
  ASSUME InTurnTroubles, OcrTroubles PROVE Spec => []ReadyIsWhole
<1>1. Init => TypeOK /\ InTurn /\ OcrOnce
  BY InitType, InitInTurn, InitOcrOnce
<1>2. TypeOK /\ InTurn /\ OcrOnce /\ [Next]_vars => (TypeOK /\ InTurn /\ OcrOnce)'
  BY StepType, StepInTurn, StepOcrOnce
<1>3. TypeOK /\ InTurn /\ OcrOnce => ReadyIsWhole
  <2> SUFFICES ASSUME TypeOK, InTurn, OcrOnce, doc.status = "ready"
               PROVE  /\ pages = [gen |-> doc.gen, ocr |-> IF NeedsOcr THEN 1 ELSE 0]
                      /\ chunks = pages
                      /\ vecs /\ ents
    BY DEF ReadyIsWhole
  <2>1. Settled("chunk") /\ vecs /\ ents
    BY DEF InTurn, ReadyAfterAll
  <2>2. Settled("extract") /\ Settled("ocr")
    BY <2>1, DoneBefore DEF InTurn
  <2>3. {"extract", "ocr", "chunk"} \subseteq Stages
    BY DEF Stages
  <2>4. chunks = pages /\ pages.gen = doc.gen /\ (NeedsOcr => pages.ocr > 0)
    BY <2>1, <2>2, <2>3 DEF InTurn, SettledIsMade, OneGeneration, Made
  <2>5. pages \in Pages
    BY DEF TypeOK
  <2>6. pages.ocr = IF NeedsOcr THEN 1 ELSE 0
    BY <2>4, <2>5 DEF OcrOnce, Pages
  <2> QED
    BY <2>1, <2>4, <2>5, <2>6 DEF Pages
<1> QED
  BY <1>1, <1>2, <1>3, PTL DEF Spec

=============================================================================
