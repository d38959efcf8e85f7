-------------------------- MODULE IngestionPipeline --------------------------
(***************************************************************************)
(* The stage graph of one document: extract, ocr, chunk, then entities and *)
(* embed in parallel (summarize beside them), then finalize.  Worker runs  *)
(* claim the stages' jobs, write what the stage produces, mark the job     *)
(* done and advance the pipeline; clients cancel, reprocess and            *)
(* resummarize; a reaper requeues what a dead worker left.                 *)
(* worker/pipeline.py, worker/stages/*.py, worker/entry.py.                *)
(*                                                                         *)
(* A database transaction is one step (ClaimedJob looks inside those that  *)
(* write one job row), except two whose gap matters here: a stage asks     *)
(* whether its run is still wanted some time before its write commits, and *)
(* enqueue_stage finds no row some time before it inserts one.             *)
(***************************************************************************)
EXTENDS Naturals

CONSTANTS
  Workers,     (* worker processes                                         *)
  Serves,      (* the stages of each worker's queue                        *)
  NeedsOcr,    (* extract finds that the document needs OCR                *)
  Troubles,    (* which disturbances may happen                            *)
  MaxTrouble,  (* how many of them: the bound of every run                 *)
  NoWorker     (* the owner of a row nobody has claimed                    *)

Stages ==
  {"extract", "ocr", "chunk", "entities", "embed", "summarize", "finalize"}

TroubleKinds ==
  {"fail", "shutdown", "crash", "lapse", "race", "cancel", "reprocess",
   "refresh", "resummarize"}

ASSUME PipelineAssumption ==
  /\ Serves \in [Workers -> SUBSET Stages]
  /\ NeedsOcr \in BOOLEAN
  /\ Troubles \subseteq TroubleKinds
  /\ MaxTrouble \in Nat
  /\ NoWorker \notin Workers

VARIABLES
  doc,      (* the documents row: pipeline_seq and pipeline_status         *)
  job,      (* per stage: its ingestion_jobs row                           *)
  pages,    (* document_pages: the generation extracted, times OCR'd       *)
  chunks,   (* chunks: the pages they were cut from                        *)
  vecs,     (* every chunk has its embedding                               *)
  ents,     (* the chunks' entities are stored                             *)
  run,      (* per worker: the run it executes                             *)
  trouble   (* disturbances so far                                         *)

data == <<pages, chunks, vecs, ents>>
vars == <<doc, job, pages, chunks, vecs, ents, run, trouble>>

-----------------------------------------------------------------------------
(* pipeline_status, with every status of a pipeline under way as "busy" and
   error told apart by its cause.                                          *)
DocStatus == {"busy", "ready", "failed", "cancelled"}

(* owner is the worker whose claim stamped started_at: a worker runs one job at
   a time, so among live runs the two identify the same claim.             *)
Job == [status: {"absent", "queued", "running", "done", "error"},
        gen: Nat, owner: Workers \cup {NoWorker}]

NoJob == [status |-> "absent", gen |-> 0, owner |-> NoWorker]

QueuedJob(g) == [status |-> "queued", gen |-> g, owner |-> NoWorker]

Pages == [gen: Nat, ocr: Nat]

NoPages == [gen |-> 0, ocr |-> 0]

PC == {"idle", "start", "check", "write", "mark", "advance", "enqueue",
       "insert", "fail"}

(* seen is what the stage loaded to work from, gone says those rows were
   deleted since, todo the stages advance_pipeline has still to enqueue, ins
   and insGen the row enqueue_stage is inserting.                          *)
Run == [pc: PC, stage: Stages, gen: Nat, seen: Pages, gone: BOOLEAN,
        todo: SUBSET Stages, ins: Stages, insGen: Nat]

Idle == [pc |-> "idle", stage |-> "extract", gen |-> 0, seen |-> NoPages,
         gone |-> FALSE, todo |-> {}, ins |-> "extract", insGen |-> 0]

Init ==
  /\ doc = [gen |-> 1, status |-> "busy"]
  /\ job = [s \in Stages |-> IF s = "extract" THEN QueuedJob(1) ELSE NoJob]
  /\ pages = NoPages
  /\ chunks = NoPages
  /\ vecs = FALSE
  /\ ents = FALSE
  /\ run = [w \in Workers |-> Idle]
  /\ trouble = 0

Disturb(kind) ==
  /\ kind \in Troubles
  /\ trouble < MaxTrouble
  /\ trouble' = trouble + 1

Goto(w, pc) == run' = [run EXCEPT ![w].pc = pc]

EndRun(w) == run' = [run EXCEPT ![w] = Idle]

InFlight(s, g) == job[s].gen = g /\ job[s].status \in {"queued", "running"}

Done(s, g) == job[s].gen = g /\ job[s].status = "done"

-----------------------------------------------------------------------------
(* Running a stage *)

Claim(w, s) ==
  /\ run[w].pc = "idle"
  /\ s \in Serves[w]
  /\ job[s].status = "queued" /\ job[s].gen = doc.gen
  /\ job' = [job EXCEPT ![s].status = "running", ![s].owner = w]
  /\ run' = [run EXCEPT ![w] = [Idle EXCEPT !.pc = "start", !.stage = s,
                                            !.gen = doc.gen]]
  /\ UNCHANGED <<doc, data, trouble>>

(* mark_stage_running's checks; stage_run_is_current adds the claim.       *)
Wanted(w) ==
  LET j == job[run[w].stage]
  IN  /\ doc.gen = run[w].gen
      /\ j.gen = run[w].gen
      /\ j.status \notin {"absent", "error"}

RunIsCurrent(w) == Wanted(w) /\ job[run[w].stage].owner = w

(* What the stage loads to work from: the file (for OCR too, if no page exists
   yet), the pages or the chunks.  A stage that finds nothing to do marks itself
   done.                                                                   *)
FromFile == [gen |-> doc.gen, ocr |-> 0]

Input(s) ==
  CASE s = "extract" -> FromFile
    [] s = "ocr" -> IF pages = NoPages THEN FromFile ELSE pages
    [] s = "chunk" -> pages
    [] OTHER -> chunks

NothingToDo(s) ==
  \/ s # "finalize" /\ Input(s) = NoPages
  \/ s = "ocr" /\ ~NeedsOcr
  \/ s = "embed" /\ vecs

Start(w) ==
  LET s == run[w].stage
  IN
  /\ run[w].pc = "start"
  /\ \/ ~Wanted(w) /\ EndRun(w)
     \/ Wanted(w) /\ NothingToDo(s) /\ Goto(w, "mark")
     \/ /\ Wanted(w) /\ ~NothingToDo(s)
        /\ run' = [run EXCEPT ![w].pc = "check", ![w].seen = Input(s)]
  /\ UNCHANGED <<doc, job, data, trouble>>

(* The race check before the write; a run no longer wanted goes on to
   mark_stage_done, which declines likewise.                               *)
Check(w) ==
  /\ run[w].pc = "check"
  /\ Goto(w, IF RunIsCurrent(w) THEN "write" ELSE "mark")
  /\ UNCHANGED <<doc, job, data, trouble>>

StageFails(w) ==
  /\ Disturb("fail")
  /\ run[w].pc \in {"check", "write"}
  /\ Goto(w, "fail")
  /\ UNCHANGED <<doc, job, data>>

(* The write goes through unless it updates or refers to rows deleted since
   the stage loaded them.  Deleting the rows other runs work from, it leaves
   those gone; chunks take their entities with them (ON DELETE CASCADE).    *)
Deletes(s) ==
  CASE s = "extract" -> {"ocr"}
    [] s = "chunk" -> {"entities", "embed"}
    [] OTHER -> {}

AfterWrite(w, deleted) ==
  run' = [v \in Workers |->
            IF v = w THEN [run[w] EXCEPT !.pc = "mark", !.seen = NoPages]
            ELSE IF run[v].stage \in deleted
                 THEN [run[v] EXCEPT !.gone = run[v].pc \in {"check", "write"}]
                 ELSE run[v]]

Write(w) ==
  LET s == run[w].stage
      seen == run[w].seen
  IN
  /\ run[w].pc = "write"
  /\ ~run[w].gone
  /\ \/ s = "extract" /\ pages' = seen /\ UNCHANGED <<doc, chunks, vecs, ents>>
     \/ /\ s = "ocr" /\ pages' = [seen EXCEPT !.ocr = seen.ocr + 1]
        /\ UNCHANGED <<doc, chunks, vecs, ents>>
     \/ /\ s = "chunk" /\ chunks' = seen /\ vecs' = FALSE /\ ents' = FALSE
        /\ UNCHANGED <<doc, pages>>
     \/ s = "entities" /\ ents' = TRUE /\ UNCHANGED <<doc, pages, chunks, vecs>>
     \/ s = "embed" /\ vecs' = TRUE /\ UNCHANGED <<doc, pages, chunks, ents>>
     \/ s = "summarize" /\ UNCHANGED <<doc, data>>
     \/ s = "finalize" /\ doc' = [doc EXCEPT !.status = "ready"] /\ UNCHANGED data
  /\ AfterWrite(w, Deletes(s))
  /\ UNCHANGED <<job, trouble>>

WriteFails(w) ==
  /\ run[w].pc = "write"
  /\ run[w].gone
  /\ Goto(w, "fail")
  /\ UNCHANGED <<doc, job, data, trouble>>

-----------------------------------------------------------------------------
(* Marking done and advancing *)

Background == {"summarize"}
Parallel == {"entities", "embed"}

(* mark_stage_done: every stage but a background one shows in the document. *)
StatusAfter(s) ==
  CASE s \in Background -> doc.status
    [] s = "finalize" -> "ready"
    [] OTHER -> "busy"

MarkDone(w) ==
  LET s == run[w].stage
  IN
  /\ run[w].pc = "mark"
  /\ IF RunIsCurrent(w)
     THEN /\ job' = [job EXCEPT ![s].status = "done"]
          /\ doc' = [doc EXCEPT !.status = StatusAfter(s)]
          /\ IF s = "finalize" THEN EndRun(w) ELSE Goto(w, "advance")
     ELSE EndRun(w) /\ UNCHANGED <<doc, job>>
  /\ UNCHANGED <<data, trouble>>

(* What advance_pipeline decides from one read of the document's jobs: skip OCR
   that is not needed; enqueue the first sequential stage that is not done, or
   wait for it; else the parallel stages that are neither done nor under way,
   and a background stage that has no row yet; else finalize.              *)
Completed(g) == {s \in Stages : Done(s, g)}
Waiting(g) == {s \in Stages : InFlight(s, g)}
Existing(g) == {s \in Stages : job[s].status # "absent" /\ job[s].gen = g}

SkipsOcr(g) ==
  ~NeedsOcr /\ "extract" \in Completed(g) /\ "ocr" \notin Completed(g) \cup Waiting(g)

Skipped(g) == IF SkipsOcr(g) THEN Completed(g) \cup {"ocr"} ELSE Completed(g)

FirstMissing(done) ==
  IF "extract" \notin done THEN {"extract"}
  ELSE IF "ocr" \notin done THEN {"ocr"}
  ELSE {"chunk"} \ done

FanOut(g) ==
  (Parallel \ (Completed(g) \cup Waiting(g))) \cup (Background \ Existing(g))

(* (Mutant: finalize waits for embed alone.)                               *)
EmbedGates(done) == "embed" \in done

FanIn(done) == Parallel \subseteq done

ToEnqueue(g) ==
  LET sequential == FirstMissing(Skipped(g))
  IN  IF sequential # {} THEN sequential \ Waiting(g)
      ELSE IF FanOut(g) # {} THEN FanOut(g)
      ELSE IF FanIn(Completed(g)) THEN {"finalize"} \ (Completed(g) \cup Waiting(g))
      ELSE {}

(* (Mutant: a stage run again after finalize leaves its own status.)       *)
NeverRestores(g) == FALSE

RestoresReady(g) ==
  /\ ToEnqueue(g) = {}
  /\ {"extract", "chunk", "finalize"} \cup Parallel \subseteq Skipped(g)
  /\ Waiting(g) \subseteq Background

(* (Mutant: skipping is a status of its own.)                              *)
SkippedAsStatus(g) == [status |-> "skipped", gen |-> g, owner |-> NoWorker]

(* _mark_skipped                                                           *)
SkippedJob(g) == [status |-> "done", gen |-> g, owner |-> NoWorker]

Advance(w) ==
  LET g == doc.gen
  IN
  /\ run[w].pc = "advance"
  /\ job' = IF SkipsOcr(g) THEN [job EXCEPT !["ocr"] = SkippedJob(g)] ELSE job
  /\ doc' = IF RestoresReady(g) THEN [doc EXCEPT !.status = "ready"]
            ELSE IF SkipsOcr(g) THEN [doc EXCEPT !.status = "busy"]
            ELSE doc
  /\ IF ToEnqueue(g) = {} THEN EndRun(w)
     ELSE run' = [run EXCEPT ![w].pc = "enqueue", ![w].todo = ToEnqueue(g)]
  /\ UNCHANGED <<data, trouble>>

(* enqueue_stage, in a session of its own: it reads the document's generation
   again, leaves a row alone that is queued or running at it, updates any other
   row, and inserts a missing one.                                         *)
Enqueue(s, g) == job' = [job EXCEPT ![s] = QueuedJob(g)]

StatusEnqueued(s) ==
  doc' = [doc EXCEPT !.status = IF s \in Background THEN doc.status ELSE "busy"]

Enqueued(w, s) ==
  LET rest == run[w].todo \ {s}
  IN  IF rest = {} THEN EndRun(w)
      ELSE run' = [run EXCEPT ![w].pc = "enqueue", ![w].todo = rest]

(* The stages to run in parallel come before the background ones.          *)
NextToEnqueue(w, s) ==
  /\ run[w].pc = "enqueue"
  /\ s \in run[w].todo
  /\ s \in Background => run[w].todo \subseteq Background

EnqueueStage(w, s) ==
  /\ NextToEnqueue(w, s)
  /\ IF InFlight(s, doc.gen) THEN UNCHANGED <<doc, job>>
     ELSE Enqueue(s, doc.gen) /\ StatusEnqueued(s)
  /\ Enqueued(w, s)
  /\ UNCHANGED <<data, trouble>>

(* Another session may run between the read that finds no row and the insert:
   one that inserts the row first makes the insert break the unique key (doc_id,
   stage), and the exception reaches execute_job, which records a failure of the
   stage that was just marked done.                                        *)
FindMissing(w, s) ==
  /\ Disturb("race")
  /\ NextToEnqueue(w, s)
  /\ job[s].status = "absent"
  /\ run' = [run EXCEPT ![w].pc = "insert", ![w].ins = s, ![w].insGen = doc.gen]
  /\ UNCHANGED <<doc, job, data>>

InsertJob(w) ==
  LET s == run[w].ins
  IN
  /\ run[w].pc = "insert"
  /\ IF job[s].status = "absent"
     THEN Enqueue(s, run[w].insGen) /\ StatusEnqueued(s) /\ Enqueued(w, s)
     ELSE Goto(w, "fail") /\ UNCHANGED <<doc, job>>
  /\ UNCHANGED <<data, trouble>>

(* _record_job_failure: not over a cancel, nor on a newer claim's row; a
   background stage's failure leaves the document alone.                   *)
OwnRow(w) ==
  job[run[w].stage].gen = run[w].gen /\ job[run[w].stage].status # "absent"

(* (Mutant: the claim is not compared.)                                    *)
KeepsCancel(w) == OwnRow(w) /\ job[run[w].stage].status = "error"

KeepsRow(w) ==
  OwnRow(w) /\ (job[run[w].stage].status = "error" \/ job[run[w].stage].owner # w)

RecordFailure(w) ==
  LET s == run[w].stage
  IN
  /\ run[w].pc = "fail"
  /\ job' = IF OwnRow(w) /\ ~KeepsRow(w)
            THEN [job EXCEPT ![s].status = "error"] ELSE job
  /\ doc' = IF ~KeepsRow(w) /\ doc.gen = run[w].gen /\ s \notin Background
            THEN [doc EXCEPT !.status = "failed"] ELSE doc
  /\ EndRun(w)
  /\ UNCHANGED <<data, trouble>>

-----------------------------------------------------------------------------
(* Shutdowns, crashes and the reaper *)

(* (Mutant: the claim's fields are cleared but the job still reads running.) *)
StillRunning(s) == job' = [job EXCEPT ![s].owner = NoWorker]

Requeue(s) == job' = [job EXCEPT ![s] = QueuedJob(job[s].gen)]

(* The shutdown deadline abandons a stage and hands its job back.  OCR holds
   the alarm off from its commit to mark_stage_done.                       *)
Shutdown(w) ==
  LET s == run[w].stage
  IN
  /\ Disturb("shutdown")
  /\ \/ run[w].pc \in {"start", "check", "write"}
     \/ run[w].pc = "mark" /\ s # "ocr"
  /\ IF OwnRow(w) /\ job[s].owner = w /\ job[s].status = "running"
     THEN Requeue(s) ELSE UNCHANGED job
  /\ EndRun(w)
  /\ UNCHANGED <<doc, data>>

Crash(w) ==
  /\ Disturb("crash")
  /\ run[w].pc # "idle"
  /\ EndRun(w)
  /\ UNCHANGED <<doc, job, data>>

Abandoned(s) ==
  ~\E w \in Workers : /\ run[w].pc # "idle" /\ run[w].stage = s
                      /\ job[s].owner = w /\ job[s].gen = run[w].gen

(* requeue_orphaned_jobs, of a dead worker's job; a live one's, when its
   heartbeats stopped for 90 s, is a disturbance.                          *)
Orphaned(s) == job[s].status = "running" /\ job[s].gen = doc.gen

ReapDead(s) ==
  /\ Orphaned(s)
  /\ Abandoned(s)
  /\ Requeue(s)
  /\ UNCHANGED <<doc, data, run, trouble>>

ReapLive(s) ==
  /\ Disturb("lapse")
  /\ Orphaned(s)
  /\ ~Abandoned(s)
  /\ Requeue(s)
  /\ UNCHANGED <<doc, data, run>>

-----------------------------------------------------------------------------
(* Clients *)

(* cancel_doc_jobs *)
Cancel ==
  /\ Disturb("cancel")
  /\ job' = [s \in Stages |-> IF job[s].status \in {"queued", "running"}
                              THEN [job[s] EXCEPT !.status = "error"] ELSE job[s]]
  /\ doc' = IF doc.status = "busy" THEN [doc EXCEPT !.status = "cancelled"] ELSE doc
  /\ UNCHANGED <<data, run>>

(* A new generation: every job but extract's goes, extract is queued again. *)
NewGeneration ==
  /\ doc' = [gen |-> doc.gen + 1, status |-> "busy"]
  /\ job' = [s \in Stages |-> IF s = "extract" THEN QueuedJob(doc.gen + 1) ELSE NoJob]

(* reset_and_queue_extract_for_doc keeps what the old generation produced. *)
Reprocess ==
  /\ Disturb("reprocess")
  /\ NewGeneration
  /\ UNCHANGED <<data, run>>

(* The watcher's _reprocess_doc deletes it.                                *)
Refresh ==
  /\ Disturb("refresh")
  /\ NewGeneration
  /\ pages' = NoPages /\ chunks' = NoPages /\ vecs' = FALSE /\ ents' = FALSE
  /\ run' = [w \in Workers |->
               [run[w] EXCEPT !.gone = run[w].gone
                  \/ /\ run[w].pc \in {"check", "write"}
                     /\ run[w].stage \in {"ocr", "entities", "embed"}]]

(* POST /docs/{id}/resummarize                                             *)
Resummarize ==
  /\ Disturb("resummarize")
  /\ ~InFlight("summarize", doc.gen)
  /\ Enqueue("summarize", doc.gen)
  /\ UNCHANGED <<doc, data, run>>

-----------------------------------------------------------------------------

RunStep(w) ==
  \/ Start(w) \/ Check(w) \/ Write(w) \/ WriteFails(w) \/ MarkDone(w)
  \/ Advance(w) \/ InsertJob(w) \/ RecordFailure(w)
  \/ \E s \in Stages : EnqueueStage(w, s)

Next ==
  \/ \E w \in Workers :
       RunStep(w) \/ StageFails(w) \/ Shutdown(w) \/ Crash(w)
  \/ \E w \in Workers, s \in Stages : Claim(w, s) \/ FindMissing(w, s)
  \/ \E s \in Stages : ReapDead(s) \/ ReapLive(s)
  \/ Cancel \/ Reprocess \/ Refresh \/ Resummarize

(* A worker works for as long as it lives, claims what its queue holds, and the
   reaper runs every five minutes.                                         *)
Fairness ==
  /\ \A w \in Workers : WF_vars(RunStep(w))
  /\ \A s \in Stages : WF_vars(\E w \in Workers : Claim(w, s))
  /\ \A s \in Stages : WF_vars(ReapDead(s))

Spec == Init /\ [][Next]_vars /\ Fairness

-----------------------------------------------------------------------------
(* Properties *)

TypeOK ==
  /\ doc \in [gen: Nat, status: DocStatus]
  /\ job \in [Stages -> Job]
  /\ pages \in Pages
  /\ chunks \in Pages
  /\ vecs \in BOOLEAN
  /\ ents \in BOOLEAN
  /\ run \in [Workers -> Run]
  /\ trouble \in Nat

(* A document that reads ready is searchable as the file is now: its pages are
   of the current generation, OCR'd once if they need it, and every chunk was
   cut from them and has its entities and its embedding.                   *)
ReadyIsWhole ==
  doc.status = "ready" =>
    /\ pages = [gen |-> doc.gen, ocr |-> IF NeedsOcr THEN 1 ELSE 0]
    /\ chunks = pages
    /\ vecs /\ ents

(* A stage done at the current generation has produced what it is for, and one
   under way at it has the products it works from: the pages of that generation,
   the chunks cut from those, their entities and embeddings.               *)
Product(s) ==
  CASE s = "extract" -> pages.gen = doc.gen
    [] s = "ocr" -> NeedsOcr => pages.ocr > 0
    [] s = "chunk" -> chunks.gen = doc.gen /\ (NeedsOcr => chunks.ocr > 0)
    [] s = "entities" -> ents
    [] s = "embed" -> vecs
    [] OTHER -> TRUE

Needs(s) ==
  CASE s = "extract" -> {}
    [] s = "ocr" -> {"extract"}
    [] s = "chunk" -> {"extract", "ocr"}
    [] s \in {"entities", "embed", "summarize"} -> {"chunk"}
    [] s = "finalize" -> {"entities", "embed"}

StagesInOrder ==
  \A s \in Stages :
    /\ Done(s, doc.gen) => Product(s)
    /\ InFlight(s, doc.gen) => \A t \in Needs(s) : Product(t)

(* A pipeline under way ends ready, failed or cancelled.                   *)
PipelineSettles == doc.status = "busy" ~> doc.status # "busy"

(* A document fails only by a run that failed while it held the claim of its
   stage at the document's generation.                                     *)
NoSpuriousFailure ==
  [][(doc.status # "failed" /\ doc'.status = "failed")
       => \E w \in Workers :
            /\ run[w].pc = "fail" /\ run[w].gen = doc.gen
            /\ job[run[w].stage].status = "running"
            /\ job[run[w].stage].owner = w]_vars

=============================================================================
