------------------------------ MODULE ClaimedJob ------------------------------
(***************************************************************************)
(* One row of ingestion_jobs (a document's job for one stage), the worker  *)
(* runs that claim it and the API or worker sessions that re-enqueue,      *)
(* cancel or reap it.  worker/entry.py, worker/pipeline.py.                *)
(*                                                                         *)
(* Most of the code reads the row in one statement and writes it at a      *)
(* later commit with no lock in between, and the ORM's UPDATE names only   *)
(* the columns whose value differs from the one loaded (Flush).  Those     *)
(* reads and commits are separate actions.  Where the code locks the row   *)
(* (SELECT ... FOR UPDATE) or uses one conditional UPDATE, the action is   *)
(* atomic.                                                                 *)
(***************************************************************************)
EXTENDS Naturals

CONSTANTS
  Workers,      (* worker processes that serve the stage's queue           *)
  Sessions,     (* concurrent sessions that enqueue, cancel or reap        *)
  Stage,        (* the row's stage: "extract", "embed" or "summarize"      *)
  MaxAttempts,  (* EMBED_RETRY_MAX_ATTEMPTS or AFM_RETRY_MAX_ATTEMPTS      *)
  Batches,      (* embedding batches the document has                      *)
  Troubles,     (* which disturbances the environment may inject           *)
  MaxTrouble    (* how many of them: the bound of every run                *)

TroubleKinds ==
  {"crash", "lapse", "cancel", "enqueue", "bump", "shutdown"}

ASSUME ParamAssumption ==
  /\ Stage \in {"extract", "embed", "summarize"}
  /\ MaxAttempts \in Nat \ {0}
  /\ Batches \in Nat
  /\ Troubles \subseteq TroubleKinds
  /\ MaxTrouble \in Nat

VARIABLES
  docGen,   (* documents.pipeline_seq                                      *)
  row,      (* the ingestion_jobs row                                      *)
  left,     (* batches of chunks that still have no embedding              *)
  run,      (* per worker: the run it executes                             *)
  sess,     (* per session: what it is doing and the row as it read it     *)
  claims,   (* claims made so far: the next started_at is claims + 1       *)
  trouble,  (* disturbances so far                                         *)
  era,      (* history: how often the row was queued or claimed; a new row
               takes it as its job_id                                      *)
  outages   (* history: embedder outages recorded in this enqueue cycle    *)

history == <<era, outages>>
vars == <<docGen, row, left, run, sess, claims, trouble, era, outages>>

-----------------------------------------------------------------------------
(* The row.  id is job_id, claim is started_at (0 is NULL), hb counts
   heartbeats, stale says the last one is at least ORPHAN_HEARTBEAT_SECONDS
   old, attempts, wait and progress are metrics.retry_attempts, "retry_after is
   in the future" and progress_current > 0.                                *)
Status == {"absent", "queued", "running", "done", "error"}

Row == [status: Status, id: Nat, gen: Nat, claim: Nat, hb: Nat,
        stale: BOOLEAN, attempts: Nat, wait: BOOLEAN, progress: BOOLEAN]

NoRow == [status |-> "absent", id |-> 0, gen |-> 0, claim |-> 0, hb |-> 0,
          stale |-> FALSE, attempts |-> 0, wait |-> FALSE, progress |-> FALSE]

NewRow(id, g) == [NoRow EXCEPT !.status = "queued", !.id = id, !.gen = g]

(* A commit of the ORM: the columns that differ from the loaded ones are
   written, the others keep whatever the row holds by now.  attempts and wait
   live in one column (metrics).                                           *)
Changed(loaded, new, current) == IF new # loaded THEN new ELSE current

SameMetrics(r, q) == r.attempts = q.attempts /\ r.wait = q.wait

Flush(loaded, new) ==
  [status   |-> Changed(loaded.status, new.status, row.status),
   id       |-> row.id,
   gen      |-> Changed(loaded.gen, new.gen, row.gen),
   claim    |-> Changed(loaded.claim, new.claim, row.claim),
   hb       |-> Changed(loaded.hb, new.hb, row.hb),
   stale    |-> Changed(loaded.stale, new.stale, row.stale),
   attempts |-> IF SameMetrics(loaded, new) THEN row.attempts ELSE new.attempts,
   wait     |-> IF SameMetrics(loaded, new) THEN row.wait ELSE new.wait,
   progress |-> Changed(loaded.progress, new.progress, row.progress)]

(* UPDATE ... WHERE job_id = the loaded one matches no row (StaleDataError). *)
Vanished(loaded) == row.status = "absent" \/ row.id # loaded.id

PC == {"idle", "start", "work", "write", "mark", "markCommit",
       "fail", "failCommit", "defer", "deferCommit", "requeue"}

(* A run: the generation and claim it was given, the batches it still has to
   embed, and the row as it last read it for a commit.                     *)
Run == [pc: PC, gen: Nat, claim: Nat, todo: Nat, seen: Row,
        era: Nat, sound: BOOLEAN]

Idle == [pc |-> "idle", gen |-> 0, claim |-> 0, todo |-> 0, seen |-> NoRow,
         era |-> 0, sound |-> TRUE]

Session == [pc: {"idle", "enqueue", "cancel", "reap"}, gen: Nat, seen: Row]

NoSession == [pc |-> "idle", gen |-> 0, seen |-> NoRow]

Init ==
  /\ docGen = 1
  /\ row = NewRow(1, 1)
  /\ left = IF Stage = "embed" THEN Batches ELSE 0
  /\ run = [w \in Workers |-> Idle]
  /\ sess = [s \in Sessions |-> NoSession]
  /\ claims = 0
  /\ trouble = 0
  /\ era = 1
  /\ outages = 0

Disturb(kind) ==
  /\ kind \in Troubles
  /\ trouble < MaxTrouble
  /\ trouble' = trouble + 1

Goto(w, pc) == run' = [run EXCEPT ![w].pc = pc]

EndRun(w) == run' = [run EXCEPT ![w] = Idle]

(* What a run keeps of a read it will commit on: the row, and (history)
   whether the row was still this run's when it looked.                    *)
Loaded(w, pc) ==
  run' = [run EXCEPT ![w].pc = pc, ![w].seen = row,
                     ![w].sound = (run[w].era = era)]

-----------------------------------------------------------------------------
(* Claiming and running *)

(* claim_next_job: SELECT ... FOR UPDATE SKIP LOCKED of a queued row at the
   document's generation whose retry_after has passed, committed as running
   with a started_at that identifies the claim.                            *)
Claimable == row.status = "queued" /\ row.gen = docGen /\ ~row.wait

(* started_at.  (Mutant: the generation identifies the claim.)             *)
GenerationAsClaim == docGen

ThisClaim == claims + 1

Claim(w) ==
  /\ run[w].pc = "idle"
  /\ Claimable
  /\ claims' = claims + 1
  /\ era' = era + 1
  /\ row' = [row EXCEPT !.status = "running", !.claim = ThisClaim,
                        !.hb = 1, !.stale = FALSE]
  /\ run' = [run EXCEPT ![w] = [Idle EXCEPT !.pc = "start", !.gen = row.gen,
                                            !.claim = ThisClaim,
                                            !.era = era + 1]]
  /\ UNCHANGED <<docGen, left, sess, trouble, outages>>

(* _heartbeat_loop: renews the heartbeat while the row is at this run's
   generation and still carries its claim.  Only a late heartbeat changes
   anything here.  (Mutant: the claim is not compared.)                    *)
OwnGeneration(w) == row.status # "absent" /\ row.gen = run[w].gen

OwnClaim(w) == row.status # "absent" /\ row.gen = run[w].gen
               /\ row.claim = run[w].claim

Heartbeat(w) ==
  /\ run[w].pc # "idle"
  /\ OwnClaim(w)
  /\ row.stale
  /\ row' = [row EXCEPT !.hb = row.hb + 1, !.stale = FALSE]
  /\ UNCHANGED <<docGen, left, run, sess, claims, trouble, history>>

(* The checks of mark_stage_running, and stage_run_is_current's, which adds
   the claim.                                                              *)
Wanted(w) ==
  /\ docGen = run[w].gen
  /\ row.status \notin {"absent", "error"}
  /\ row.gen = run[w].gen

RunIsCurrent(w) == Wanted(w) /\ row.claim = run[w].claim

Start(w) ==
  /\ run[w].pc = "start"
  /\ IF Wanted(w)
     THEN run' = [run EXCEPT ![w].pc = "work", ![w].todo = left,
                             ![w].seen = IF Stage = "embed" THEN row ELSE NoRow]
     ELSE EndRun(w)
  /\ UNCHANGED <<docGen, row, left, sess, claims, trouble, history>>

(* The stage body up to its race check: it may raise (a failure, the stage
   timeout), the embedder or Apple Intelligence may be unavailable, or it has
   something to write.  A run that is no longer current falls through to
   mark_stage_done.                                                        *)
CanDefer(w) == Stage = "summarize" \/ (Stage = "embed" /\ run[w].todo > 0)

Work(w) ==
  /\ run[w].pc = "work"
  /\ \/ Goto(w, IF run[w].todo > 0 /\ RunIsCurrent(w) THEN "write" ELSE "mark")
     \/ Goto(w, "fail")
     \/ CanDefer(w) /\ Goto(w, "defer")
  /\ UNCHANGED <<docGen, row, left, sess, claims, trouble, history>>

(* The chunks without a vector are a suffix, so the run that is further behind
   changes nothing.  (CountedDown, a mutant, keeps a counter instead.)     *)
CountedDown(todo) == left - 1

LeftAfter(todo) == IF todo <= left THEN todo - 1 ELSE left

(* run_embed commits one batch: its vectors, and progress_current of the job
   it loaded, by primary key.                                              *)
StoreBatch(w) ==
  /\ run[w].pc = "write"
  /\ IF Vanished(run[w].seen)
     THEN Goto(w, "fail") /\ UNCHANGED <<row, left>>
     ELSE /\ row' = [row EXCEPT !.progress = TRUE]
          /\ left' = LeftAfter(run[w].todo)
          /\ run' = [run EXCEPT ![w].pc = "work", ![w].todo = run[w].todo - 1]
  /\ UNCHANGED <<docGen, sess, claims, trouble, era, outages>>

-----------------------------------------------------------------------------
(* Recording the outcome of a run *)

(* _mark_stage_done: declines unless the run is still current, else reads and
   later commits done, finished and without the deferrals' metrics.        *)
MarkRead(w) ==
  /\ run[w].pc = "mark"
  /\ IF RunIsCurrent(w) THEN Loaded(w, "markCommit") ELSE EndRun(w)
  /\ UNCHANGED <<docGen, row, left, sess, claims, trouble, history>>

Finished(seen) ==
  [seen EXCEPT !.status = "done",
               !.attempts = IF Stage = "extract" THEN seen.attempts ELSE 0,
               !.wait = IF Stage = "extract" THEN seen.wait ELSE FALSE]

MarkCommit(w) ==
  /\ run[w].pc = "markCommit"
  /\ IF Vanished(run[w].seen)
     THEN Goto(w, "fail") /\ UNCHANGED row
     ELSE row' = Flush(run[w].seen, Finished(run[w].seen)) /\ EndRun(w)
  /\ UNCHANGED <<docGen, left, sess, claims, trouble, history>>

(* _record_job_failure: keeps a cancel a cancel and leaves a newer claim's row
   alone; a row of another generation is not written.                      *)
FailRead(w) ==
  /\ run[w].pc = "fail"
  /\ IF OwnClaim(w) /\ row.status # "error"
     THEN Loaded(w, "failCommit") ELSE EndRun(w)
  /\ UNCHANGED <<docGen, row, left, sess, claims, trouble, history>>

Failed(seen) ==
  [seen EXCEPT !.status = "error",
               !.attempts = IF Stage = "summarize" THEN 0 ELSE seen.attempts,
               !.wait = IF Stage = "summarize" THEN FALSE ELSE seen.wait]

FailCommit(w) ==
  /\ run[w].pc = "failCommit"
  /\ row' = IF Vanished(run[w].seen) THEN row
            ELSE Flush(run[w].seen, Failed(run[w].seen))
  /\ EndRun(w)
  /\ UNCHANGED <<docGen, left, sess, claims, trouble, history>>

(* The next attempt count of a deferral, and the row it leaves: back in the
   queue with a retry_after, or error once the budget is spent.            *)
Attempts(seen) ==
  IF Stage = "embed" /\ seen.progress THEN 1 ELSE seen.attempts + 1

Deferred(seen) ==
  IF Attempts(seen) >= MaxAttempts
  THEN [seen EXCEPT !.status = "error", !.attempts = Attempts(seen),
                    !.wait = FALSE, !.hb = 0]
  ELSE [seen EXCEPT !.status = "queued", !.attempts = Attempts(seen),
                    !.wait = TRUE, !.claim = 0, !.hb = 0, !.stale = FALSE,
                    !.progress = FALSE]

(* _record_embed_unavailable_job holds the row FOR UPDATE from its checks to
   its commit.                                                             *)
DeferEmbed(w) ==
  /\ Stage = "embed"
  /\ run[w].pc = "defer"
  /\ IF OwnClaim(w) /\ row.status # "error"
     THEN row' = Deferred(row) /\ era' = era + 1 /\ outages' = outages + 1
     ELSE UNCHANGED <<row, history>>
  /\ EndRun(w)
  /\ UNCHANGED <<docGen, left, sess, claims, trouble>>

(* _record_afm_unavailable_job makes the same checks without a lock.       *)
DeferSummaryRead(w) ==
  /\ Stage = "summarize"
  /\ run[w].pc = "defer"
  /\ IF OwnClaim(w) /\ row.status # "error"
     THEN Loaded(w, "deferCommit") ELSE EndRun(w)
  /\ UNCHANGED <<docGen, row, left, sess, claims, trouble, history>>

DeferSummaryCommit(w) ==
  /\ Stage = "summarize"
  /\ run[w].pc = "deferCommit"
  /\ IF Vanished(run[w].seen) THEN UNCHANGED <<row, history>>
     ELSE /\ row' = Flush(run[w].seen, Deferred(run[w].seen))
          /\ era' = era + 1
          /\ outages' = outages + 1
  /\ EndRun(w)
  /\ UNCHANGED <<docGen, left, sess, claims, trouble>>

(* SIGTERM while the stage runs: the deadline abandons it, _handle_signal and
   execute_job's handler.  The requeue itself is one locked transaction.   *)
ShutdownDeadline(w) ==
  /\ Disturb("shutdown")
  /\ run[w].pc \in {"start", "work", "write"}
  /\ Goto(w, "requeue")
  /\ UNCHANGED <<docGen, row, left, sess, claims, history>>

(* without_embed_retry_schedule: an embed loses its schedule and keeps its
   attempts, any other stage keeps its metrics.  (Mutant: a requeue counts as
   an attempt.)                                                            *)
CountedRequeue(r) ==
  [r EXCEPT !.status = "queued", !.claim = 0, !.hb = 0, !.stale = FALSE,
            !.progress = FALSE, !.attempts = r.attempts + 1,
            !.wait = IF Stage = "embed" THEN FALSE ELSE r.wait]

Requeued(r) ==
  [r EXCEPT !.status = "queued", !.claim = 0, !.hb = 0, !.stale = FALSE,
            !.progress = FALSE,
            !.wait = IF Stage = "embed" THEN FALSE ELSE r.wait]

RequeueAfterShutdown(w) ==
  /\ run[w].pc = "requeue"
  /\ IF OwnClaim(w) /\ row.status = "running"
     THEN row' = Requeued(row) /\ era' = era + 1
     ELSE UNCHANGED <<row, era>>
  /\ EndRun(w)
  /\ UNCHANGED <<docGen, left, sess, claims, trouble, outages>>

(* SIGKILL, a power cut, an exception out of the bookkeeping: the run is gone
   and the row says running until a reaper notices.                        *)
Crash(w) ==
  /\ Disturb("crash")
  /\ run[w].pc # "idle"
  /\ EndRun(w)
  /\ UNCHANGED <<docGen, row, left, sess, claims, history>>

-----------------------------------------------------------------------------
(* Time *)

(* 90 s without a heartbeat: in time always for a worker that is gone, and a
   disturbance for a live one (a stalled host, a database that refused its
   heartbeats).                                                            *)
HasLiveRun == \E w \in Workers : run[w].pc # "idle" /\ run[w].claim = row.claim

Silence ==
  /\ row.status = "running"
  /\ ~row.stale
  /\ row' = [row EXCEPT !.stale = TRUE]
  /\ UNCHANGED <<docGen, left, run, sess, claims, history>>

DeadSilence == ~HasLiveRun /\ Silence /\ UNCHANGED trouble

Lapse == HasLiveRun /\ Silence /\ Disturb("lapse")

RetryDue ==
  /\ row.wait
  /\ row' = [row EXCEPT !.wait = FALSE]
  /\ UNCHANGED <<docGen, left, run, sess, claims, trouble, history>>

-----------------------------------------------------------------------------
(* Sessions: re-enqueue, cancel, reap *)

Open(s, pc) ==
  /\ sess[s].pc = "idle"
  /\ sess' = [sess EXCEPT ![s] = [pc |-> pc, gen |-> docGen, seen |-> row]]

Close(s) == sess' = [sess EXCEPT ![s] = NoSession]

(* enqueue_stage reads the document and the row, and leaves a row alone that
   is queued or running at the current generation.                         *)
InFlight(r, g) == r.status \in {"queued", "running"} /\ r.gen = g

EnqueueRead(s) ==
  /\ Disturb("enqueue")
  /\ ~InFlight(row, docGen)
  /\ Open(s, "enqueue")
  /\ UNCHANGED <<docGen, row, left, run, claims, history>>

Enqueued(seen, g) ==
  [seen EXCEPT !.status = "queued", !.gen = g, !.claim = 0, !.hb = 0,
               !.stale = FALSE, !.progress = FALSE,
               !.attempts = IF Stage = "embed" THEN 0 ELSE seen.attempts,
               !.wait = IF Stage = "embed" THEN FALSE ELSE seen.wait]

EnqueueCommit(s) ==
  LET seen == sess[s].seen
  IN
  /\ sess[s].pc = "enqueue"
  /\ \/ /\ seen.status = "absent" /\ row.status = "absent"
        /\ row' = NewRow(era + 1, sess[s].gen)
        /\ era' = era + 1 /\ outages' = 0
     \/ /\ seen.status # "absent" /\ ~Vanished(seen)
        /\ row' = Flush(seen, Enqueued(seen, sess[s].gen))
        /\ era' = era + 1 /\ outages' = 0
     \/ \* the insert meets the unique key, or the update matches no row
        /\ IF seen.status = "absent" THEN row.status # "absent" ELSE Vanished(seen)
        /\ UNCHANGED <<row, history>>
  /\ Close(s)
  /\ UNCHANGED <<docGen, left, run, claims, trouble>>

(* cancel_doc_jobs and /system/clear-queue: read the queued and running rows,
   later commit error on them.                                             *)
CancelRead(s) ==
  /\ Disturb("cancel")
  /\ row.status \in {"queued", "running"}
  /\ Open(s, "cancel")
  /\ UNCHANGED <<docGen, row, left, run, claims, history>>

Cancelled(seen) == [seen EXCEPT !.status = "error"]

CancelCommit(s) ==
  /\ sess[s].pc = "cancel"
  /\ row' = IF Vanished(sess[s].seen) THEN row
            ELSE Flush(sess[s].seen, Cancelled(sess[s].seen))
  /\ Close(s)
  /\ UNCHANGED <<docGen, left, run, claims, trouble, history>>

(* requeue_orphaned_jobs reads the running rows of the current generation
   whose heartbeat lapsed; requeue_orphan_job then updates the row only if it
   still is running with the claim and heartbeat as read.  (Mutants: with the
   status alone; the heartbeats compared the wrong way round.)             *)
ReapRead(s) ==
  /\ row.status = "running" /\ row.gen = docGen /\ row.stale
  /\ Open(s, "reap")
  /\ UNCHANGED <<docGen, row, left, run, claims, trouble, history>>

StillRunning(seen) == row.status = "running" /\ row.id = seen.id

HeardSince(seen) == StillRunning(seen) /\ row.stale /\ row.hb # seen.hb

AsRead(seen) ==
  /\ row.status = "running"
  /\ row.id = seen.id
  /\ row.claim = seen.claim
  /\ row.hb = seen.hb

Reap(s) ==
  LET seen == sess[s].seen
  IN
  /\ sess[s].pc = "reap"
  /\ IF AsRead(seen)
     THEN /\ row' = [Requeued(row) EXCEPT
                       !.attempts = seen.attempts,
                       !.wait = Requeued(seen).wait]
          /\ era' = era + 1
     ELSE UNCHANGED <<row, era>>
  /\ Close(s)
  /\ UNCHANGED <<docGen, left, run, claims, trouble, outages>>

(* A generation bump: extract's row is put back in the queue at the new
   generation, in place (reset_and_queue_extract_for_doc) or as a new row
   (_reprocess_doc); every other stage's is deleted.  By the time the stage is
   enqueued again its chunks are new.                                      *)
Bump ==
  /\ Disturb("bump")
  /\ docGen' = docGen + 1
  /\ IF Stage = "extract"
     THEN \E id \in {row.id, era + 1} : row' = NewRow(id, docGen + 1)
     ELSE row' = NoRow
  /\ left' = IF Stage = "embed" THEN Batches ELSE 0
  /\ era' = era + 1
  /\ outages' = 0

  /\ UNCHANGED <<run, sess, claims>>

-----------------------------------------------------------------------------

RunStep(w) ==
  \/ Start(w) \/ Work(w) \/ StoreBatch(w)
  \/ MarkRead(w) \/ MarkCommit(w) \/ FailRead(w) \/ FailCommit(w)
  \/ DeferEmbed(w) \/ DeferSummaryRead(w) \/ DeferSummaryCommit(w)
  \/ RequeueAfterShutdown(w)

SessionCommit(s) == EnqueueCommit(s) \/ CancelCommit(s) \/ Reap(s)

Next ==
  \/ \E w \in Workers :
       Claim(w) \/ Heartbeat(w) \/ RunStep(w) \/ ShutdownDeadline(w) \/ Crash(w)
  \/ \E s \in Sessions :
       EnqueueRead(s) \/ CancelRead(s) \/ ReapRead(s) \/ SessionCommit(s)
  \/ DeadSilence \/ Lapse \/ RetryDue \/ Bump

(* A worker loops for as long as it lives, a stage ends by its alarm, time
   passes, the reaper runs every five minutes and sessions commit.         *)
Fairness ==
  /\ WF_vars(\E w \in Workers : Claim(w))
  /\ \A w \in Workers : WF_vars(RunStep(w))
  /\ \A s \in Sessions : WF_vars(SessionCommit(s))
  /\ WF_vars(\E s \in Sessions : ReapRead(s))
  /\ WF_vars(DeadSilence)
  /\ WF_vars(RetryDue)

Spec == Init /\ [][Next]_vars /\ Fairness

-----------------------------------------------------------------------------
(* Properties *)

TypeOK ==
  /\ docGen \in Nat
  /\ row \in Row
  /\ left \in 0..Batches
  /\ run \in [Workers -> Run]
  /\ sess \in [Sessions -> Session]
  /\ claims \in Nat
  /\ trouble \in Nat
  /\ era \in Nat
  /\ outages \in Nat

(* Every claim is one run's: two runs that are both under way never carry the
   same started_at, so at most one of them can find the row its own.       *)
OneRunPerClaim ==
  \A v, w \in Workers :
    (v # w /\ run[v].pc # "idle" /\ run[w].pc # "idle")
      => run[v].claim # run[w].claim

(* A run about to commit an outcome had not been re-enqueued, requeued or
   re-claimed when it read the row: the claim check sees every supersession
   that happened before it.                                                *)
LooksBeforeItWrites ==
  \A w \in Workers :
    run[w].pc \in {"markCommit", "failCommit", "deferCommit"} => run[w].sound

(* The reaper takes a row only from a run whose heartbeat is still overdue:
   a heartbeat between its read and its write saves the run.               *)
ReaperSparesLiveRuns ==
  [][\A s \in Sessions :
       (sess[s].pc = "reap" /\ sess'[s].pc = "idle" /\ row' # row)
         => row.stale /\ row.status = "running"]_vars

(* The embed retry budget is not spent by anything but outages: an embed that
   gave up met at least MaxAttempts of them since it was enqueued, whatever
   reaps, shutdowns and crashes came in between.                           *)
BudgetCountsOutages == row.attempts <= outages

(* A job at the current generation does not stay queued or running: it ends
   done or error, or its generation is superseded.                         *)
EveryJobSettles ==
  (row.status \in {"queued", "running"} /\ row.gen = docGen)
    ~> (row.status \notin {"queued", "running"} \/ row.gen # docGen)

(* The row is a lease, as JobLease says: running only by a claim that names it
   afresh, done only by a run that found its own claim on the row first.   *)
HeldClaims ==
  [w \in Workers |-> IF run[w].pc = "idle" THEN 0 ELSE run[w].claim]

AboutToCommit ==
  [w \in Workers |-> IF run[w].pc \in {"markCommit", "failCommit", "deferCommit"}
                       THEN TRUE ELSE FALSE]

Lease == INSTANCE JobLease WITH
  status <- row.status, lease <- row.claim, issued <- claims,
  held <- HeldClaims, decided <- AboutToCommit

ImplementsLease == Lease!Spec

=============================================================================
