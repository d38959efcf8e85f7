--------------------------- MODULE WorkerShutdown ---------------------------
(***************************************************************************)
(* A worker process and its signals: main, execute_job and the handlers of *)
(* worker/entry.py, alarm_deferred and mark_stage_done of                  *)
(* worker/pipeline.py.                                                     *)
(*                                                                         *)
(* SIGALRM is one timer for two deadlines, the stage's and the shutdown's. *)
(* A signal is first noted (tripped); its Python handler runs some         *)
(* bytecodes later, in the main thread, wherever that is by then, and may  *)
(* raise there.  The main thread's steps are the statements that touch a   *)
(* flag, the timer or the job.                                             *)
(*                                                                         *)
(* Time is in seconds.  It passes only where the code waits, and a noted   *)
(* signal is handled within the second.                                    *)
(***************************************************************************)
EXTENDS Naturals

CONSTANTS
  Timeout,   (* STAGE_CONFIG: what a stage may take                        *)
  Grace,     (* SHUTDOWN_GRACE_SECONDS                                     *)
  Kill,      (* from SIGTERM to the supervisor's SIGKILL                   *)
  Slow       (* what the end of a job may take: marking it or recording    *)

ASSUME TimesAssumption ==
  /\ Timeout \in Nat \ {0}
  /\ Grace \in Nat \ {0}
  /\ Kill \in Nat
  /\ Slow \in Nat
  /\ Grace + Slow < Kill
  /\ Slow < Grace

VARIABLES
  pc,          (* where the main thread is                                 *)
  raised,      (* the exception execute_job is handling                    *)
  shutdown,    (* _shutdown                                                *)
  jobRunning,  (* _job_running                                             *)
  live,        (* _alarm_live                                              *)
  armed,       (* _shutdown_deadline_armed                                 *)
  depth,       (* _alarm_sections.depth                                    *)
  ocr,         (* the OCR stage has written its pages and holds the alarm   *)
  arming,      (* the SIGTERM handler is about to arm the deadline         *)
  alarm,       (* seconds left on the timer, 0 when it is off              *)
  tripped,     (* signals noted and not yet handled                        *)
  asked,       (* a SIGTERM or SIGINT was sent                             *)
  swallowed,   (* history: the stage caught its own TimeoutError           *)
  since,       (* seconds since                                            *)
  slow,        (* seconds the job's end has taken                          *)
  job,         (* the status of the job's row                              *)
  advanced     (* the pipeline was advanced after it                       *)

flags == <<shutdown, jobRunning, live, armed>>
section == <<depth, ocr>>
row == <<job, advanced>>
clock == <<since, slow>>
signals == <<arming, tripped, asked, swallowed>>
vars == <<pc, raised, flags, section, alarm, signals, clock, row>>

-----------------------------------------------------------------------------
Places ==
  {"loop", "claim", "wait", "install", "timer", "running", "check",
   "stage", "written", "marking", "advancing", "marked",
   "leaving", "disarm", "record", "cleanup", "restore",
   "exited", "killed", "crashed"}

Over == {"exited", "killed", "crashed"}

(* Inside the stage function, within execute_job's inner try.               *)
InStage == {"stage", "written", "marking", "advancing", "marked"}

Outside == {"loop", "claim", "wait"}

Init ==
  /\ pc = "loop"
  /\ raised = "none"
  /\ shutdown = FALSE
  /\ jobRunning = FALSE
  /\ live = FALSE
  /\ armed = FALSE
  /\ depth = 0
  /\ ocr = FALSE
  /\ arming = FALSE
  /\ alarm = 0
  /\ tripped = {}
  /\ asked = FALSE
  /\ swallowed = FALSE
  /\ since = 0
  /\ slow = 0
  /\ job = "none"
  /\ advanced = FALSE

(* The main thread is at p, and in no handler.                              *)
At(p) == pc = p /\ ~arming

-----------------------------------------------------------------------------
(* The main loop *)

TestsFlag ==
  /\ At("loop")
  /\ pc' = IF shutdown THEN "exited" ELSE "claim"
  /\ UNCHANGED <<raised, flags, section, alarm, signals, clock, row>>

Claims ==
  /\ At("claim")
  /\ IF job = "queued" THEN job' = "running" /\ pc' = "install"
                       ELSE pc' = "wait" /\ UNCHANGED job
  /\ slow' = 0
  /\ UNCHANGED <<raised, flags, section, alarm, signals, since, advanced>>

(* A NOTIFY, or 30 s; a signal alone does not end select().                *)
Wakes ==
  /\ At("wait")
  /\ pc' = "loop"
  /\ UNCHANGED <<raised, flags, section, alarm, signals, clock, row>>

-----------------------------------------------------------------------------
(* execute_job, up to the stage *)

GoesLive ==
  /\ At("install")
  /\ live' = TRUE
  /\ pc' = "timer"
  /\ UNCHANGED <<raised, shutdown, jobRunning, armed, section, alarm, signals,
                 clock, row>>

SetsTimer ==
  /\ At("timer")
  /\ alarm' = Timeout
  /\ pc' = "running"
  /\ UNCHANGED <<raised, flags, section, signals, clock, row>>

SetsRunning ==
  /\ At("running")
  /\ jobRunning' = TRUE
  /\ pc' = "check"
  /\ UNCHANGED <<raised, shutdown, live, armed, section, alarm, signals, clock,
                 row>>

(* _arm_shutdown_deadline: a stage timeout that is due sooner is left to fire.
   (Mutant: it is cancelled to be read, and not set again.)                *)
Forgotten == 0

Remaining == alarm

Arm ==
  IF alarm # 0 /\ alarm <= Grace
  THEN alarm' = Remaining /\ UNCHANGED armed
  ELSE alarm' = Grace /\ armed' = TRUE

(* SIGTERM came before a job was running.  (Mutant: nobody looks.)         *)
NobodyLooks == FALSE

CameEarly == shutdown

ChecksShutdown ==
  /\ At("check")
  /\ IF CameEarly THEN Arm ELSE UNCHANGED <<alarm, armed>>
  /\ pc' = "stage"
  /\ UNCHANGED <<raised, shutdown, jobRunning, live, section, signals, clock, row>>

-----------------------------------------------------------------------------
(* The stage *)

(* run_ocr holds the alarm from the commit of its pages on.                *)
WritesPages ==
  /\ At("stage")
  /\ ocr' = TRUE
  /\ depth' = depth + 1
  /\ pc' = "written"
  /\ UNCHANGED <<raised, flags, alarm, signals, clock, row>>

BeginsMarking ==
  /\ At("stage") \/ At("written")
  /\ depth' = depth + 1
  /\ pc' = "marking"
  /\ UNCHANGED <<raised, flags, ocr, alarm, signals, clock, row>>

(* alarm_deferred's finally.  (Mutant: it has none.)                       *)
Kept == depth

Released == depth - 1

(* A cancelled row is left alone, and the pipeline is not advanced.         *)
MarksDone ==
  /\ At("marking")
  /\ IF job = "running"
     THEN /\ job' = "done"
          /\ pc' = "advancing"
          /\ UNCHANGED depth
     ELSE /\ depth' = Released
          /\ pc' = "marked"
          /\ UNCHANGED job
  /\ UNCHANGED <<raised, flags, ocr, alarm, signals, clock, advanced>>

Advances ==
  /\ At("advancing")
  /\ advanced' = TRUE
  /\ depth' = Released
  /\ pc' = "marked"
  /\ UNCHANGED <<raised, flags, ocr, alarm, signals, clock, job>>

(* Leaving the stage function ends the sections it is in.                  *)
Sections ==
  (IF ocr THEN 1 ELSE 0) + (IF pc \in {"marking", "advancing"} THEN 1 ELSE 0)

LeavesStage ==
  /\ ocr' = FALSE
  /\ depth' = depth - Sections
  /\ pc' = "leaving"

Returns ==
  /\ At("marked")
  /\ LeavesStage
  /\ UNCHANGED <<raised, flags, alarm, signals, clock, row>>

(* advance_pipeline may raise as well, see race in IngestionPipeline.       *)
StageRaises ==
  /\ pc \in {"stage", "written", "marking"}
  /\ ~arming
  /\ raised' = "error"
  /\ LeavesStage
  /\ UNCHANGED <<flags, alarm, signals, clock, row>>

-----------------------------------------------------------------------------
(* execute_job, from the inner finally on *)

SetsInert ==
  /\ At("leaving")
  /\ live' = FALSE
  /\ pc' = "disarm"
  /\ UNCHANGED <<raised, shutdown, jobRunning, armed, section, alarm, signals,
                 clock, row>>

Disarms ==
  /\ At("disarm")
  /\ alarm' = 0
  /\ pc' = IF raised = "none" THEN "cleanup" ELSE "record"
  /\ UNCHANGED <<raised, flags, section, signals, clock, row>>

(* _requeue_after_shutdown takes only a running row; _record_job_failure leaves
   a row in error as it is; an outage of the embedder or of Apple Intelligence
   may put the row back in the queue.                                       *)
Outcomes ==
  CASE raised = "deadline" -> {IF job = "running" THEN "queued" ELSE job}
    [] raised = "timeout"  -> {"error"}
    [] raised = "error"    -> IF job = "running" THEN {"error", "queued"}
                              ELSE {"error"}

Records ==
  /\ At("record")
  /\ job' \in Outcomes
  /\ pc' = "cleanup"
  /\ UNCHANGED <<raised, flags, section, alarm, signals, clock, advanced>>

ClearsRunning ==
  /\ At("cleanup")
  /\ jobRunning' = FALSE
  /\ raised' = "none"
  /\ swallowed' = FALSE
  /\ pc' = "restore"
  /\ UNCHANGED <<shutdown, live, armed, section, alarm, arming, tripped, asked,
                 clock, row>>

(* signal.signal handles what is noted before it changes a handler.        *)
Restores ==
  /\ At("restore")
  /\ tripped = {}
  /\ armed' = FALSE
  /\ live' = FALSE
  /\ alarm' = 0
  /\ pc' = "loop"
  /\ UNCHANGED <<raised, shutdown, jobRunning, section, signals, clock, row>>

-----------------------------------------------------------------------------
(* The handlers *)

(* Where an exception of a handler goes: out of the stage, or out of the inner
   finally, and then to execute_job's handlers; from anywhere else out of
   execute_job and of main.                                                 *)
Raise(e) ==
  /\ raised' = e
  /\ arming' = FALSE
  /\ CASE pc \in InStage -> LeavesStage
       [] pc = "leaving" -> pc' = "record" /\ UNCHANGED section
       [] OTHER          -> pc' = "crashed" /\ UNCHANGED section
  /\ UNCHANGED <<alarm, swallowed>>

(* A stage's own except Exception, as in run_summarize; the deadline's is not
   an Exception.                                                            *)
Swallowed ==
  /\ pc = "stage"
  /\ ~armed
  /\ swallowed' = TRUE
  /\ arming' = FALSE
  /\ UNCHANGED <<pc, raised, section, alarm>>

(* Mutant: the handler does not look whether the stage is over.            *)
NeverInert == FALSE

Inert == ~live

(* Mutant: nor whether it is in a section.                                 *)
NeverDeferred == FALSE

Deferred == depth > 0

(* _timeout_handler; before and after execute_job it is not installed, and a
   signal noted earlier is dropped.                                        *)
HandleAlarm ==
  /\ "ALRM" \in tripped
  /\ pc \notin Over
  /\ tripped' = tripped \ {"ALRM"}
  /\ IF pc \in Outside \/ Inert
     THEN UNCHANGED <<pc, raised, section, alarm, arming, swallowed>>
     ELSE IF Deferred
     THEN alarm' = 1 /\ UNCHANGED <<pc, raised, section, arming, swallowed>>
     ELSE \/ Raise(IF armed THEN "deadline" ELSE "timeout")
          \/ Swallowed
  /\ UNCHANGED <<flags, asked, clock, row>>

(* _handle_signal, up to and from its call of _arm_shutdown_deadline: a SIGALRM
   may be handled in between.                                              *)
HandleTerm ==
  /\ "TERM" \in tripped
  /\ pc \notin Over
  /\ tripped' = tripped \ {"TERM"}
  /\ shutdown' = TRUE
  /\ arming' = (arming \/ (~shutdown /\ jobRunning /\ live))
  /\ UNCHANGED <<pc, raised, jobRunning, live, armed, section, alarm, asked,
                 swallowed, clock, row>>

ArmsDeadline ==
  /\ arming
  /\ pc \notin Over
  /\ Arm
  /\ arming' = FALSE
  /\ UNCHANGED <<pc, raised, shutdown, jobRunning, live, section, tripped, asked,
                 swallowed, clock, row>>

-----------------------------------------------------------------------------
(* The rest of the world *)

SendsTerm ==
  /\ pc \notin Over
  /\ tripped' = tripped \union {"TERM"}
  /\ asked' = TRUE
  /\ UNCHANGED <<pc, raised, flags, section, alarm, arming, swallowed, clock, row>>

Enqueues ==
  /\ pc \in Outside
  /\ job \notin {"queued", "running"}
  /\ job' = "queued"
  /\ advanced' = FALSE
  /\ UNCHANGED <<pc, raised, flags, section, alarm, signals, clock>>

Cancels ==
  /\ pc \notin Outside \union Over
  /\ job = "running"
  /\ job' = "error"
  /\ UNCHANGED <<pc, raised, flags, section, alarm, signals, clock, advanced>>

(* A second passes, in the stage as often as it likes.                     *)
TakesTime ==
  \/ pc \in {"wait", "stage"} /\ UNCHANGED slow
  \/ /\ pc \in {"written", "marking", "advancing", "record"}
     /\ slow < Slow
     /\ slow' = slow + 1

(* Without a handler SIGALRM ends the process.                             *)
PlaceAfter ==
  CASE asked /\ since + 1 = Kill          -> "killed"
    [] alarm = 1 /\ pc \in Outside        -> "crashed"
    [] OTHER                              -> pc

Tick ==
  /\ tripped = {}
  /\ ~arming
  /\ alarm > 0 \/ asked
  /\ TakesTime
  /\ alarm' = IF alarm > 0 THEN alarm - 1 ELSE 0
  /\ tripped' = IF alarm = 1 THEN {"ALRM"} ELSE {}
  /\ since' = IF asked THEN since + 1 ELSE 0
  /\ pc' = PlaceAfter
  /\ UNCHANGED <<raised, flags, section, arming, asked, swallowed, row>>

-----------------------------------------------------------------------------
(* Straight code, up to the stage and after it.                            *)
Runs ==
  \/ TestsFlag \/ Claims \/ Wakes
  \/ GoesLive \/ SetsTimer \/ SetsRunning \/ ChecksShutdown
  \/ (pc # "stage" /\ BeginsMarking) \/ MarksDone \/ Advances \/ Returns
  \/ SetsInert \/ Disarms \/ Records \/ ClearsRunning \/ Restores

Handles == HandleAlarm \/ HandleTerm \/ ArmsDeadline

Next ==
  \/ Runs \/ WritesPages \/ BeginsMarking \/ StageRaises
  \/ Handles
  \/ SendsTerm \/ Enqueues \/ Cancels
  \/ Tick

Spec == Init /\ [][Next]_vars

(* Straight code goes on, noted signals are handled, and time passes however
   many are sent.  A stage may hang.                                       *)
Fairness ==
  /\ WF_vars(Runs)
  /\ WF_vars(HandleAlarm)
  /\ WF_vars(HandleTerm)
  /\ WF_vars(ArmsDeadline)
  /\ SF_vars(Tick)

FairSpec == Spec /\ Fairness

-----------------------------------------------------------------------------
TypeOK ==
  /\ pc \in Places
  /\ raised \in {"none", "error", "timeout", "deadline"}
  /\ shutdown \in BOOLEAN
  /\ jobRunning \in BOOLEAN
  /\ live \in BOOLEAN
  /\ armed \in BOOLEAN
  /\ depth \in 0..2
  /\ ocr \in BOOLEAN
  /\ arming \in BOOLEAN
  /\ alarm \in Nat
  /\ tripped \subseteq {"ALRM", "TERM"}
  /\ asked \in BOOLEAN
  /\ swallowed \in BOOLEAN
  /\ since \in 0..Kill
  /\ slow \in 0..Slow
  /\ job \in {"none", "queued", "running", "done", "error"}
  /\ advanced \in BOOLEAN

(* SIGTERM bounds the stage by the grace, at whatever statement between the
   claim and the stage it lands and whatever the timer was set to
   (_arm_shutdown_deadline: "Bound the running job to SHUTDOWN_GRACE_SECONDS
   from now"), unless the stage catches the sooner timeout it was left.      *)
StageBounded == pc = "stage" /\ ~swallowed => since <= Grace

(* A process that was told to go leaves no job behind: the SIGKILL finds it
   waiting at most, what it was running is back in the queue, and what it
   marked done has its next stages enqueued (SHUTDOWN_GRACE_SECONDS: "the
   requeue has to land before the kill"; mark_stage_done).                 *)
JobsAreHandedBack ==
  pc \in {"exited", "killed"} /\ ~swallowed =>
    /\ ~jobRunning
    /\ job # "running"
    /\ job = "done" => advanced

(* No deadline fires where nobody handles it, which would end the process and
   lose the outcome it was recording (_alarm_live).                        *)
NothingEscapes == pc # "crashed"

(* A job that is running does not stay so, whatever its stage does, but for
   catching its own timeout.                                                *)
StagesEnd == job = "running" ~> job # "running" \/ swallowed
=============================================================================
