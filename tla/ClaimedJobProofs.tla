-------------------------- MODULE ClaimedJobProofs --------------------------
(***************************************************************************)
(* What is proved of ClaimedJob for every set of workers and sessions,     *)
(* every stage, attempt limit, number of batches and bound on the          *)
(* disturbances.                                                           *)
(***************************************************************************)
EXTENDS ClaimedJob, TLAPS

-----------------------------------------------------------------------------
(* Rows and commits *)

(* Every row a transaction computes from a row is a row. *)
LEMMA RowsAreRows ==
  ASSUME NEW r \in Row
  PROVE  /\ Finished(r) \in Row
         /\ Failed(r) \in Row
         /\ Attempts(r) \in Nat
         /\ Deferred(r) \in Row
         /\ Requeued(r) \in Row
         /\ Cancelled(r) \in Row
         /\ \A g \in Nat : Enqueued(r, g) \in Row
<1>1. Attempts(r) \in Nat
  BY DEF Attempts, Row
<1>2. Deferred(r) \in Row
  BY <1>1 DEF Deferred, Row, Status
<1>3. Finished(r) \in Row
  BY DEF Finished, Row, Status
<1>4. Failed(r) \in Row
  BY DEF Failed, Row, Status
<1>5. Requeued(r) \in Row
  BY DEF Requeued, Row, Status
<1>6. Cancelled(r) \in Row
  BY DEF Cancelled, Row, Status
<1>7. \A g \in Nat : Enqueued(r, g) \in Row
  BY DEF Enqueued, Row, Status
<1> QED
  BY <1>1, <1>2, <1>3, <1>4, <1>5, <1>6, <1>7

(* A column is flushed from the new row or kept, so a commit leaves a row. *)
LEMMA FlushIsRow ==
  ASSUME row \in Row, NEW loaded \in Row, NEW new \in Row
  PROVE  Flush(loaded, new) \in Row
BY DEF Flush, Changed, Row, SameMetrics

LEMMA NewRowsAreRows ==
  /\ NoRow \in Row
  /\ \A id, g \in Nat : NewRow(id, g) \in Row
BY DEF NewRow, NoRow, Row, Status

-----------------------------------------------------------------------------
(* Type correctness *)

LEMMA InitType == Init => TypeOK
<1> SUFFICES ASSUME Init PROVE TypeOK
  OBVIOUS
<1>1. Idle \in Run /\ NoSession \in Session
  BY NewRowsAreRows DEF Idle, Run, PC, NoSession, Session
<1>2. row \in Row
  BY NewRowsAreRows DEF Init
<1> QED
  BY <1>1, <1>2, ParamAssumption DEF Init, TypeOK

(* The ways a step changes the runs and the sessions keep their types. *)
LEMMA RunMoves ==
  ASSUME TypeOK, NEW w \in Workers
  PROVE  /\ \A pc \in PC : Goto(w, pc) => run' \in [Workers -> Run]
         /\ EndRun(w) => run' \in [Workers -> Run]
         /\ \A pc \in PC : Loaded(w, pc) => run' \in [Workers -> Run]
<1>1. run \in [Workers -> Run] /\ row \in Row /\ era \in Nat
  BY DEF TypeOK
<1>2. Idle \in Run
  BY NewRowsAreRows DEF Idle, Run, PC
<1>3. \A pc \in PC : Goto(w, pc) => run' \in [Workers -> Run]
  BY <1>1 DEF Goto, Run
<1>4. EndRun(w) => run' \in [Workers -> Run]
  BY <1>1, <1>2 DEF EndRun
<1>5. \A pc \in PC : Loaded(w, pc) => run' \in [Workers -> Run]
  <2>2. ASSUME NEW pc \in PC, Loaded(w, pc) PROVE run' \in [Workers -> Run]
    <3>1. PICK b \in BOOLEAN : b = (run[w].era = era)
      OBVIOUS
    <3>2. run' = [run EXCEPT ![w].pc = pc, ![w].seen = row, ![w].sound = b]
      BY <2>2, <3>1 DEF Loaded
    <3> QED
      BY <1>1, <3>2 DEF Run
  <2> QED
    BY <2>2
<1> QED
  BY <1>3, <1>4, <1>5

LEMMA SessionMoves ==
  ASSUME TypeOK, NEW s \in Sessions
  PROVE  /\ \A pc \in {"enqueue", "cancel", "reap"} :
              Open(s, pc) => sess' \in [Sessions -> Session]
         /\ Close(s) => sess' \in [Sessions -> Session]
<1>1. sess \in [Sessions -> Session] /\ row \in Row /\ docGen \in Nat
  BY DEF TypeOK
<1>2. NoSession \in Session
  BY NewRowsAreRows DEF NoSession, Session
<1>3. \A pc \in {"enqueue", "cancel", "reap"} :
        Open(s, pc) => sess' \in [Sessions -> Session]
  BY <1>1 DEF Open, Session
<1>4. Close(s) => sess' \in [Sessions -> Session]
  BY <1>1, <1>2 DEF Close
<1> QED
  BY <1>3, <1>4

(* TypeOK alone is not inductive: a run that is about to store a batch has one
   left to store.                                                          *)
WritesPending == \A w \in Workers : run[w].pc = "write" => run[w].todo > 0

(* What any step does to a run: it ends it, claims the row for it, or moves it
   on with its claim and its era; and a batch is only begun if one is left. *)
RunGoesOn(v) ==
  /\ run[v].pc # "idle"
  /\ run'[v].claim = run[v].claim
  /\ run'[v].era = run[v].era

RunLemmaGoal(v) ==
  /\ run'[v].pc = "idle" \/ RunGoesOn(v) \/ Claim(v)
  /\ run'[v].pc = "write" => run'[v].todo > 0

LEMMA StepRuns ==
  ASSUME TypeOK, WritesPending, [Next]_vars, NEW v \in Workers
  PROVE  RunLemmaGoal(v)
<1> DEFINE Goal == RunLemmaGoal(v)
<1>1. ASSUME UNCHANGED run PROVE Goal
  BY <1>1 DEF WritesPending, RunLemmaGoal, RunGoesOn
<1>2. ASSUME NEW w \in Workers, run[w].pc # "idle", EndRun(w) PROVE Goal
  BY <1>2 DEF EndRun, Idle, TypeOK, WritesPending, RunLemmaGoal, RunGoesOn
<1>3. ASSUME NEW w \in Workers, run[w].pc # "idle", NEW pc \in PC \ {"write"},
             Goto(w, pc) \/ Loaded(w, pc)
      PROVE  Goal
  BY <1>3 DEF Goto, Loaded, TypeOK, Run, WritesPending, RunLemmaGoal, RunGoesOn
<1>4. ASSUME NEW w \in Workers, Claim(w) PROVE Goal
  BY <1>4 DEF Claim, Idle, TypeOK, WritesPending, RunLemmaGoal, RunGoesOn
<1>5. ASSUME NEW w \in Workers, Start(w) PROVE Goal
  <2>1. CASE Wanted(w)
    BY <1>5, <2>1 DEF Start, TypeOK, Run, WritesPending, RunLemmaGoal, RunGoesOn
  <2>2. CASE ~Wanted(w)
    BY <1>2, <1>5, <2>2 DEF Start
  <2> QED
    BY <2>1, <2>2
<1>6. ASSUME NEW w \in Workers, Work(w) PROVE Goal
  <2>1. CASE run[w].todo > 0 /\ RunIsCurrent(w) /\ Goto(w, "write")
    BY <1>6, <2>1
    DEF Work, Goto, TypeOK, Run, WritesPending, RunLemmaGoal, RunGoesOn
  <2>2. CASE \E pc \in {"mark", "fail", "defer"} : Goto(w, pc)
    BY <1>3, <1>6, <2>2 DEF Work, PC
  <2> QED
    BY <1>6, <2>1, <2>2 DEF Work
<1>7. ASSUME NEW w \in Workers, StoreBatch(w) PROVE Goal
  <2>1. CASE Vanished(run[w].seen)
    BY <1>3, <1>7, <2>1 DEF StoreBatch, PC
  <2>2. CASE ~Vanished(run[w].seen)
    BY <1>7, <2>2
    DEF StoreBatch, TypeOK, Run, WritesPending, RunLemmaGoal, RunGoesOn
  <2> QED
    BY <2>1, <2>2
<1>8. ASSUME NEW w \in Workers,
             MarkRead(w) \/ FailRead(w) \/ DeferSummaryRead(w) PROVE Goal
  BY <1>2, <1>3, <1>8 DEF MarkRead, FailRead, DeferSummaryRead, PC
<1>9. ASSUME NEW w \in Workers, MarkCommit(w) PROVE Goal
  BY <1>2, <1>3, <1>9 DEF MarkCommit, PC
<1>10. ASSUME NEW w \in Workers,
              \/ FailCommit(w) \/ DeferEmbed(w) \/ DeferSummaryCommit(w)
              \/ RequeueAfterShutdown(w) \/ Crash(w) PROVE Goal
  BY <1>2, <1>10
  DEF FailCommit, DeferEmbed, DeferSummaryCommit, RequeueAfterShutdown, Crash
<1>11. ASSUME NEW w \in Workers, ShutdownDeadline(w) PROVE Goal
  BY <1>3, <1>11 DEF ShutdownDeadline, PC
<1>12. ASSUME NEW w \in Workers, Heartbeat(w) PROVE Goal
  BY <1>1, <1>12 DEF Heartbeat
<1>13. ASSUME NEW s \in Sessions,
              \/ EnqueueRead(s) \/ CancelRead(s) \/ ReapRead(s)
              \/ SessionCommit(s) PROVE Goal
  BY <1>1, <1>13
  DEF EnqueueRead, CancelRead, ReapRead, SessionCommit, EnqueueCommit,
      CancelCommit, Reap
<1>14. ASSUME DeadSilence \/ Lapse \/ RetryDue \/ Bump PROVE Goal
  BY <1>1, <1>14 DEF DeadSilence, Lapse, Silence, RetryDue, Bump
<1>15. ASSUME UNCHANGED vars PROVE Goal
  BY <1>1, <1>15 DEF vars
<1> QED
  BY <1>4, <1>5, <1>6, <1>7, <1>8, <1>9, <1>10, <1>11, <1>12, <1>13, <1>14,
     <1>15
  DEF Next, RunStep

LEMMA StepWritesPending == TypeOK /\ WritesPending /\ [Next]_vars => WritesPending'
BY StepRuns DEF RunLemmaGoal, WritesPending

LEMMA StepType == TypeOK /\ WritesPending /\ [Next]_vars => TypeOK'
<1> SUFFICES ASSUME TypeOK, WritesPending, [Next]_vars PROVE TypeOK'
  OBVIOUS
<1>1. ASSUME NEW w \in Workers, Claim(w) PROVE TypeOK'
  <2>1. row' \in Row
    <3>1. row \in Row /\ ThisClaim \in Nat /\ 1 \in Nat
      BY DEF ThisClaim, TypeOK
    <3> QED
      BY <1>1, <3>1 DEF Claim, Row, Status
  <2>2. [Idle EXCEPT !.pc = "start", !.gen = row.gen, !.claim = ThisClaim,
                     !.era = era + 1] \in Run
    <3>1. row.gen \in Nat /\ ThisClaim \in Nat /\ era + 1 \in Nat
      BY DEF ThisClaim, TypeOK, Row
    <3> QED
      BY <3>1, NewRowsAreRows DEF Idle, Run, PC
  <2>3. run' \in [Workers -> Run]
    BY <1>1, <2>2 DEF Claim, TypeOK
  <2> QED
    BY <1>1, <2>1, <2>3 DEF Claim, TypeOK
<1>2. ASSUME NEW w \in Workers, Heartbeat(w) PROVE TypeOK'
  <2>1. row' \in Row
    <3>1. row \in Row /\ row.hb + 1 \in Nat
      BY DEF TypeOK, Row
    <3> QED
      BY <1>2, <3>1 DEF Heartbeat, Row
  <2> QED
    BY <1>2, <2>1 DEF Heartbeat, TypeOK, history
<1>3. ASSUME NEW w \in Workers, Start(w) PROVE TypeOK'
  <2>1. ASSUME Wanted(w) PROVE run' \in [Workers -> Run]
    BY <1>3, <2>1, NewRowsAreRows DEF Start, TypeOK, Run, PC
  <2>2. run' \in [Workers -> Run]
    BY <1>3, <2>1, RunMoves DEF Start
  <2> QED
    BY <1>3, <2>2 DEF Start, TypeOK, history
<1>4. ASSUME NEW w \in Workers, Work(w) PROVE TypeOK'
  <2>1. run' \in [Workers -> Run]
    BY <1>4, RunMoves DEF Work, PC
  <2> QED
    BY <1>4, <2>1 DEF Work, TypeOK, history
<1>5. ASSUME NEW w \in Workers, StoreBatch(w) PROVE TypeOK'
  <2>1. CASE Vanished(run[w].seen)
    <3>1. run' \in [Workers -> Run]
      BY <1>5, <2>1, RunMoves DEF StoreBatch, PC
    <3> QED
      BY <1>5, <2>1, <3>1 DEF StoreBatch, TypeOK
  <2>2. CASE ~Vanished(run[w].seen)
    <3>1. row' \in Row
      BY <1>5, <2>2 DEF StoreBatch, TypeOK, Row
    <3>2. left' \in 0..Batches /\ run' \in [Workers -> Run]
      BY <1>5, <2>2, ParamAssumption
      DEF StoreBatch, TypeOK, WritesPending, Run, PC, LeftAfter
    <3> QED
      BY <1>5, <2>2, <3>1, <3>2 DEF StoreBatch, TypeOK
  <2> QED
    BY <2>1, <2>2
<1>6. ASSUME NEW w \in Workers, MarkRead(w) PROVE TypeOK'
  <2>1. run' \in [Workers -> Run]
    BY <1>6, RunMoves DEF MarkRead, PC
  <2> QED
    BY <1>6, <2>1 DEF MarkRead, TypeOK, history
<1>7. ASSUME NEW w \in Workers, MarkCommit(w) PROVE TypeOK'
  <2>1. run' \in [Workers -> Run]
    BY <1>7, RunMoves DEF MarkCommit, PC
  <2>2. row' \in Row
    <3>1. run[w].seen \in Row
      BY DEF TypeOK, Run
    <3> QED
      BY <1>7, <3>1, RowsAreRows, FlushIsRow DEF MarkCommit, TypeOK
  <2> QED
    BY <1>7, <2>1, <2>2 DEF MarkCommit, TypeOK, history
<1>8. ASSUME NEW w \in Workers, FailRead(w) PROVE TypeOK'
  <2>1. run' \in [Workers -> Run]
    BY <1>8, RunMoves DEF FailRead, PC
  <2> QED
    BY <1>8, <2>1 DEF FailRead, TypeOK, history
<1>9. ASSUME NEW w \in Workers, FailCommit(w) PROVE TypeOK'
  <2>1. run' \in [Workers -> Run]
    BY <1>9, RunMoves DEF FailCommit
  <2>2. row' \in Row
    <3>1. run[w].seen \in Row
      BY DEF TypeOK, Run
    <3> QED
      BY <1>9, <3>1, RowsAreRows, FlushIsRow DEF FailCommit, TypeOK
  <2> QED
    BY <1>9, <2>1, <2>2 DEF FailCommit, TypeOK, history
<1>10. ASSUME NEW w \in Workers, DeferEmbed(w) PROVE TypeOK'
  <2>1. run' \in [Workers -> Run]
    BY <1>10, RunMoves DEF DeferEmbed
  <2>2. row' \in Row
    BY <1>10, RowsAreRows DEF DeferEmbed, TypeOK
  <2> QED
    BY <1>10, <2>1, <2>2 DEF DeferEmbed, TypeOK, history
<1>11. ASSUME NEW w \in Workers, DeferSummaryRead(w) PROVE TypeOK'
  <2>1. run' \in [Workers -> Run]
    BY <1>11, RunMoves DEF DeferSummaryRead, PC
  <2> QED
    BY <1>11, <2>1 DEF DeferSummaryRead, TypeOK, history
<1>12. ASSUME NEW w \in Workers, DeferSummaryCommit(w) PROVE TypeOK'
  <2>1. run' \in [Workers -> Run]
    BY <1>12, RunMoves DEF DeferSummaryCommit
  <2>2. row' \in Row
    <3>1. run[w].seen \in Row
      BY DEF TypeOK, Run
    <3> QED
      BY <1>12, <3>1, RowsAreRows, FlushIsRow DEF DeferSummaryCommit, TypeOK
  <2> QED
    BY <1>12, <2>1, <2>2 DEF DeferSummaryCommit, TypeOK, history
<1>13. ASSUME NEW w \in Workers, RequeueAfterShutdown(w) PROVE TypeOK'
  <2>1. run' \in [Workers -> Run]
    BY <1>13, RunMoves DEF RequeueAfterShutdown
  <2>2. row' \in Row
    BY <1>13, RowsAreRows DEF RequeueAfterShutdown, TypeOK
  <2> QED
    BY <1>13, <2>1, <2>2 DEF RequeueAfterShutdown, TypeOK
<1>14. ASSUME NEW w \in Workers, ShutdownDeadline(w) PROVE TypeOK'
  <2>1. run' \in [Workers -> Run]
    BY <1>14, RunMoves DEF ShutdownDeadline, PC
  <2> QED
    BY <1>14, <2>1 DEF ShutdownDeadline, Disturb, TypeOK, history
<1>15. ASSUME NEW w \in Workers, Crash(w) PROVE TypeOK'
  <2>1. run' \in [Workers -> Run]
    BY <1>15, RunMoves DEF Crash, PC
  <2> QED
    BY <1>15, <2>1 DEF Crash, Disturb, TypeOK, history
<1>16. ASSUME NEW s \in Sessions, EnqueueRead(s) PROVE TypeOK'
  <2>1. sess' \in [Sessions -> Session]
    BY <1>16, SessionMoves DEF EnqueueRead
  <2> QED
    BY <1>16, <2>1 DEF EnqueueRead, Disturb, TypeOK, history
<1>17. ASSUME NEW s \in Sessions, CancelRead(s) PROVE TypeOK'
  <2>1. sess' \in [Sessions -> Session]
    BY <1>17, SessionMoves DEF CancelRead
  <2> QED
    BY <1>17, <2>1 DEF CancelRead, Disturb, TypeOK, history
<1>18. ASSUME NEW s \in Sessions, ReapRead(s) PROVE TypeOK'
  <2>1. sess' \in [Sessions -> Session]
    BY <1>18, SessionMoves DEF ReapRead
  <2> QED
    BY <1>18, <2>1 DEF ReapRead, Disturb, TypeOK, history
<1>19. ASSUME NEW s \in Sessions, EnqueueCommit(s) PROVE TypeOK'
  <2>1. sess' \in [Sessions -> Session]
    BY <1>19, SessionMoves DEF EnqueueCommit
  <2>2. row' \in Row
    <3>1. /\ sess[s].seen \in Row /\ sess[s].gen \in Nat /\ era + 1 \in Nat
          /\ row \in Row
      BY DEF TypeOK, Session
    <3>2. Flush(sess[s].seen, Enqueued(sess[s].seen, sess[s].gen)) \in Row
      BY <3>1, RowsAreRows, FlushIsRow
    <3>3. NewRow(era + 1, sess[s].gen) \in Row
      BY <3>1, NewRowsAreRows
    <3> QED
      BY <1>19, <3>1, <3>2, <3>3 DEF EnqueueCommit
  <2> QED
    BY <1>19, <2>1, <2>2 DEF EnqueueCommit, TypeOK, history
<1>20. ASSUME NEW s \in Sessions, CancelCommit(s) PROVE TypeOK'
  <2>1. sess' \in [Sessions -> Session]
    BY <1>20, SessionMoves DEF CancelCommit
  <2>2. row' \in Row
    <3>1. sess[s].seen \in Row
      BY DEF TypeOK, Session
    <3> QED
      BY <1>20, <3>1, RowsAreRows, FlushIsRow DEF CancelCommit, TypeOK
  <2> QED
    BY <1>20, <2>1, <2>2 DEF CancelCommit, TypeOK, history
<1>21. ASSUME NEW s \in Sessions, Reap(s) PROVE TypeOK'
  <2>1. sess' \in [Sessions -> Session]
    BY <1>21, SessionMoves DEF Reap
  <2>2. row' \in Row
    <3>1. row \in Row /\ sess[s].seen \in Row
      BY DEF TypeOK, Session
    <3>2. Requeued(row) \in Row /\ Requeued(sess[s].seen) \in Row
      BY <3>1, RowsAreRows
    <3>3. [Requeued(row) EXCEPT !.attempts = sess[s].seen.attempts,
                                !.wait = Requeued(sess[s].seen).wait] \in Row
      BY <3>1, <3>2 DEF Row
    <3> QED
      BY <1>21, <3>1, <3>3 DEF Reap
  <2> QED
    BY <1>21, <2>1, <2>2 DEF Reap, TypeOK
<1>22. ASSUME Silence, trouble' \in Nat PROVE TypeOK'
  <2>1. row' \in Row
    BY <1>22 DEF Silence, TypeOK, Row
  <2> QED
    BY <1>22, <2>1 DEF Silence, TypeOK, history
<1>23. DeadSilence \/ Lapse => TypeOK'
  BY <1>22 DEF DeadSilence, Lapse, Disturb, TypeOK
<1>24. ASSUME RetryDue PROVE TypeOK'
  <2>1. row' \in Row
    BY <1>24 DEF RetryDue, TypeOK, Row
  <2> QED
    BY <1>24, <2>1 DEF RetryDue, TypeOK, history
<1>25. ASSUME Bump PROVE TypeOK'
  <2>1. row' \in Row
    <3>1. docGen + 1 \in Nat /\ era + 1 \in Nat /\ row.id \in Nat
      BY DEF TypeOK, Row
    <3> QED
      BY <1>25, <3>1, NewRowsAreRows DEF Bump
  <2> QED
    BY <1>25, <2>1, ParamAssumption DEF Bump, Disturb, TypeOK
<1>26. ASSUME UNCHANGED vars PROVE TypeOK'
  BY <1>26 DEF vars, TypeOK
<1> QED
  BY <1>1, <1>2, <1>3, <1>4, <1>5, <1>6, <1>7, <1>8, <1>9, <1>10, <1>11,
     <1>12, <1>13, <1>14, <1>15, <1>16, <1>17, <1>18, <1>19, <1>20, <1>21,
     <1>23, <1>24, <1>25, <1>26
  DEF Next, RunStep, SessionCommit

(* Every variable keeps its type, however the sessions, workers and
   disturbances interleave.                                                *)
THEOREM TypeCorrect == Spec => [](TypeOK /\ WritesPending)
<1>1. Init => TypeOK /\ WritesPending
  BY InitType DEF Init, Idle, WritesPending
<1>2. TypeOK /\ WritesPending /\ [Next]_vars => (TypeOK /\ WritesPending)'
  BY StepType, StepWritesPending
<1> QED
  BY <1>1, <1>2, PTL DEF Spec

-----------------------------------------------------------------------------
(* One run per claim *)

(* The strengthening OneRunPerClaim needs: no run carries a claim that is still
   to be made.                                                             *)
ClaimsMade ==
  \A w \in Workers : run[w].pc # "idle" => run[w].claim \in 1..claims

LEMMA StepClaims ==
  ASSUME TypeOK, WritesPending, [Next]_vars
  PROVE  /\ claims' \in Nat
         /\ claims' >= claims
         /\ \A w \in Workers : Claim(w) =>
              /\ claims' = claims + 1
              /\ run'[w].claim = claims + 1
              /\ \A v \in Workers \ {w} : run'[v] = run[v]
<1>1. claims' \in Nat
  BY StepType DEF TypeOK
<1>2. claims' = claims \/ \E w \in Workers : Claim(w)
  BY DEF Next, RunStep, SessionCommit, Heartbeat, Start, Work, StoreBatch,
         MarkRead, MarkCommit, FailRead, FailCommit, DeferEmbed,
         DeferSummaryRead, DeferSummaryCommit, RequeueAfterShutdown,
         ShutdownDeadline, Crash, EnqueueRead, CancelRead, ReapRead,
         EnqueueCommit, CancelCommit, Reap, DeadSilence, Lapse, Silence,
         RetryDue, Bump, vars
<1>3. ASSUME NEW w \in Workers, Claim(w)
      PROVE  /\ claims' = claims + 1
             /\ run'[w].claim = claims + 1
             /\ \A v \in Workers \ {w} : run'[v] = run[v]
  BY <1>3 DEF Claim, ThisClaim, Idle, TypeOK
<1> QED
  BY <1>1, <1>2, <1>3 DEF TypeOK

LEMMA StepOneRunPerClaim ==
  ASSUME TypeOK, WritesPending, ClaimsMade, OneRunPerClaim, [Next]_vars
  PROVE  ClaimsMade' /\ OneRunPerClaim'
<1>1. CASE \E w \in Workers : Claim(w)
  <2>1. PICK w \in Workers : Claim(w)
    BY <1>1
  <2>2. /\ claims' = claims + 1
        /\ run'[w].claim = claims + 1
        /\ \A v \in Workers \ {w} : run'[v] = run[v]
    BY <2>1, StepClaims
  <2>3. \A v \in Workers \ {w} : run[v].claim # run'[w].claim \/ run[v].pc = "idle"
    BY <2>2 DEF ClaimsMade, TypeOK
  <2>4. ClaimsMade'
    BY <2>2 DEF ClaimsMade, TypeOK
  <2>5. OneRunPerClaim'
    BY <2>2, <2>3 DEF OneRunPerClaim
  <2> QED
    BY <2>4, <2>5
<1>2. CASE ~\E w \in Workers : Claim(w)
  <2>1. \A v \in Workers :
          run'[v].pc # "idle" => run[v].pc # "idle" /\ run'[v].claim = run[v].claim
    BY <1>2, StepRuns DEF RunLemmaGoal, RunGoesOn
  <2>2. ClaimsMade'
    <3>1. claims \in Nat /\ claims' \in Nat /\ claims' >= claims
      BY StepClaims DEF TypeOK
    <3> QED
      BY <2>1, <3>1 DEF ClaimsMade
  <2>3. OneRunPerClaim'
    BY <2>1 DEF OneRunPerClaim
  <2> QED
    BY <2>2, <2>3
<1> QED
  BY <1>1, <1>2

(* Two runs under way never carry the same started_at. *)
THEOREM UniqueClaims == Spec => []OneRunPerClaim
<1> DEFINE IInv == TypeOK /\ WritesPending /\ ClaimsMade /\ OneRunPerClaim
<1>1. Init => IInv
  BY InitType DEF Init, Idle, WritesPending, ClaimsMade, OneRunPerClaim
<1>2. IInv /\ [Next]_vars => IInv'
  BY StepType, StepWritesPending, StepOneRunPerClaim
<1>3. IInv => OneRunPerClaim
  OBVIOUS
<1> QED
  BY <1>1, <1>2, <1>3, PTL DEF Spec

-----------------------------------------------------------------------------
(* The claim check is sound where nothing re-enqueues the row behind it: every
   stage but summarize (whose deferral is not locked), and no enqueue_stage that
   commits over a claim made since its read.                               *)

NoEnqueueUnderWay == \A s \in Sessions : sess[s].pc # "enqueue"

(* The strengthening: a run whose claim the row still carries is of the era the
   row is in, so comparing started_at is comparing eras.                   *)
ClaimTellsEra ==
  \A w \in Workers :
    (run[w].pc # "idle" /\ run[w].claim = row.claim) => run[w].era = era

Committing == {"markCommit", "failCommit", "deferCommit"}

(* A run gets to a commit by a read that found the row its own. *)
LEMMA StepReads ==
  ASSUME TypeOK, [Next]_vars, Stage # "summarize", NEW v \in Workers,
         run'[v].pc \in Committing
  PROVE  \/ run'[v] = run[v]
         \/ run[v].pc # "idle" /\ run[v].claim = row.claim /\ Loaded(v, run'[v].pc)
<1> DEFINE Goal == \/ run'[v] = run[v]
                   \/ /\ run[v].pc # "idle" /\ run[v].claim = row.claim
                      /\ Loaded(v, run'[v].pc)
<1>1. ASSUME NEW w \in Workers, EndRun(w) PROVE Goal
  BY <1>1 DEF EndRun, Idle, TypeOK, Committing
<1>2. ASSUME NEW w \in Workers, NEW pc \in PC \ Committing, Goto(w, pc) PROVE Goal
  BY <1>2 DEF Goto, TypeOK, Run, Committing
<1> DEFINE Own(w) == run[w].pc # "idle" /\ run[w].claim = row.claim
<1>20. ASSUME NEW w \in Workers, NEW pc \in Committing, Own(w), Loaded(w, pc)
       PROVE  Goal
  <2>1. CASE w = v
    <3>1. run'[v].pc = pc
      BY <1>20, <2>1 DEF Loaded, TypeOK
    <3> QED
      BY <1>20, <2>1, <3>1
  <2>2. CASE w # v
    BY <1>20, <2>2 DEF Loaded, TypeOK
  <2> QED
    BY <2>1, <2>2
<1>3. ASSUME NEW w \in Workers, MarkRead(w) PROVE Goal
  <2>1. CASE RunIsCurrent(w)
    BY <1>3, <1>20, <2>1 DEF MarkRead, RunIsCurrent, Committing
  <2>2. CASE ~RunIsCurrent(w)
    BY <1>1, <1>3, <2>2 DEF MarkRead
  <2> QED
    BY <2>1, <2>2
<1>4. ASSUME NEW w \in Workers, FailRead(w) PROVE Goal
  <2>1. CASE OwnClaim(w) /\ row.status # "error"
    BY <1>4, <1>20, <2>1 DEF FailRead, OwnClaim, Committing
  <2>2. CASE ~(OwnClaim(w) /\ row.status # "error")
    BY <1>1, <1>4, <2>2 DEF FailRead
  <2> QED
    BY <2>1, <2>2
<1>5. ASSUME NEW w \in Workers, Claim(w) \/ Start(w) PROVE Goal
  <2>1. CASE w # v
    BY <1>5, <2>1 DEF Claim, Start, EndRun, TypeOK
  <2>2. CASE w = v
    <3>1. CASE Claim(v)
      <4>1. run'[v].pc = "start"
        BY <3>1 DEF Claim, Idle, TypeOK
      <4> QED
        BY <4>1 DEF Committing
    <3>2. CASE Start(v) /\ Wanted(v)
      <4>1. run'[v].pc = "work"
        BY <3>2 DEF Start, TypeOK, Run
      <4> QED
        BY <4>1 DEF Committing
    <3>3. CASE Start(v) /\ ~Wanted(v)
      BY <1>1, <3>3 DEF Start
    <3> QED
      BY <1>5, <2>2, <3>1, <3>2, <3>3
  <2> QED
    BY <2>1, <2>2
<1>6. ASSUME NEW w \in Workers, Work(w) \/ ShutdownDeadline(w) PROVE Goal
  BY <1>2, <1>6 DEF Work, ShutdownDeadline, PC, Committing
<1>7. ASSUME NEW w \in Workers, StoreBatch(w) PROVE Goal
  <2>1. CASE Vanished(run[w].seen)
    BY <1>2, <1>7, <2>1 DEF StoreBatch, PC, Committing
  <2>2. CASE ~Vanished(run[w].seen)
    BY <1>7, <2>2 DEF StoreBatch, TypeOK, Run, Committing
  <2> QED
    BY <2>1, <2>2
<1>8. ASSUME NEW w \in Workers, MarkCommit(w) PROVE Goal
  BY <1>1, <1>2, <1>8 DEF MarkCommit, PC, Committing
<1>9. ASSUME NEW w \in Workers,
             \/ FailCommit(w) \/ DeferEmbed(w) \/ RequeueAfterShutdown(w)
             \/ Crash(w) PROVE Goal
  BY <1>1, <1>9 DEF FailCommit, DeferEmbed, RequeueAfterShutdown, Crash
<1>10. ASSUME UNCHANGED run PROVE Goal
  BY <1>10
<1>11. ASSUME NEW w \in Workers, DeferSummaryRead(w) \/ DeferSummaryCommit(w)
       PROVE  Goal
  <2>1. Stage = "summarize"
    BY <1>11 DEF DeferSummaryRead, DeferSummaryCommit
  <2> QED
    BY <2>1
<1>12. \/ UNCHANGED run
       \/ \E w \in Workers : Claim(w) \/ RunStep(w) \/ ShutdownDeadline(w) \/ Crash(w)
  BY DEF Next, SessionCommit, Heartbeat, EnqueueRead, CancelRead, ReapRead,
         EnqueueCommit, CancelCommit, Reap, DeadSilence, Lapse, Silence,
         RetryDue, Bump, vars
<1> QED
  BY <1>3, <1>4, <1>5, <1>6, <1>7, <1>8, <1>9, <1>10, <1>11, <1>12 DEF RunStep

LEMMA StepLooksBeforeItWrites ==
  ASSUME TypeOK, ClaimTellsEra, LooksBeforeItWrites, [Next]_vars,
         Stage # "summarize"
  PROVE  LooksBeforeItWrites'
<1> SUFFICES ASSUME NEW v \in Workers, run'[v].pc \in Committing
             PROVE  run'[v].sound
  BY DEF LooksBeforeItWrites, Committing
<1>1. CASE run'[v] = run[v]
  BY <1>1 DEF LooksBeforeItWrites, Committing
<1>2. CASE run[v].pc # "idle" /\ run[v].claim = row.claim /\ Loaded(v, run'[v].pc)
  <2>1. run[v].era = era
    BY <1>2 DEF ClaimTellsEra
  <2>2. PICK b \in BOOLEAN : b = (run[v].era = era)
    OBVIOUS
  <2>3. run' = [run EXCEPT ![v].pc = run'[v].pc, ![v].seen = row, ![v].sound = b]
    BY <1>2, <2>2 DEF Loaded
  <2>4. run'[v].sound = b
    BY <2>3 DEF TypeOK, Run
  <2> QED
    BY <2>1, <2>2, <2>4
<1> QED
  BY <1>1, <1>2, StepReads

LEMMA StepNoEnqueue ==
  ASSUME TypeOK, NoEnqueueUnderWay, [Next]_vars, "enqueue" \notin Troubles
  PROVE  NoEnqueueUnderWay'
<1>1. ASSUME NEW s \in Sessions,
             \/ EnqueueRead(s) \/ CancelRead(s) \/ ReapRead(s)
             \/ SessionCommit(s)
      PROVE  NoEnqueueUnderWay'
  BY <1>1
  DEF EnqueueRead, Disturb, CancelRead, ReapRead, Open, SessionCommit,
      EnqueueCommit, CancelCommit, Reap, Close, NoSession, TypeOK,
      NoEnqueueUnderWay
<1>2. ASSUME UNCHANGED sess PROVE NoEnqueueUnderWay'
  BY <1>2 DEF NoEnqueueUnderWay
<1> QED
  BY <1>1, <1>2
  DEF Next, RunStep, Claim, Heartbeat, Start, Work, StoreBatch, MarkRead,
      MarkCommit, FailRead, FailCommit, DeferEmbed, DeferSummaryRead,
      DeferSummaryCommit, RequeueAfterShutdown, ShutdownDeadline, Crash,
      DeadSilence, Lapse, Silence, RetryDue, Bump, vars

LEMMA StepClaimTellsEra ==
  ASSUME TypeOK, WritesPending, ClaimsMade, OneRunPerClaim, ClaimTellsEra,
         NoEnqueueUnderWay, Stage # "summarize", [Next]_vars
  PROVE  ClaimTellsEra'
<1> DEFINE Kept(v) == /\ run[v].pc # "idle"
                      /\ run'[v].claim = run[v].claim
                      /\ run'[v].era = run[v].era
<1>1. \A v \in Workers : run'[v].pc = "idle" \/ Kept(v) \/ Claim(v)
  BY StepRuns DEF RunLemmaGoal, RunGoesOn
<1>2. ASSUME NEW w \in Workers, Claim(w) PROVE ClaimTellsEra'
  <2>1. /\ row'.claim = claims + 1
        /\ run'[w].era = era + 1 /\ era' = era + 1
        /\ \A v \in Workers \ {w} : run'[v] = run[v]
    BY <1>2 DEF Claim, ThisClaim, Idle, TypeOK, Row
  <2>2. \A v \in Workers : run[v].pc # "idle" => run[v].claim # claims + 1
    BY DEF ClaimsMade, TypeOK
  <2> QED
    BY <2>1, <2>2 DEF ClaimTellsEra
<1> DEFINE NoClaim == ~\E w \in Workers : Claim(w)
<1>3. ASSUME NoClaim, row'.claim = row.claim, era' = era PROVE ClaimTellsEra'
  BY <1>1, <1>3 DEF ClaimTellsEra
<1>4. ASSUME NoClaim, row'.claim = 0 PROVE ClaimTellsEra'
  <2>1. \A v \in Workers : run'[v].pc # "idle" => run'[v].claim # 0
    BY <1>1, <1>4 DEF ClaimsMade, TypeOK
  <2> QED
    BY <1>4, <2>1 DEF ClaimTellsEra
<1>5. ASSUME NoClaim, NEW w \in Workers, DeferEmbed(w) PROVE ClaimTellsEra'
  <2>1. CASE ~(OwnClaim(w) /\ row.status # "error")
    BY <1>3, <1>5, <2>1 DEF DeferEmbed, history
  <2>2. CASE OwnClaim(w) /\ row.status # "error" /\ Attempts(row) < MaxAttempts
    <3>1. row'.claim = 0
      <4>1. row \in Row /\ Attempts(row) \in Nat /\ MaxAttempts \in Nat
        BY RowsAreRows, ParamAssumption DEF TypeOK
      <4>2. Deferred(row).claim = 0
        BY <2>2, <4>1 DEF Deferred, Row
      <4> QED
        BY <1>5, <2>2, <4>2 DEF DeferEmbed
    <3> QED
      BY <1>4, <1>5, <3>1
  <2>3. CASE OwnClaim(w) /\ row.status # "error" /\ Attempts(row) >= MaxAttempts
    \* the row keeps the claim of the run that gives up and ends
    <3>1. row'.claim = run[w].claim
      BY <1>5, <2>3 DEF DeferEmbed, Deferred, OwnClaim, TypeOK, Row
    <3>2. run'[w].pc = "idle" /\ run[w].pc # "idle"
      BY <1>5 DEF DeferEmbed, EndRun, Idle, TypeOK
    <3>3. \A v \in Workers \ {w} : run[v].pc # "idle" => run[v].claim # run[w].claim
      BY <3>2 DEF OneRunPerClaim
    <3> QED
      BY <1>1, <1>5, <3>1, <3>2, <3>3 DEF ClaimTellsEra
  <2>4. Attempts(row) \in Nat /\ MaxAttempts \in Nat
    BY RowsAreRows, ParamAssumption DEF TypeOK
  <2> QED
    BY <2>1, <2>2, <2>3, <2>4
<1>6. ASSUME NoClaim, NEW w \in Workers, RequeueAfterShutdown(w) PROVE ClaimTellsEra'
  <2>1. CASE OwnClaim(w) /\ row.status = "running"
    <3>1. row'.claim = 0
      BY <1>6, <2>1 DEF RequeueAfterShutdown, Requeued, TypeOK, Row
    <3> QED
      BY <1>4, <1>6, <3>1
  <2>2. CASE ~(OwnClaim(w) /\ row.status = "running")
    BY <1>3, <1>6, <2>2 DEF RequeueAfterShutdown
  <2> QED
    BY <2>1, <2>2
<1>7. ASSUME NoClaim, NEW w \in Workers, MarkCommit(w) \/ FailCommit(w)
      PROVE  ClaimTellsEra'
  <2>1. row'.claim = row.claim
    <3>1. run[w].seen \in Row
      BY DEF TypeOK, Run
    <3>2. /\ Finished(run[w].seen).claim = run[w].seen.claim
          /\ Failed(run[w].seen).claim = run[w].seen.claim
      BY <3>1 DEF Finished, Failed, Row
    <3> QED
      BY <1>7, <3>2 DEF MarkCommit, FailCommit, Flush, Changed
  <2> QED
    BY <1>3, <1>7, <2>1 DEF MarkCommit, FailCommit, history
<1>8. ASSUME NoClaim, NEW w \in Workers, StoreBatch(w) \/ Heartbeat(w)
      PROVE  ClaimTellsEra'
  <2>1. row'.claim = row.claim
    BY <1>8 DEF StoreBatch, Heartbeat, TypeOK, Row
  <2> QED
    BY <1>3, <1>8, <2>1 DEF StoreBatch, Heartbeat, history
<1>9. ASSUME NoClaim, NEW s \in Sessions, CancelCommit(s) PROVE ClaimTellsEra'
  <2>1. row'.claim = row.claim
    BY <1>9 DEF CancelCommit, Flush, Changed, Cancelled, TypeOK, Session, Row
  <2> QED
    BY <1>3, <1>9, <2>1 DEF CancelCommit, history
<1>10. ASSUME NoClaim, NEW s \in Sessions, Reap(s) PROVE ClaimTellsEra'
  <2>1. CASE AsRead(sess[s].seen)
    <3>1. row'.claim = 0
      BY <1>10, <2>1 DEF Reap, Requeued, TypeOK, Row
    <3> QED
      BY <1>4, <1>10, <3>1
  <2>2. CASE ~AsRead(sess[s].seen)
    BY <1>3, <1>10, <2>2 DEF Reap
  <2> QED
    BY <2>1, <2>2
<1>11. ASSUME NoClaim, Bump PROVE ClaimTellsEra'
  <2>1. row'.claim = 0
    <3>1. NoRow.claim = 0 /\ \A id, g \in Nat : NewRow(id, g).claim = 0
      BY DEF NoRow, NewRow
    <3>2. docGen + 1 \in Nat /\ era + 1 \in Nat /\ row.id \in Nat
      BY DEF TypeOK, Row
    <3> QED
      BY <1>11, <3>1, <3>2 DEF Bump
  <2> QED
    BY <1>4, <1>11, <2>1
<1>12. ASSUME NoClaim, DeadSilence \/ Lapse \/ RetryDue PROVE ClaimTellsEra'
  <2>1. row'.claim = row.claim
    BY <1>12 DEF DeadSilence, Lapse, Silence, RetryDue, TypeOK, Row
  <2> QED
    BY <1>3, <1>12, <2>1 DEF DeadSilence, Lapse, Silence, RetryDue, history
<1>13. ASSUME NoClaim, UNCHANGED <<row, era>> PROVE ClaimTellsEra'
  BY <1>3, <1>13
<1>14. ASSUME NoClaim, NEW w \in Workers,
              \/ Start(w) \/ Work(w) \/ MarkRead(w) \/ FailRead(w)
              \/ ShutdownDeadline(w) \/ Crash(w) PROVE ClaimTellsEra'
  BY <1>13, <1>14
  DEF Start, Work, MarkRead, FailRead, ShutdownDeadline, Crash, history
<1>15. ASSUME NoClaim, NEW s \in Sessions,
              EnqueueRead(s) \/ CancelRead(s) \/ ReapRead(s) PROVE ClaimTellsEra'
  BY <1>13, <1>15 DEF EnqueueRead, CancelRead, ReapRead, history
<1>16. \A s \in Sessions : ~EnqueueCommit(s)
  BY DEF EnqueueCommit, NoEnqueueUnderWay
<1>17. \A w \in Workers : ~DeferSummaryRead(w) /\ ~DeferSummaryCommit(w)
  BY DEF DeferSummaryRead, DeferSummaryCommit
<1> QED
  BY <1>2, <1>5, <1>6, <1>7, <1>8, <1>9, <1>10, <1>11, <1>12, <1>13, <1>14,
     <1>15, <1>16, <1>17
  DEF Next, RunStep, SessionCommit, vars

(* A run that is about to commit an outcome had been superseded by nothing when
   it read the row, in the stages whose deferral locks the row and while no
   re-enqueue commits a stale read.                                        *)
THEOREM ClaimCheckSound ==
  ASSUME Stage # "summarize", "enqueue" \notin Troubles
  PROVE  Spec => []LooksBeforeItWrites
<1> DEFINE IInv == /\ TypeOK /\ WritesPending /\ ClaimsMade /\ OneRunPerClaim
                   /\ NoEnqueueUnderWay /\ ClaimTellsEra /\ LooksBeforeItWrites
<1>1. Init => IInv
  BY InitType
  DEF Init, Idle, NoSession, WritesPending, ClaimsMade, OneRunPerClaim,
      NoEnqueueUnderWay, ClaimTellsEra, LooksBeforeItWrites
<1>2. IInv /\ [Next]_vars => IInv'
  BY StepType, StepWritesPending, StepOneRunPerClaim, StepNoEnqueue,
     StepClaimTellsEra, StepLooksBeforeItWrites
<1>3. IInv => LooksBeforeItWrites
  OBVIOUS
<1> QED
  BY <1>1, <1>2, <1>3, PTL DEF Spec

-----------------------------------------------------------------------------
(* The reaper and the retry budget, in every stage, where no session
   re-enqueues: what a reaper or a deferral read some time ago is still true
   enough to be written.                                                   *)

QueuedIsUnclaimed == row.status = "queued" => row.claim = 0

(* A deferral of a summary writes attempts it read without a lock.          *)
DeferralsRead ==
  \A w \in Workers : run[w].pc = "deferCommit" =>
    /\ Stage = "summarize"
    /\ run[w].seen.status \in {"running", "done"} /\ run[w].seen.claim # 0
    /\ row.status = "absent" \/ run[w].seen.attempts <= outages

(* While the row runs under the claim a reaper read, no outage was forgotten,
   and it was heard of since or is still overdue.                          *)
StillAsRead(seen) ==
  row.status = "running" /\ row.id = seen.id /\ row.claim = seen.claim

ReapersRead ==
  \A s \in Sessions : sess[s].pc = "reap" =>
    /\ sess[s].seen.claim <= claims
    /\ StillAsRead(sess[s].seen) =>
         /\ sess[s].seen.attempts <= outages
         /\ \/ row.hb > sess[s].seen.hb
            \/ row.hb = sess[s].seen.hb /\ row.stale

ReadsHold ==
  /\ TypeOK /\ WritesPending /\ ClaimsMade /\ NoEnqueueUnderWay
  /\ row.claim <= claims /\ QueuedIsUnclaimed
  /\ DeferralsRead /\ ReapersRead /\ BudgetCountsOutages

(* A step leaves the row under its claim, claims it from the queue, or leaves
   it not running.                                                         *)
RowKept ==
  /\ row'.status = row.status /\ row'.claim = row.claim /\ row'.id = row.id
  /\ row'.hb > row.hb \/ (row'.hb = row.hb /\ (row.stale => row'.stale))
  /\ outages' = outages /\ claims' = claims

RowTaken ==
  /\ row.status = "queued" /\ row'.status = "running"
  /\ row'.claim = claims + 1 /\ claims' = claims + 1
  /\ outages' = outages

RowLeft ==
  /\ row'.status # "running" /\ claims' = claims
  /\ row'.claim \in {0, row.claim}
  /\ row'.status = "queued" => row'.claim = 0
  /\ Stage = "summarize" =>
       row'.status = "absent" \/ (row.status # "absent" /\ outages' >= outages)

RowGoal == row'.attempts <= outages' /\ (RowKept \/ RowTaken \/ RowLeft)

(* A commit of an outcome or of a cancel writes the status, and perhaps clears
   the attempts.                                                           *)
LEMMA OutcomeCommitted ==
  ASSUME ReadsHold, NEW loaded \in Row, NEW new \in Row, ~Vanished(loaded),
         new.status \in {"done", "error"}, new.gen = loaded.gen, new.claim = loaded.claim,
         new.hb = loaded.hb, new.stale = loaded.stale,
         \/ new.attempts = loaded.attempts /\ new.wait = loaded.wait
         \/ new.attempts = 0 /\ new.wait = FALSE,
         row' = Flush(loaded, new), UNCHANGED <<claims, outages>>
  PROVE  RowGoal
<1>1. row \in Row /\ outages \in Nat /\ row.attempts <= outages
  BY DEF ReadsHold, TypeOK, BudgetCountsOutages
<1>2. /\ row'.claim = row.claim /\ row'.hb = row.hb /\ row'.stale = row.stale
      /\ row'.id = row.id /\ row'.status \in {row.status, new.status}
  BY DEF Flush, Changed
<1>3. row'.attempts \in {row.attempts, 0}
  BY DEF Flush, SameMetrics
<1>4. row'.attempts <= outages'
  BY <1>1, <1>3
<1>5. CASE row'.status = row.status
  BY <1>1, <1>2, <1>4, <1>5 DEF RowGoal, RowKept
<1>6. CASE row'.status = new.status
  BY <1>1, <1>2, <1>4, <1>6 DEF RowGoal, RowLeft, Vanished
<1> QED
  BY <1>2, <1>5, <1>6

LEMMA RunStepRow ==
  ASSUME ReadsHold, NEW w \in Workers, RunStep(w)
  PROVE  RowGoal
<1>1. /\ row \in Row /\ outages \in Nat /\ claims \in Nat /\ row.attempts <= outages
      /\ run[w].seen \in Row /\ row.claim \in Nat
  BY DEF ReadsHold, TypeOK, BudgetCountsOutages, Run, Row
<1>2. ASSUME UNCHANGED <<row, claims, outages>>
      PROVE  RowGoal
  BY <1>1, <1>2 DEF RowGoal, RowKept, Row
<1>3. CASE Start(w) \/ Work(w) \/ MarkRead(w) \/ FailRead(w) \/ DeferSummaryRead(w)
  BY <1>2, <1>3 DEF Start, Work, MarkRead, FailRead, DeferSummaryRead, history
<1>4. CASE StoreBatch(w)
  <2>1. /\ row'.status = row.status /\ row'.claim = row.claim /\ row'.id = row.id
        /\ row'.hb = row.hb /\ row'.stale = row.stale /\ row'.attempts = row.attempts
        /\ UNCHANGED <<claims, outages>>
    BY <1>1, <1>4 DEF StoreBatch, Row
  <2> QED
    BY <1>1, <2>1 DEF RowGoal, RowKept
<1>5. CASE MarkCommit(w)
  <2>1. CASE Vanished(run[w].seen)
    BY <1>2, <1>5, <2>1 DEF MarkCommit, history
  <2>2. CASE ~Vanished(run[w].seen)
    <3> DEFINE new == Finished(run[w].seen)
    <3>1. row' = Flush(run[w].seen, new) /\ UNCHANGED <<claims, outages>>
      BY <1>5, <2>2 DEF MarkCommit, history
    <3>2. /\ new \in Row /\ new.status = "done" /\ new.gen = run[w].seen.gen
          /\ new.claim = run[w].seen.claim /\ new.hb = run[w].seen.hb
          /\ new.stale = run[w].seen.stale
          /\ \/ new.attempts = run[w].seen.attempts /\ new.wait = run[w].seen.wait
             \/ new.attempts = 0 /\ new.wait = FALSE
      BY <1>1, RowsAreRows DEF Finished, Row
    <3> HIDE DEF new
    <3> QED
      BY <1>1, <2>2, <3>1, <3>2, OutcomeCommitted
  <2> QED
    BY <2>1, <2>2
<1>6. CASE FailCommit(w)
  <2>1. CASE Vanished(run[w].seen)
    BY <1>2, <1>6, <2>1 DEF FailCommit, history
  <2>2. CASE ~Vanished(run[w].seen)
    <3> DEFINE new == Failed(run[w].seen)
    <3>1. row' = Flush(run[w].seen, new) /\ UNCHANGED <<claims, outages>>
      BY <1>6, <2>2 DEF FailCommit, history
    <3>2. /\ new \in Row /\ new.status = "error" /\ new.gen = run[w].seen.gen
          /\ new.claim = run[w].seen.claim /\ new.hb = run[w].seen.hb
          /\ new.stale = run[w].seen.stale
          /\ \/ new.attempts = run[w].seen.attempts /\ new.wait = run[w].seen.wait
             \/ new.attempts = 0 /\ new.wait = FALSE
      BY <1>1, RowsAreRows DEF Failed, Row
    <3> HIDE DEF new
    <3> QED
      BY <1>1, <2>2, <3>1, <3>2, OutcomeCommitted
  <2> QED
    BY <2>1, <2>2
<1>7. CASE DeferEmbed(w)
  <2>1. CASE OwnClaim(w) /\ row.status # "error"
    <3>1. row' = Deferred(row) /\ outages' = outages + 1 /\ UNCHANGED claims
      BY <1>7, <2>1 DEF DeferEmbed
    <3>2. Attempts(row) <= outages + 1 /\ Attempts(row) \in Nat
      <4>1. row.attempts \in Nat
        BY <1>1 DEF Row
      <4>2. Attempts(row) \in {1, row.attempts + 1}
        BY DEF Attempts
      <4> QED
        BY <1>1, <4>1, <4>2
    <3>3. /\ row'.attempts = Attempts(row)
          /\ \/ row'.status = "error" /\ row'.claim = row.claim
             \/ row'.status = "queued" /\ row'.claim = 0
      BY <1>1, <3>1 DEF Deferred, Row
    <3>4. Stage # "summarize"
      BY <1>7 DEF DeferEmbed
    <3> QED
      BY <3>1, <3>2, <3>3, <3>4 DEF RowGoal, RowLeft
  <2>2. CASE ~(OwnClaim(w) /\ row.status # "error")
    BY <1>2, <1>7, <2>2 DEF DeferEmbed, history
  <2> QED
    BY <2>1, <2>2
<1>8. CASE DeferSummaryCommit(w)
  <2>1. CASE Vanished(run[w].seen)
    BY <1>2, <1>8, <2>1 DEF DeferSummaryCommit, history
  <2>2. CASE ~Vanished(run[w].seen)
    <3> DEFINE seen == run[w].seen
    <3>1. /\ row' = Flush(seen, Deferred(seen)) /\ outages' = outages + 1 /\ UNCHANGED claims
          /\ Stage = "summarize" /\ run[w].pc = "deferCommit"
      BY <1>8, <2>2 DEF DeferSummaryCommit
    <3>2. /\ seen.status \in {"running", "done"} /\ seen.claim # 0
          /\ row.status # "absent" /\ seen.attempts <= outages
      BY <2>2, <3>1 DEF ReadsHold, DeferralsRead, Vanished
    <3>3. Attempts(seen) = seen.attempts + 1 /\ seen.attempts \in Nat
      BY <1>1, <3>1 DEF Attempts, Row
    <3>4. /\ Deferred(seen).attempts = seen.attempts + 1
          /\ \/ Deferred(seen).status = "error" /\ Deferred(seen).claim = seen.claim
             \/ Deferred(seen).status = "queued" /\ Deferred(seen).claim = 0
      BY <1>1, <3>3 DEF Deferred, Row
    <3>5. /\ row'.attempts = seen.attempts + 1
          /\ \/ row'.status = "error" /\ row'.claim = row.claim
             \/ row'.status = "queued" /\ row'.claim = 0
      BY <3>1, <3>2, <3>3, <3>4 DEF Flush, Changed, SameMetrics
    <3> QED
      BY <1>1, <3>1, <3>2, <3>3, <3>5 DEF RowGoal, RowLeft
  <2> QED
    BY <2>1, <2>2
<1>9. CASE RequeueAfterShutdown(w)
  <2>1. CASE OwnClaim(w) /\ row.status = "running"
    <3>1. row' = Requeued(row) /\ UNCHANGED <<claims, outages>>
      BY <1>9, <2>1 DEF RequeueAfterShutdown
    <3>2. row'.status = "queued" /\ row'.claim = 0 /\ row'.attempts = row.attempts
      BY <1>1, <3>1 DEF Requeued, Row
    <3> QED
      BY <1>1, <2>1, <3>1, <3>2 DEF RowGoal, RowLeft
  <2>2. CASE ~(OwnClaim(w) /\ row.status = "running")
    BY <1>2, <1>9, <2>2 DEF RequeueAfterShutdown
  <2> QED
    BY <2>1, <2>2
<1> QED
  BY <1>3, <1>4, <1>5, <1>6, <1>7, <1>8, <1>9 DEF RunStep

LEMMA SessionStepRow ==
  ASSUME ReadsHold, NEW s \in Sessions,
         EnqueueRead(s) \/ CancelRead(s) \/ ReapRead(s) \/ SessionCommit(s)
  PROVE  RowGoal
<1>1. /\ row \in Row /\ outages \in Nat /\ claims \in Nat /\ row.attempts <= outages
      /\ sess[s].seen \in Row
  BY DEF ReadsHold, TypeOK, BudgetCountsOutages, Session
<1>2. ASSUME UNCHANGED <<row, claims, outages>>
      PROVE  RowGoal
  BY <1>1, <1>2 DEF RowGoal, RowKept, Row
<1>3. CASE EnqueueRead(s) \/ CancelRead(s) \/ ReapRead(s)
  BY <1>2, <1>3 DEF EnqueueRead, CancelRead, ReapRead, history
<1>4. ~EnqueueCommit(s)
  BY DEF EnqueueCommit, ReadsHold, NoEnqueueUnderWay
<1>5. CASE CancelCommit(s)
  <2>1. CASE Vanished(sess[s].seen)
    BY <1>2, <1>5, <2>1 DEF CancelCommit, history
  <2>2. CASE ~Vanished(sess[s].seen)
    <3> DEFINE new == Cancelled(sess[s].seen)
    <3>1. row' = Flush(sess[s].seen, new) /\ UNCHANGED <<claims, outages>>
      BY <1>5, <2>2 DEF CancelCommit, history
    <3>2. /\ new \in Row /\ new.status = "error" /\ new.gen = sess[s].seen.gen
          /\ new.claim = sess[s].seen.claim /\ new.hb = sess[s].seen.hb
          /\ new.stale = sess[s].seen.stale
          /\ new.attempts = sess[s].seen.attempts /\ new.wait = sess[s].seen.wait
      BY <1>1, RowsAreRows DEF Cancelled, Row
    <3> HIDE DEF new
    <3> QED
      BY <1>1, <2>2, <3>1, <3>2, OutcomeCommitted
  <2> QED
    BY <2>1, <2>2
<1>6. CASE Reap(s)
  <2>1. CASE AsRead(sess[s].seen)
    <3>1. sess[s].seen.attempts <= outages /\ row.status = "running"
      BY <1>6, <2>1 DEF Reap, AsRead, ReadsHold, ReapersRead, StillAsRead
    <3>2. /\ row' = [Requeued(row) EXCEPT !.attempts = sess[s].seen.attempts,
                                         !.wait = Requeued(sess[s].seen).wait]
          /\ UNCHANGED <<claims, outages>>
      BY <1>6, <2>1 DEF Reap
    <3>3. row'.status = "queued" /\ row'.claim = 0 /\ row'.attempts = sess[s].seen.attempts
      BY <1>1, <3>2 DEF Requeued, Row
    <3> QED
      BY <1>1, <3>1, <3>2, <3>3 DEF RowGoal, RowLeft
  <2>2. CASE ~AsRead(sess[s].seen)
    BY <1>2, <1>6, <2>2 DEF Reap
  <2> QED
    BY <2>1, <2>2
<1> QED
  BY <1>3, <1>4, <1>5, <1>6 DEF SessionCommit

LEMMA StepRow ==
  ASSUME ReadsHold, [Next]_vars
  PROVE  RowGoal
<1>1. /\ row \in Row /\ outages \in Nat /\ claims \in Nat /\ row.attempts <= outages
      /\ row.hb \in Nat /\ row.stale \in BOOLEAN
  BY DEF ReadsHold, TypeOK, BudgetCountsOutages, Row
<1>2. ASSUME UNCHANGED <<row, claims, outages>>
      PROVE  RowGoal
  BY <1>1, <1>2 DEF RowGoal, RowKept
<1>3. ASSUME NEW w \in Workers, Claim(w)
      PROVE  RowGoal
  <2>1. /\ row.status = "queued" /\ claims' = claims + 1 /\ UNCHANGED outages
        /\ row' = [row EXCEPT !.status = "running", !.claim = claims + 1,
                              !.hb = 1, !.stale = FALSE]
    BY <1>3 DEF Claim, Claimable, ThisClaim
  <2>2. row'.status = "running" /\ row'.claim = claims + 1 /\ row'.attempts = row.attempts
    BY <1>1, <2>1 DEF Row
  <2> QED
    BY <1>1, <2>1, <2>2 DEF RowGoal, RowTaken
<1>4. ASSUME NEW w \in Workers, Heartbeat(w)
      PROVE  RowGoal
  <2>1. /\ row' = [row EXCEPT !.hb = row.hb + 1, !.stale = FALSE]
        /\ UNCHANGED <<claims, outages>>
    BY <1>4 DEF Heartbeat, history
  <2>2. /\ row'.status = row.status /\ row'.claim = row.claim /\ row'.id = row.id
        /\ row'.hb = row.hb + 1 /\ row'.attempts = row.attempts
    BY <1>1, <2>1 DEF Row
  <2> QED
    BY <1>1, <2>1, <2>2 DEF RowGoal, RowKept
<1>5. ASSUME NEW w \in Workers, ShutdownDeadline(w) \/ Crash(w)
      PROVE  RowGoal
  BY <1>2, <1>5 DEF ShutdownDeadline, Crash, history
<1>6. CASE DeadSilence \/ Lapse \/ RetryDue
  <2>1. /\ row'.status = row.status /\ row'.claim = row.claim /\ row'.id = row.id
        /\ row'.hb = row.hb /\ (row.stale => row'.stale) /\ row'.attempts = row.attempts
        /\ UNCHANGED <<claims, outages>>
    BY <1>1, <1>6 DEF DeadSilence, Lapse, Silence, RetryDue, history, Row
  <2> QED
    BY <1>1, <2>1 DEF RowGoal, RowKept
<1>7. CASE Bump
  <2>1. /\ NoRow.claim = 0 /\ NoRow.attempts = 0 /\ NoRow.status = "absent"
        /\ \A id, g \in Nat : /\ NewRow(id, g).claim = 0 /\ NewRow(id, g).attempts = 0
                              /\ NewRow(id, g).status = "queued"
    BY DEF NoRow, NewRow
  <2>2. docGen + 1 \in Nat /\ era + 1 \in Nat /\ row.id \in Nat
    BY DEF ReadsHold, TypeOK, Row
  <2>3. /\ row'.claim = 0 /\ row'.attempts = 0
        /\ IF Stage = "extract" THEN row'.status = "queued" ELSE row'.status = "absent"
    BY <1>7, <2>1, <2>2 DEF Bump
  <2>4. outages' = 0 /\ UNCHANGED claims
    BY <1>7 DEF Bump
  <2> QED
    BY <2>3, <2>4 DEF RowGoal, RowLeft
<1>8. CASE UNCHANGED vars
  BY <1>2, <1>8 DEF vars
<1> QED
  BY <1>3, <1>4, <1>5, <1>6, <1>7, <1>8, RunStepRow, SessionStepRow DEF Next

(* A deferral or a reaper gets to its commit by a read in this state.       *)
LEMMA DeferralBegins ==
  ASSUME ReadsHold, [Next]_vars, NEW v \in Workers, run'[v].pc = "deferCommit"
  PROVE  \/ run'[v] = run[v]
         \/ /\ Stage = "summarize" /\ OwnClaim(v) /\ row.status # "error"
            /\ run[v].pc = "defer" /\ run'[v].seen = row /\ UNCHANGED <<row, outages>>
<1>1. run \in [Workers -> Run]
  BY DEF ReadsHold, TypeOK
<1>2. ASSUME NEW w \in Workers, EndRun(w) PROVE w # v /\ run'[v] = run[v]
  BY <1>1, <1>2 DEF EndRun, Idle
<1>3. ASSUME NEW w \in Workers, NEW pc \in PC \ {"deferCommit"}, Goto(w, pc) \/ Loaded(w, pc)
      PROVE  w # v /\ run'[v] = run[v]
  BY <1>1, <1>3 DEF Goto, Loaded, Run
<1>4. ASSUME NEW w \in Workers, DeferSummaryRead(w)
      PROVE  \/ run'[v] = run[v]
             \/ /\ Stage = "summarize" /\ OwnClaim(v) /\ row.status # "error"
                /\ run[v].pc = "defer" /\ run'[v].seen = row /\ UNCHANGED <<row, outages>>
  <2>1. CASE OwnClaim(w) /\ row.status # "error"
    <3>1. CASE w = v
      BY <1>1, <1>4, <2>1, <3>1 DEF DeferSummaryRead, Loaded, Run, history
    <3>2. CASE w # v
      BY <1>1, <1>4, <2>1, <3>2 DEF DeferSummaryRead, Loaded, Run
    <3> QED
      BY <3>1, <3>2
  <2>2. CASE ~(OwnClaim(w) /\ row.status # "error")
    BY <1>2, <1>4, <2>2 DEF DeferSummaryRead
  <2> QED
    BY <2>1, <2>2
<1>5. ASSUME NEW w \in Workers, Claim(w) \/ Start(w)
      PROVE  run'[v] = run[v]
  <2>1. CASE Claim(w)
    BY <1>1, <2>1 DEF Claim, Idle
  <2>2. CASE Start(w) /\ Wanted(w)
    BY <1>1, <2>2 DEF Start, Run
  <2>3. CASE Start(w) /\ ~Wanted(w)
    BY <1>2, <2>3 DEF Start
  <2> QED
    BY <1>5, <2>1, <2>2, <2>3
<1>6. ASSUME NEW w \in Workers, Work(w) \/ ShutdownDeadline(w) \/ MarkRead(w) \/ FailRead(w)
      PROVE  run'[v] = run[v]
  BY <1>2, <1>3, <1>6 DEF Work, ShutdownDeadline, MarkRead, FailRead, PC
<1>7. ASSUME NEW w \in Workers, StoreBatch(w)
      PROVE  run'[v] = run[v]
  <2>1. CASE Vanished(run[w].seen)
    BY <1>3, <1>7, <2>1 DEF StoreBatch, PC
  <2>2. CASE ~Vanished(run[w].seen)
    BY <1>1, <1>7, <2>2 DEF StoreBatch, Run
  <2> QED
    BY <2>1, <2>2
<1>8. ASSUME NEW w \in Workers, MarkCommit(w)
      PROVE  run'[v] = run[v]
  BY <1>2, <1>3, <1>8 DEF MarkCommit, PC
<1>9. ASSUME NEW w \in Workers,
             \/ FailCommit(w) \/ DeferEmbed(w) \/ DeferSummaryCommit(w)
             \/ RequeueAfterShutdown(w) \/ Crash(w)
      PROVE  run'[v] = run[v]
  BY <1>2, <1>9 DEF FailCommit, DeferEmbed, DeferSummaryCommit, RequeueAfterShutdown, Crash
<1>10. \/ UNCHANGED run
       \/ \E w \in Workers : Claim(w) \/ RunStep(w) \/ ShutdownDeadline(w) \/ Crash(w)
  BY DEF Next, SessionCommit, Heartbeat, EnqueueRead, CancelRead, ReapRead,
         EnqueueCommit, CancelCommit, Reap, DeadSilence, Lapse, Silence,
         RetryDue, Bump, vars
<1> QED
  BY <1>4, <1>5, <1>6, <1>7, <1>8, <1>9, <1>10 DEF RunStep

LEMMA ReaperBegins ==
  ASSUME TypeOK, [Next]_vars, NEW s \in Sessions, sess'[s].pc = "reap"
  PROVE  \/ sess'[s] = sess[s]
         \/ /\ sess'[s].seen = row /\ row.status = "running" /\ row.stale
            /\ UNCHANGED <<row, claims, outages>>
<1>1. sess \in [Sessions -> Session]
  BY DEF TypeOK
<1>2. ASSUME NEW t \in Sessions, Close(t) PROVE sess'[s] = sess[s]
  BY <1>1, <1>2 DEF Close, NoSession
<1>3. ASSUME NEW t \in Sessions, NEW pc \in {"enqueue", "cancel"}, Open(t, pc)
      PROVE  sess'[s] = sess[s]
  BY <1>1, <1>3 DEF Open
<1>4. ASSUME NEW t \in Sessions, ReapRead(t)
      PROVE  \/ sess'[s] = sess[s]
             \/ /\ sess'[s].seen = row /\ row.status = "running" /\ row.stale
                /\ UNCHANGED <<row, claims, outages>>
  <2>1. CASE t = s
    BY <1>1, <1>4, <2>1 DEF ReapRead, Open, history
  <2>2. CASE t # s
    BY <1>1, <1>4, <2>2 DEF ReapRead, Open
  <2> QED
    BY <2>1, <2>2
<1>5. \/ UNCHANGED sess
      \/ \E t \in Sessions : EnqueueRead(t) \/ CancelRead(t) \/ ReapRead(t) \/ SessionCommit(t)
  BY DEF Next, RunStep, Claim, Heartbeat, Start, Work, StoreBatch, MarkRead,
      MarkCommit, FailRead, FailCommit, DeferEmbed, DeferSummaryRead,
      DeferSummaryCommit, RequeueAfterShutdown, ShutdownDeadline, Crash,
      DeadSilence, Lapse, Silence, RetryDue, Bump, vars
<1> QED
  BY <1>2, <1>3, <1>4, <1>5
  DEF EnqueueRead, CancelRead, SessionCommit, EnqueueCommit, CancelCommit, Reap

LEMMA StepReadsHold ==
  ASSUME ReadsHold, [Next]_vars, "enqueue" \notin Troubles
  PROVE  ReadsHold'
<1>1. /\ TypeOK' /\ WritesPending' /\ NoEnqueueUnderWay'
  BY StepType, StepWritesPending, StepNoEnqueue DEF ReadsHold
<1>2. claims' >= claims
  BY StepClaims DEF ReadsHold
<1>3. ClaimsMade'
  <2>1. \A v \in Workers : Claim(v) => run'[v].claim = claims + 1 /\ claims' = claims + 1
    BY StepClaims DEF ReadsHold
  <2>2. \A v \in Workers : run'[v].pc = "idle" \/ Claim(v) \/ RunGoesOn(v)
    BY StepRuns DEF ReadsHold, RunLemmaGoal
  <2>3. claims \in Nat /\ claims' \in Nat
    BY <1>1 DEF ReadsHold, TypeOK
  <2> QED
    BY <1>2, <2>1, <2>2, <2>3 DEF ReadsHold, ClaimsMade, RunGoesOn
<1>4. /\ row'.attempts <= outages' /\ (RowKept \/ RowTaken \/ RowLeft)
  BY StepRow DEF RowGoal
<1>5. /\ claims \in Nat /\ claims' \in Nat /\ outages \in Nat /\ outages' \in Nat
      /\ row.claim \in Nat /\ row.hb \in Nat /\ row'.hb \in Nat
      /\ row.status # "running" \/ row.status # "queued"
      /\ row.claim <= claims
  BY <1>1 DEF ReadsHold, TypeOK, Row
<1>6. row'.claim <= claims' /\ QueuedIsUnclaimed'
  BY <1>2, <1>4, <1>5 DEF ReadsHold, QueuedIsUnclaimed, RowKept, RowTaken, RowLeft
<1>7. ASSUME NEW v \in Workers, run'[v].pc = "deferCommit"
      PROVE  /\ Stage = "summarize"
             /\ run'[v].seen.status \in {"running", "done"} /\ run'[v].seen.claim # 0
             /\ row'.status = "absent" \/ run'[v].seen.attempts <= outages'
  <2>1. CASE run'[v] = run[v]
    <3>1. /\ Stage = "summarize"
          /\ run[v].seen.status \in {"running", "done"} /\ run[v].seen.claim # 0
          /\ row.status = "absent" \/ run[v].seen.attempts <= outages
          /\ run[v].seen.attempts \in Nat
      BY <1>7, <2>1 DEF ReadsHold, DeferralsRead, TypeOK, Run, Row
    <3>2. row'.status = "absent" \/ (row.status # "absent" /\ outages' >= outages)
      BY <1>4, <1>5, <3>1 DEF RowKept, RowTaken, RowLeft
    <3> QED
      BY <1>5, <2>1, <3>1, <3>2
  <2>2. CASE /\ Stage = "summarize" /\ OwnClaim(v) /\ row.status # "error"
             /\ run[v].pc = "defer" /\ run'[v].seen = row /\ UNCHANGED <<row, outages>>
    <3>1. row.claim # 0
      BY <2>2 DEF OwnClaim, ReadsHold, ClaimsMade
    <3>2. row.status \in {"running", "done"}
      BY <2>2, <3>1 DEF OwnClaim, ReadsHold, QueuedIsUnclaimed, TypeOK, Row, Status
    <3> QED
      BY <2>2, <3>1, <3>2 DEF ReadsHold, BudgetCountsOutages
  <2> QED
    BY <1>7, <2>1, <2>2, DeferralBegins
<1>8. ASSUME NEW s \in Sessions, sess'[s].pc = "reap"
      PROVE  /\ sess'[s].seen.claim <= claims'
             /\ StillAsRead(sess[s].seen)' =>
                  /\ sess'[s].seen.attempts <= outages'
                  /\ \/ row'.hb > sess'[s].seen.hb
                     \/ row'.hb = sess'[s].seen.hb /\ row'.stale
  <2>1. CASE sess'[s] = sess[s]
    <3> DEFINE seen == sess[s].seen
    <3>1. seen \in Row /\ seen.claim \in Nat /\ seen.hb \in Nat /\ seen.attempts \in Nat
      BY DEF ReadsHold, TypeOK, Session, Row
    <3>2. /\ seen.claim <= claims
          /\ StillAsRead(seen) =>
               /\ seen.attempts <= outages
               /\ row.hb > seen.hb \/ (row.hb = seen.hb /\ row.stale)
      BY <1>8, <2>1 DEF ReadsHold, ReapersRead
    <3>3. ASSUME row'.status = "running", row'.id = seen.id, row'.claim = seen.claim
          PROVE  RowKept
      BY <1>4, <1>5, <3>1, <3>2, <3>3 DEF RowTaken, RowLeft
    <3>4. ASSUME row'.status = "running", row'.id = seen.id, row'.claim = seen.claim
          PROVE  /\ seen.attempts <= outages'
                 /\ row'.hb > seen.hb \/ (row'.hb = seen.hb /\ row'.stale)
      BY <1>5, <3>1, <3>2, <3>3, <3>4 DEF RowKept, StillAsRead
    <3> QED
      BY <1>2, <1>5, <2>1, <3>1, <3>2, <3>4 DEF StillAsRead
  <2>2. CASE /\ sess'[s].seen = row /\ row.status = "running" /\ row.stale
             /\ UNCHANGED <<row, claims, outages>>
    BY <1>5, <2>2 DEF ReadsHold, BudgetCountsOutages
  <2> QED
    BY <1>8, <2>1, <2>2, ReaperBegins DEF ReadsHold
<1> QED
  BY <1>1, <1>3, <1>4, <1>6, <1>7, <1>8
  DEF ReadsHold, DeferralsRead, ReapersRead, BudgetCountsOutages

LEMMA InitReadsHold == Init => ReadsHold
<1> SUFFICES ASSUME Init PROVE ReadsHold
  OBVIOUS
<1>1. TypeOK
  BY InitType
<1>2. row.claim = 0 /\ row.attempts = 0 /\ claims = 0 /\ outages = 0
  BY DEF Init, NewRow, NoRow
<1>3. /\ WritesPending /\ ClaimsMade /\ NoEnqueueUnderWay /\ DeferralsRead /\ ReapersRead
  BY DEF Init, Idle, NoSession, WritesPending, ClaimsMade, NoEnqueueUnderWay, DeferralsRead,
         ReapersRead
<1> QED
  BY <1>1, <1>2, <1>3 DEF ReadsHold, QueuedIsUnclaimed, BudgetCountsOutages

(* The retry budget is spent by nothing but outages, whatever crashes, lapses,
   cancels, generation bumps and shutdowns come in between.                *)
THEOREM OutagesSpendBudget ==
  ASSUME "enqueue" \notin Troubles
  PROVE  Spec => []BudgetCountsOutages
<1>1. Init => ReadsHold
  BY InitReadsHold
<1>2. ReadsHold /\ [Next]_vars => ReadsHold'
  BY StepReadsHold
<1>3. ReadsHold => BudgetCountsOutages
  BY DEF ReadsHold
<1> QED
  BY <1>1, <1>2, <1>3, PTL DEF Spec

-----------------------------------------------------------------------------
(* The reaper where sessions re-enqueue, in the stages whose deferral locks
   the row.  A session that re-enqueues may commit over a row that was claimed
   since it read it.  Either it read the row done or failed, and the row
   leaves "running"; or it read a queued row of an older generation, which has
   no claim and no heartbeat, and the commit leaves those alone.           *)

Clean(r) == r.claim = 0 /\ r.hb = 0 /\ ~r.stale

OldRowsRest ==
  row.status # "absent" /\ row.gen # docGen => row.status # "running" /\ Clean(row)

ExtractStays == Stage = "extract" => row.status # "absent" /\ row.gen = docGen

(* A session that has read a row is of the document's generation for as long
   as that row is there; a bump replaces all rows but extract's.           *)
EnqueuerReads(s, seen, g) ==
  /\ seen.id <= era
  /\ seen.status # "running"
  /\ seen.status = "queued" => Clean(seen)
  /\ Stage = "extract" => seen.status # "absent" /\ seen.gen = g
  /\ /\ Stage # "extract" /\ seen.status # "absent"
     /\ row.status # "absent" /\ row.id = seen.id
     => g = docGen

EnqueuersRead ==
  \A s \in Sessions :
    sess[s].pc = "enqueue" => EnqueuerReads(s, sess[s].seen, sess[s].gen)

OverdueAsRead(seen) ==
  /\ seen.claim <= claims
  /\ row.status = "running" /\ row.claim = seen.claim =>
       row.hb > seen.hb \/ (row.hb = seen.hb /\ row.stale)

ReapersWait == \A s \in Sessions : sess[s].pc = "reap" => OverdueAsRead(sess[s].seen)

RowsRest ==
  /\ TypeOK /\ WritesPending
  /\ row.claim <= claims /\ row.id <= era
  /\ OldRowsRest /\ ExtractStays /\ EnqueuersRead /\ ReapersWait

(* A step leaves the row its claim and heartbeats or ends its run; or claims
   it; or replaces it by a new one.                                        *)
GoesOn ==
  /\ UNCHANGED <<docGen, claims>> /\ era' >= era
  /\ row'.id = row.id /\ row'.gen \in {row.gen, docGen}
  /\ row'.status = "absent" <=> row.status = "absent"
  /\ row'.claim \in {0, row.claim}
  /\ row'.status = "running" =>
       /\ row.status = "running" /\ row'.claim = row.claim
       /\ row'.hb > row.hb \/ (row'.hb = row.hb /\ (row.stale => row'.stale))
  /\ Clean(row) /\ row.status # "running" => Clean(row')

IsClaimed ==
  /\ UNCHANGED docGen /\ claims' = claims + 1 /\ era' >= era
  /\ row'.id = row.id /\ row.gen = docGen /\ row'.gen = docGen
  /\ row.status # "absent" /\ row'.status # "absent" /\ row'.claim = claims + 1

IsReplaced ==
  /\ UNCHANGED claims /\ era' >= era /\ row'.id <= era'
  /\ row'.status \in {"absent", "queued"} /\ Clean(row')
  /\ Stage = "extract" => row'.status # "absent" /\ row'.gen = docGen'
  /\ Stage # "extract" => row'.status = "absent" \/ row'.id > era

RowMoves == GoesOn \/ IsClaimed \/ IsReplaced

LEMMA StillGoesOn ==
  ASSUME TypeOK, UNCHANGED <<docGen, row, claims>>, era' = era
  PROVE  GoesOn
BY DEF GoesOn, TypeOK, Row

(* What a commit of an outcome or of a cancel leaves alone.                 *)
LEMMA OutcomeColumns ==
  ASSUME NEW seen \in Row
  PROVE  \A new \in {Finished(seen), Failed(seen), Cancelled(seen)} :
           /\ new \in Row /\ new.status \in {"done", "error"} /\ new.gen = seen.gen
           /\ new.claim = seen.claim /\ new.hb = seen.hb /\ new.stale = seen.stale
<1>1. /\ Finished(seen).status = "done" /\ Finished(seen).gen = seen.gen
      /\ Finished(seen).claim = seen.claim /\ Finished(seen).hb = seen.hb
      /\ Finished(seen).stale = seen.stale
  BY DEF Finished, Row
<1>2. /\ Failed(seen).status = "error" /\ Failed(seen).gen = seen.gen
      /\ Failed(seen).claim = seen.claim /\ Failed(seen).hb = seen.hb
      /\ Failed(seen).stale = seen.stale
  BY DEF Failed, Row
<1>3. /\ Cancelled(seen).status = "error" /\ Cancelled(seen).gen = seen.gen
      /\ Cancelled(seen).claim = seen.claim /\ Cancelled(seen).hb = seen.hb
      /\ Cancelled(seen).stale = seen.stale
  BY DEF Cancelled, Row
<1> QED
  BY <1>1, <1>2, <1>3, RowsAreRows

LEMMA OutcomeGoesOn ==
  ASSUME TypeOK, NEW seen \in Row, ~Vanished(seen),
         NEW new \in {Finished(seen), Failed(seen), Cancelled(seen)},
         row' = Flush(seen, new), UNCHANGED <<docGen, claims>>, era' = era
  PROVE  GoesOn
<1>1. /\ new.status \in {"done", "error"} /\ new.gen = seen.gen
      /\ new.claim = seen.claim /\ new.hb = seen.hb /\ new.stale = seen.stale
  BY OutcomeColumns
<1> HIDE DEF Finished, Failed, Cancelled
<1>2. /\ row'.claim = row.claim /\ row'.hb = row.hb /\ row'.stale = row.stale
      /\ row'.id = row.id /\ row'.gen = row.gen
      /\ row'.status \in {row.status, new.status}
  BY <1>1 DEF Flush, Changed
<1>3. row.status # "absent" /\ row.hb \in Nat /\ era \in Nat
  BY DEF Vanished, TypeOK, Row
<1>4. \/ row'.status = row.status
      \/ row'.status \in {"done", "error"}
  BY <1>1, <1>2
<1> QED
  BY <1>2, <1>3, <1>4 DEF GoesOn, Clean

LEMMA RunStepMoves ==
  ASSUME TypeOK, Stage # "summarize", NEW w \in Workers, RunStep(w)
  PROVE  GoesOn
<1>1. /\ row \in Row /\ run[w].seen \in Row /\ era \in Nat
      /\ row.hb \in Nat /\ row.claim \in Nat /\ row.stale \in BOOLEAN
  BY DEF TypeOK, Run, Row
<1>2. CASE Start(w) \/ Work(w) \/ MarkRead(w) \/ FailRead(w)
  BY <1>2, StillGoesOn DEF Start, Work, MarkRead, FailRead, history
<1>3. CASE StoreBatch(w)
  <2>1. /\ row'.status = row.status /\ row'.claim = row.claim /\ row'.id = row.id
        /\ row'.hb = row.hb /\ row'.stale = row.stale /\ row'.gen = row.gen
        /\ UNCHANGED <<docGen, claims>> /\ era' = era
    BY <1>1, <1>3 DEF StoreBatch, Row
  <2> QED
    BY <1>1, <2>1 DEF GoesOn, Clean
<1>4. CASE MarkCommit(w)
  <2>1. CASE Vanished(run[w].seen)
    BY <1>4, <2>1, StillGoesOn DEF MarkCommit, history
  <2>2. CASE ~Vanished(run[w].seen)
    BY <1>1, <1>4, <2>2, OutcomeGoesOn DEF MarkCommit, history
  <2> QED
    BY <2>1, <2>2
<1>5. CASE FailCommit(w)
  <2>1. CASE Vanished(run[w].seen)
    BY <1>5, <2>1, StillGoesOn DEF FailCommit, history
  <2>2. CASE ~Vanished(run[w].seen)
    BY <1>1, <1>5, <2>2, OutcomeGoesOn DEF FailCommit, history
  <2> QED
    BY <2>1, <2>2
<1>6. CASE DeferEmbed(w)
  <2>1. CASE OwnClaim(w) /\ row.status # "error"
    <3>1. /\ row' = Deferred(row) /\ era' = era + 1 /\ UNCHANGED <<docGen, claims>>
          /\ row.status # "absent"
      BY <1>6, <2>1 DEF DeferEmbed, OwnClaim
    <3>2. /\ row'.id = row.id /\ row'.gen = row.gen /\ row'.hb = 0
          /\ row'.status \in {"queued", "error"} /\ row'.claim \in {0, row.claim}
          /\ row'.stale => row.stale
      BY <1>1, <3>1 DEF Deferred, Row
    <3> QED
      BY <1>1, <3>1, <3>2 DEF GoesOn, Clean
  <2>2. CASE ~(OwnClaim(w) /\ row.status # "error")
    BY <1>6, <2>2, StillGoesOn DEF DeferEmbed, history
  <2> QED
    BY <2>1, <2>2
<1>7. CASE RequeueAfterShutdown(w)
  <2>1. CASE OwnClaim(w) /\ row.status = "running"
    <3>1. row' = Requeued(row) /\ UNCHANGED <<docGen, claims>> /\ era' = era + 1
      BY <1>7, <2>1 DEF RequeueAfterShutdown
    <3>2. /\ row'.id = row.id /\ row'.gen = row.gen /\ row'.hb = 0
          /\ row'.status = "queued" /\ row'.claim = 0
      BY <1>1, <3>1 DEF Requeued, Row
    <3> QED
      BY <1>1, <2>1, <3>1, <3>2 DEF GoesOn
  <2>2. CASE ~(OwnClaim(w) /\ row.status = "running")
    BY <1>7, <2>2, StillGoesOn DEF RequeueAfterShutdown
  <2> QED
    BY <2>1, <2>2
<1>8. ~DeferSummaryRead(w) /\ ~DeferSummaryCommit(w)
  BY DEF DeferSummaryRead, DeferSummaryCommit
<1> QED
  BY <1>2, <1>3, <1>4, <1>5, <1>6, <1>7, <1>8 DEF RunStep

(* The one commit that can meet a row that was claimed since.               *)
LEMMA EnqueueMoves ==
  ASSUME RowsRest, NEW s \in Sessions, EnqueueCommit(s)
  PROVE  GoesOn \/ IsReplaced
<1> DEFINE seen == sess[s].seen
           g == sess[s].gen
           new == Enqueued(seen, g)
<1>1. /\ row \in Row /\ seen \in Row /\ era \in Nat /\ g \in Nat /\ docGen \in Nat
      /\ row.hb \in Nat /\ row.stale \in BOOLEAN /\ row.id \in Nat
  BY DEF RowsRest, TypeOK, Session, Row
<1>2. EnqueuerReads(s, seen, g) /\ UNCHANGED <<docGen, claims>>
  BY DEF EnqueueCommit, RowsRest, EnqueuersRead
<1>3. CASE seen.status = "absent" /\ row.status = "absent" /\ row' = NewRow(era + 1, g)
           /\ era' = era + 1
  <2>1. /\ row'.id = era + 1 /\ row'.status = "queued"
        /\ row'.claim = 0 /\ row'.hb = 0 /\ row'.stale = FALSE
    BY <1>3 DEF NewRow, NoRow
  <2>2. Stage # "extract"
    BY <1>2, <1>3 DEF EnqueuerReads
  <2> QED
    BY <1>1, <1>2, <1>3, <2>1, <2>2 DEF IsReplaced, Clean
<1>4. CASE seen.status # "absent" /\ ~Vanished(seen) /\ row' = Flush(seen, new)
           /\ era' = era + 1
  <2>1. /\ new.status = "queued" /\ new.claim = 0 /\ new.hb = 0 /\ new.stale = FALSE
        /\ new.gen = g
    BY <1>1 DEF Enqueued, Row
  <2> HIDE DEF new
  <2>2. /\ row'.id = row.id
        /\ row'.status = IF seen.status = "queued" THEN row.status ELSE "queued"
        /\ row'.claim = IF seen.claim = 0 THEN row.claim ELSE 0
        /\ row'.hb = IF seen.hb = 0 THEN row.hb ELSE 0
        /\ row'.stale = IF seen.stale = FALSE THEN row.stale ELSE FALSE
        /\ row'.gen = IF seen.gen = g THEN row.gen ELSE g
    BY <1>4, <2>1 DEF Flush, Changed
  <2>3. row.status # "absent" /\ row.id = seen.id
    BY <1>4 DEF Vanished
  <2>4. row'.gen \in {row.gen, docGen}
    BY <1>2, <1>4, <2>2, <2>3 DEF EnqueuerReads
  <2>5. row'.status = "running" =>
          /\ row.status = "running" /\ row'.claim = row.claim
          /\ row'.hb = row.hb /\ row'.stale = row.stale
    <3>1. CASE seen.status = "queued"
      <4>1. Clean(seen)
        BY <1>2, <3>1 DEF EnqueuerReads
      <4>2. seen.claim = 0 /\ seen.hb = 0 /\ seen.stale = FALSE
        BY <1>1, <4>1 DEF Clean, Row
      <4> QED
        BY <2>2, <3>1, <4>2
    <3>2. CASE seen.status # "queued"
      BY <2>2, <3>2
    <3> QED
      BY <3>1, <3>2
  <2>6. ASSUME Clean(row) PROVE Clean(row')
    BY <2>2, <2>6 DEF Clean
  <2>7. row'.status = "absent" <=> row.status = "absent"
    BY <2>2, <2>3
  <2>8. row'.claim \in {0, row.claim} /\ era' >= era
    BY <1>1, <1>4, <2>2
  <2> QED
    BY <1>1, <1>2, <2>2, <2>3, <2>4, <2>5, <2>6, <2>7, <2>8 DEF GoesOn
<1>5. CASE UNCHANGED <<row, history>>
  BY <1>2, <1>5, StillGoesOn DEF RowsRest, history
<1> QED
  BY <1>3, <1>4, <1>5 DEF EnqueueCommit

LEMMA SessionMovesRow ==
  ASSUME RowsRest, NEW s \in Sessions,
         EnqueueRead(s) \/ CancelRead(s) \/ ReapRead(s) \/ SessionCommit(s)
  PROVE  GoesOn \/ IsReplaced
<1>1. /\ TypeOK /\ row \in Row /\ sess[s].seen \in Row /\ era \in Nat
  BY DEF RowsRest, TypeOK, Session
<1>2. CASE EnqueueRead(s) \/ CancelRead(s) \/ ReapRead(s)
  BY <1>1, <1>2, StillGoesOn DEF EnqueueRead, CancelRead, ReapRead, history
<1>3. CASE CancelCommit(s)
  <2>1. CASE Vanished(sess[s].seen)
    BY <1>1, <1>3, <2>1, StillGoesOn DEF CancelCommit, history
  <2>2. CASE ~Vanished(sess[s].seen)
    BY <1>1, <1>3, <2>2, OutcomeGoesOn DEF CancelCommit, history
  <2> QED
    BY <2>1, <2>2
<1>4. CASE Reap(s)
  <2>1. CASE AsRead(sess[s].seen)
    <3>1. /\ row' = [Requeued(row) EXCEPT !.attempts = sess[s].seen.attempts,
                                         !.wait = Requeued(sess[s].seen).wait]
          /\ UNCHANGED <<docGen, claims>> /\ era' = era + 1 /\ row.status = "running"
      BY <1>4, <2>1 DEF Reap, AsRead
    <3>2. /\ row'.id = row.id /\ row'.gen = row.gen
          /\ row'.status = "queued" /\ row'.claim = 0
      BY <1>1, <3>1 DEF Requeued, Row
    <3> QED
      BY <1>1, <3>1, <3>2 DEF GoesOn
  <2>2. CASE ~AsRead(sess[s].seen)
    BY <1>1, <1>4, <2>2, StillGoesOn DEF Reap
  <2> QED
    BY <2>1, <2>2
<1> QED
  BY <1>2, <1>3, <1>4, EnqueueMoves DEF SessionCommit

LEMMA StepMovesRow ==
  ASSUME RowsRest, Stage # "summarize", [Next]_vars
  PROVE  RowMoves
<1>1. /\ TypeOK /\ row \in Row /\ era \in Nat /\ claims \in Nat /\ docGen \in Nat
      /\ row.hb \in Nat /\ row.stale \in BOOLEAN /\ row.id \in Nat
  BY DEF RowsRest, TypeOK, Row
<1>2. ASSUME NEW w \in Workers, Claim(w)
      PROVE  IsClaimed
  <2>1. /\ row.status = "queued" /\ row.gen = docGen /\ claims' = claims + 1
        /\ era' = era + 1 /\ UNCHANGED docGen
        /\ row' = [row EXCEPT !.status = "running", !.claim = claims + 1,
                              !.hb = 1, !.stale = FALSE]
    BY <1>2 DEF Claim, Claimable, ThisClaim
  <2>2. /\ row'.status = "running" /\ row'.claim = claims + 1 /\ row'.id = row.id
        /\ row'.gen = row.gen
    BY <1>1, <2>1 DEF Row
  <2> QED
    BY <1>1, <2>1, <2>2 DEF IsClaimed
<1>3. ASSUME NEW w \in Workers, Heartbeat(w)
      PROVE  GoesOn
  <2>1. /\ row' = [row EXCEPT !.hb = row.hb + 1, !.stale = FALSE] /\ row.stale
        /\ UNCHANGED <<docGen, claims>> /\ era' = era
    BY <1>3 DEF Heartbeat, history
  <2>2. /\ row'.status = row.status /\ row'.claim = row.claim /\ row'.id = row.id
        /\ row'.hb = row.hb + 1 /\ row'.gen = row.gen
    BY <1>1, <2>1 DEF Row
  <2> QED
    BY <1>1, <2>1, <2>2 DEF GoesOn, Clean
<1>4. ASSUME NEW w \in Workers, ShutdownDeadline(w) \/ Crash(w)
      PROVE  GoesOn
  BY <1>1, <1>4, StillGoesOn DEF ShutdownDeadline, Crash, history
<1>5. CASE DeadSilence \/ Lapse \/ RetryDue
  <2>1. /\ row'.status = row.status /\ row'.claim = row.claim /\ row'.id = row.id
        /\ row'.hb = row.hb /\ (row.stale => row'.stale) /\ row'.gen = row.gen
        /\ row.status # "running" => row'.stale = row.stale
        /\ UNCHANGED <<docGen, claims>> /\ era' = era
    BY <1>1, <1>5 DEF DeadSilence, Lapse, Silence, RetryDue, history, Row
  <2> QED
    BY <1>1, <2>1 DEF RowMoves, GoesOn, Clean
<1>6. CASE Bump
  <2>1. /\ Clean(NoRow) /\ NoRow.id = 0 /\ NoRow.status = "absent"
        /\ \A id, n \in Nat : /\ Clean(NewRow(id, n)) /\ NewRow(id, n).id = id
                              /\ NewRow(id, n).gen = n /\ NewRow(id, n).status = "queued"
    BY DEF NoRow, NewRow, Clean
  <2>2. UNCHANGED claims /\ era' = era + 1 /\ docGen' = docGen + 1
    BY <1>6 DEF Bump
  <2>3. CASE Stage = "extract"
    <3>1. PICK id \in {row.id, era + 1} : row' = NewRow(id, docGen + 1)
      BY <1>6, <2>3 DEF Bump
    <3>2. id <= era + 1 /\ id \in Nat /\ docGen + 1 \in Nat
      BY <1>1, <3>1 DEF RowsRest
    <3>3. /\ Clean(row)' /\ row'.id = id /\ row'.gen = docGen + 1
          /\ row'.status = "queued"
      BY <2>1, <3>1, <3>2 DEF Clean
    <3> QED
      BY <1>1, <2>2, <2>3, <3>2, <3>3 DEF RowMoves, IsReplaced, Clean
  <2>4. CASE Stage # "extract"
    BY <1>1, <1>6, <2>1, <2>2, <2>4 DEF Bump, RowMoves, IsReplaced, Clean
  <2> QED
    BY <2>3, <2>4
<1>7. CASE UNCHANGED vars
  BY <1>1, <1>7, StillGoesOn DEF vars, RowMoves
<1> QED
  BY <1>1, <1>2, <1>3, <1>4, <1>5, <1>6, <1>7, RunStepMoves, SessionMovesRow
  DEF Next, RowMoves

LEMMA EnqueuerBegins ==
  ASSUME TypeOK, [Next]_vars, NEW s \in Sessions, sess'[s].pc = "enqueue"
  PROVE  \/ sess'[s] = sess[s]
         \/ /\ sess'[s].seen = row /\ sess'[s].gen = docGen /\ ~InFlight(row, docGen)
            /\ UNCHANGED <<docGen, row, claims>> /\ era' = era
<1>1. sess \in [Sessions -> Session]
  BY DEF TypeOK
<1>2. ASSUME NEW t \in Sessions, Close(t) PROVE sess'[s] = sess[s]
  BY <1>1, <1>2 DEF Close, NoSession
<1>3. ASSUME NEW t \in Sessions, NEW pc \in {"reap", "cancel"}, Open(t, pc)
      PROVE  sess'[s] = sess[s]
  BY <1>1, <1>3 DEF Open
<1>4. ASSUME NEW t \in Sessions, EnqueueRead(t)
      PROVE  \/ sess'[s] = sess[s]
             \/ /\ sess'[s].seen = row /\ sess'[s].gen = docGen /\ ~InFlight(row, docGen)
                /\ UNCHANGED <<docGen, row, claims>> /\ era' = era
  <2>1. CASE t = s
    BY <1>1, <1>4, <2>1 DEF EnqueueRead, Open, history
  <2>2. CASE t # s
    BY <1>1, <1>4, <2>2 DEF EnqueueRead, Open
  <2> QED
    BY <2>1, <2>2
<1>5. \/ UNCHANGED sess
      \/ \E t \in Sessions : EnqueueRead(t) \/ CancelRead(t) \/ ReapRead(t) \/ SessionCommit(t)
  BY DEF Next, RunStep, Claim, Heartbeat, Start, Work, StoreBatch, MarkRead,
      MarkCommit, FailRead, FailCommit, DeferEmbed, DeferSummaryRead,
      DeferSummaryCommit, RequeueAfterShutdown, ShutdownDeadline, Crash,
      DeadSilence, Lapse, Silence, RetryDue, Bump, vars
<1> QED
  BY <1>2, <1>3, <1>4, <1>5
  DEF CancelRead, ReapRead, SessionCommit, EnqueueCommit, CancelCommit, Reap

LEMMA StepRowsRest ==
  ASSUME RowsRest, Stage # "summarize", [Next]_vars
  PROVE  RowsRest'
<1>1. TypeOK' /\ WritesPending' /\ TypeOK
  BY StepType, StepWritesPending DEF RowsRest
<1>2. RowMoves
  BY StepMovesRow
<1>3. /\ row \in Row /\ row' \in Row /\ claims \in Nat /\ claims' \in Nat
      /\ era \in Nat /\ era' \in Nat /\ docGen \in Nat /\ docGen' \in Nat
      /\ row.claim \in Nat /\ row.id \in Nat /\ row'.claim \in Nat /\ row'.id \in Nat
      /\ row.hb \in Nat /\ row'.hb \in Nat
  BY <1>1 DEF TypeOK, Row
<1>4. row.claim <= claims /\ row.id <= era /\ claims' >= claims /\ era' >= era
  BY <1>2, <1>3 DEF RowsRest, RowMoves, GoesOn, IsClaimed, IsReplaced
<1>5. row'.claim <= claims' /\ row'.id <= era'
  BY <1>2, <1>3, <1>4 DEF RowMoves, GoesOn, IsClaimed, IsReplaced, Clean
<1>6. OldRowsRest' /\ ExtractStays'
  <2>1. CASE GoesOn
    <3>1. ExtractStays'
      BY <2>1 DEF RowsRest, ExtractStays, GoesOn
    <3>2. ASSUME row'.status # "absent", row'.gen # docGen'
          PROVE  row'.status # "running" /\ Clean(row')
      BY <2>1, <3>2 DEF RowsRest, OldRowsRest, GoesOn
    <3> QED
      BY <3>1, <3>2 DEF OldRowsRest, Clean
  <2>2. CASE IsClaimed
    BY <2>2 DEF RowsRest, OldRowsRest, ExtractStays, IsClaimed
  <2>3. CASE IsReplaced
    BY <2>3 DEF OldRowsRest, ExtractStays, IsReplaced, Clean
  <2> QED
    BY <1>2, <2>1, <2>2, <2>3 DEF RowMoves
<1>7. ASSUME NEW s \in Sessions, sess'[s].pc = "enqueue"
      PROVE  EnqueuerReads(s, sess[s].seen, sess[s].gen)'
  <2>1. CASE sess'[s] = sess[s]
    <3> DEFINE seen == sess[s].seen
               g == sess[s].gen
    <3>1. EnqueuerReads(s, seen, g) /\ seen.id \in Nat
      BY <1>1, <1>7, <2>1 DEF RowsRest, EnqueuersRead, TypeOK, Session, Row
    <3>2. ASSUME Stage # "extract", seen.status # "absent",
                 row'.status # "absent", row'.id = seen.id
          PROVE  g = docGen'
      BY <1>2, <1>3, <3>1, <3>2 DEF EnqueuerReads, RowMoves, GoesOn, IsClaimed, IsReplaced
    <3>3. seen.id <= era'
      BY <1>3, <1>4, <3>1 DEF EnqueuerReads
    <3> QED
      BY <2>1, <3>1, <3>2, <3>3 DEF EnqueuerReads, Clean
  <2>2. CASE /\ sess'[s].seen = row /\ sess'[s].gen = docGen /\ ~InFlight(row, docGen)
             /\ UNCHANGED <<docGen, row, claims>> /\ era' = era
    BY <1>4, <2>2 DEF RowsRest, OldRowsRest, ExtractStays, InFlight, EnqueuerReads, Clean
  <2> QED
    BY <1>1, <1>7, <2>1, <2>2, EnqueuerBegins
<1>8. ASSUME NEW s \in Sessions, sess'[s].pc = "reap"
      PROVE  OverdueAsRead(sess[s].seen)'
  <2>1. CASE sess'[s] = sess[s]
    <3> DEFINE seen == sess[s].seen
    <3>1. OverdueAsRead(seen) /\ seen.claim \in Nat /\ seen.hb \in Nat
      BY <1>1, <1>8, <2>1 DEF RowsRest, ReapersWait, TypeOK, Session, Row
    <3>2. ASSUME row'.status = "running", row'.claim = seen.claim
          PROVE  row'.hb > seen.hb \/ (row'.hb = seen.hb /\ row'.stale)
      <4>1. GoesOn
        BY <1>2, <1>3, <3>1, <3>2 DEF RowMoves, IsClaimed, IsReplaced, OverdueAsRead
      <4> QED
        BY <1>3, <3>1, <3>2, <4>1 DEF GoesOn, OverdueAsRead
    <3>3. seen.claim <= claims'
      BY <1>3, <1>4, <3>1 DEF OverdueAsRead
    <3> QED
      BY <2>1, <3>2, <3>3 DEF OverdueAsRead
  <2>2. CASE /\ sess'[s].seen = row /\ row.status = "running" /\ row.stale
             /\ UNCHANGED <<row, claims, outages>>
    BY <1>4, <2>2 DEF OverdueAsRead
  <2> QED
    BY <1>1, <1>8, <2>1, <2>2, ReaperBegins
<1> QED
  BY <1>1, <1>5, <1>6, <1>7, <1>8 DEF RowsRest, EnqueuersRead, ReapersWait

LEMMA InitRowsRest == Init => RowsRest
<1> SUFFICES ASSUME Init PROVE RowsRest
  OBVIOUS
<1>1. TypeOK /\ WritesPending
  BY InitType DEF Init, Idle, WritesPending
<1>2. /\ row.claim = 0 /\ row.id = 1 /\ row.gen = 1 /\ row.status = "queued"
      /\ era = 1 /\ claims = 0 /\ docGen = 1
  BY DEF Init, NewRow, NoRow
<1>3. \A s \in Sessions : sess[s].pc = "idle"
  BY DEF Init, NoSession
<1> QED
  BY <1>1, <1>2, <1>3 DEF RowsRest, OldRowsRest, ExtractStays, EnqueuersRead, ReapersWait

(* What both arguments say of the reaper's step.                            *)
LEMMA ReaperCommits ==
  ASSUME TypeOK, Next, NEW s \in Sessions, sess[s].pc = "reap", sess'[s].pc = "idle",
         row' # row
  PROVE  /\ AsRead(sess[s].seen)
         /\ sess[s].seen.hb \in Nat
<1>1. sess \in [Sessions -> Session]
  BY DEF TypeOK
<1>2. PICK t \in Sessions :
        EnqueueRead(t) \/ CancelRead(t) \/ ReapRead(t) \/ SessionCommit(t)
  BY DEF Next, RunStep, Claim, Heartbeat, Start, Work, StoreBatch, MarkRead,
      MarkCommit, FailRead, FailCommit, DeferEmbed, DeferSummaryRead,
      DeferSummaryCommit, RequeueAfterShutdown, ShutdownDeadline, Crash,
      DeadSilence, Lapse, Silence, RetryDue, Bump
<1>3. t = s
  BY <1>1, <1>2 DEF EnqueueRead, CancelRead, ReapRead, SessionCommit, EnqueueCommit,
                    CancelCommit, Reap, Open, Close
<1>4. Reap(s) /\ AsRead(sess[s].seen)
  BY <1>2, <1>3 DEF EnqueueRead, CancelRead, ReapRead, SessionCommit, EnqueueCommit,
                    CancelCommit, Reap, Open
<1> QED
  BY <1>1, <1>4 DEF Session, Row

LEMMA LockedStagesReap ==
  ASSUME Stage # "summarize"
  PROVE  Spec => ReaperSparesLiveRuns
<1>1. Init => RowsRest
  BY InitRowsRest
<1>2. RowsRest /\ [Next]_vars => RowsRest'
  BY StepRowsRest
<1>3. RowsRest /\ [Next]_vars
        => [\A s \in Sessions :
              (sess[s].pc = "reap" /\ sess'[s].pc = "idle" /\ row' # row)
                => row.stale /\ row.status = "running"]_vars
  <2> SUFFICES ASSUME RowsRest, Next, NEW s \in Sessions,
                      sess[s].pc = "reap", sess'[s].pc = "idle", row' # row
               PROVE  row.stale /\ row.status = "running"
    OBVIOUS
  <2>1. AsRead(sess[s].seen) /\ sess[s].seen.hb \in Nat
    BY ReaperCommits DEF RowsRest
  <2>2. OverdueAsRead(sess[s].seen)
    BY DEF RowsRest, ReapersWait
  <2> QED
    BY <2>1, <2>2 DEF AsRead, OverdueAsRead
<1> QED
  BY <1>1, <1>2, <1>3, PTL DEF Spec, ReaperSparesLiveRuns

LEMMA QuietRowsReap ==
  ASSUME "enqueue" \notin Troubles
  PROVE  Spec => ReaperSparesLiveRuns
<1>1. Init => ReadsHold
  BY InitReadsHold
<1>2. ReadsHold /\ [Next]_vars => ReadsHold'
  BY StepReadsHold
<1>3. ReadsHold /\ [Next]_vars
        => [\A s \in Sessions :
              (sess[s].pc = "reap" /\ sess'[s].pc = "idle" /\ row' # row)
                => row.stale /\ row.status = "running"]_vars
  <2> SUFFICES ASSUME ReadsHold, Next, NEW s \in Sessions,
                      sess[s].pc = "reap", sess'[s].pc = "idle", row' # row
               PROVE  row.stale /\ row.status = "running"
    OBVIOUS
  <2>1. AsRead(sess[s].seen) /\ sess[s].seen.hb \in Nat
    BY ReaperCommits DEF ReadsHold
  <2>2. \/ row.hb > sess[s].seen.hb
        \/ row.hb = sess[s].seen.hb /\ row.stale
    BY <2>1 DEF AsRead, StillAsRead, ReadsHold, ReapersRead
  <2> QED
    BY <2>1, <2>2 DEF AsRead
<1> QED
  BY <1>1, <1>2, <1>3, PTL DEF Spec, ReaperSparesLiveRuns

(* A reaper that takes the row takes it from a run that is still overdue: in
   the stages whose deferral locks the row whatever happens, in summarize while
   no session re-enqueues.  There a re-enqueue may leave a queued row with a
   claim and a heartbeat, and a deferral that read them unlocked then resets
   the heartbeat of a row that runs.                                       *)
THEOREM ReaperTakesOverdueRuns ==
  ASSUME Stage # "summarize" \/ "enqueue" \notin Troubles
  PROVE  Spec => ReaperSparesLiveRuns
BY LockedStagesReap, QuietRowsReap

-----------------------------------------------------------------------------
(* The row implements a lease: each step is one of JobLease's, or a stutter. *)

LEMMA EndedRunStops ==
  ASSUME TypeOK, NEW w \in Workers, EndRun(w)
  PROVE  /\ HeldClaims' = [HeldClaims EXCEPT ![w] = 0]
         /\ AboutToCommit' = [AboutToCommit EXCEPT ![w] = FALSE]
BY DEF TypeOK, EndRun, Idle, HeldClaims, AboutToCommit

LEMMA MovedRunHolds ==
  ASSUME TypeOK, NEW w \in Workers, run[w].pc # "idle",
         NEW pc \in PC \ {"idle"}, Goto(w, pc) \/ Loaded(w, pc)
  PROVE  /\ HeldClaims' = HeldClaims
         /\ AboutToCommit' = [AboutToCommit EXCEPT
                                 ![w] = IF pc \in Committing THEN TRUE ELSE FALSE]
<1>1. /\ run' \in [Workers -> Run]
      /\ \A v \in Workers \ {w} : run'[v] = run[v]
      /\ run'[w].pc = pc /\ run'[w].claim = run[w].claim
  <2>1. CASE Goto(w, pc)
    BY <2>1, RunMoves DEF TypeOK, Run, Goto
  <2>2. CASE Loaded(w, pc)
    <3>1. PICK b \in BOOLEAN : b = (run[w].era = era)
      OBVIOUS
    <3>2. run' = [run EXCEPT ![w].pc = pc, ![w].seen = row, ![w].sound = b]
      BY <2>2, <3>1 DEF Loaded
    <3> QED
      BY <2>2, <3>2, RunMoves DEF TypeOK, Run
  <2> QED
    BY <2>1, <2>2
<1> QED
  BY <1>1 DEF HeldClaims, AboutToCommit, Committing

(* Steps that leave the row's status and claim, the claims and the runs alone
   are stutters.                                                           *)
LEMMA RowStutters ==
  ASSUME UNCHANGED <<run, claims>>, row'.status = row.status,
         row'.claim = row.claim
  PROVE  UNCHANGED Lease!vars
BY DEF Lease!vars, HeldClaims, AboutToCommit

LEMMA InitLease == Init => Lease!Init
BY DEF Init, NewRow, NoRow, Idle, Lease!Init, HeldClaims, AboutToCommit

LEMMA ClaimTakes ==
  ASSUME TypeOK, NEW w \in Workers, Claim(w)
  PROVE  Lease!Take(w)
<1>1. /\ row'.status = "running" /\ row'.claim = claims + 1
      /\ row.status = "queued" /\ claims' = claims + 1
  BY DEF Claim, Claimable, ThisClaim, TypeOK, Row
<1>2. /\ run[w].pc = "idle"
      /\ run'[w].pc = "start" /\ run'[w].claim = claims + 1
      /\ \A v \in Workers \ {w} : run'[v] = run[v]
  BY DEF Claim, ThisClaim, TypeOK, Idle
<1> QED
  BY <1>1, <1>2 DEF Lease!Take, HeldClaims, AboutToCommit

(* A run that finds its claim on the row may decide.                       *)
LEMMA ReadDecides ==
  ASSUME TypeOK, ClaimsMade, NEW w \in Workers, NEW pc \in Committing,
         run[w].pc # "idle", run[w].claim = row.claim, Loaded(w, pc),
         UNCHANGED <<row, claims>>
  PROVE  Lease!Decide(w)
<1>1. /\ HeldClaims' = HeldClaims
      /\ AboutToCommit' = [AboutToCommit EXCEPT ![w] = TRUE]
  BY MovedRunHolds DEF Committing, PC
<1>2. HeldClaims[w] # 0 /\ HeldClaims[w] = row.claim
  BY DEF HeldClaims, ClaimsMade, TypeOK
<1> QED
  BY <1>1, <1>2 DEF Lease!Decide, Lease!Current

LEMMA EndAbandons ==
  ASSUME TypeOK, NEW w \in Workers, EndRun(w), UNCHANGED claims,
         row'.status = row.status, row'.claim = row.claim
  PROVE  Lease!Abandon(w)
BY EndedRunStops DEF Lease!Abandon, Lease!Stop

LEMMA CommitReports ==
  ASSUME TypeOK, NEW w \in Workers, run[w].pc \in Committing,
         EndRun(w), UNCHANGED claims, ~Vanished(run[w].seen),
         NEW new \in Row, row' = Flush(run[w].seen, new),
         new.status \in {run[w].seen.status, "done", "error", "queued"},
         new.claim \in {0, run[w].seen.claim}
  PROVE  Lease!Report(w)
<1>1. row.status # "absent"
  BY DEF Vanished
<1>2. /\ row'.status \in {row.status, "done", "error", "queued"}
      /\ row'.claim \in {0, row.claim}
  BY DEF Flush, Changed
<1>3. AboutToCommit[w]
  BY DEF AboutToCommit, Committing
<1> QED
  BY <1>1, <1>2, <1>3, EndedRunStops DEF Lease!Report, Lease!Stop

LEMMA LockedGivesBack ==
  ASSUME TypeOK, ClaimsMade, NEW w \in Workers, run[w].pc # "idle",
         OwnClaim(w), EndRun(w), UNCHANGED claims,
         row'.status \in {"queued", "error"}, row'.claim \in {0, row.claim}
  PROVE  Lease!GiveBack(w)
<1>1. HeldClaims[w] # 0 /\ HeldClaims[w] = row.claim
  BY DEF HeldClaims, OwnClaim, ClaimsMade, TypeOK
<1> QED
  BY <1>1, EndedRunStops DEF Lease!GiveBack, Lease!Stop, Lease!Current

(* What a run's step is to the lease. *)
LEMMA RunStepLeases ==
  ASSUME TypeOK, ClaimsMade, NEW w \in Workers,
         RunStep(w) \/ ShutdownDeadline(w) \/ Crash(w)
  PROVE  [Lease!Next]_(Lease!vars)
<1> DEFINE Goal == [Lease!Next]_(Lease!vars)
<1> DEFINE Ends == EndRun(w) /\ row'.status = row.status /\ row'.claim = row.claim
<1> USE DEF Lease!Next
<1>1. run[w].pc # "idle" /\ UNCHANGED claims
  BY DEF RunStep, Start, Work, StoreBatch, MarkRead, MarkCommit, FailRead,
         FailCommit, DeferEmbed, DeferSummaryRead, DeferSummaryCommit,
         RequeueAfterShutdown, ShutdownDeadline, Crash
<1>2. ASSUME Ends PROVE Goal
  BY <1>1, <1>2, EndAbandons
<1>3. ASSUME NEW pc \in PC \ {"idle"}, pc \notin Committing, Goto(w, pc),
             row'.status = row.status, row'.claim = row.claim
      PROVE  Goal
  <2>1. /\ HeldClaims' = HeldClaims
        /\ AboutToCommit' = [AboutToCommit EXCEPT ![w] = FALSE]
    BY <1>1, <1>3, MovedRunHolds
  <2>2. CASE AboutToCommit[w] = TRUE
    BY <1>1, <1>3, <2>1, <2>2 DEF Lease!Retract
  <2>3. CASE AboutToCommit[w] = FALSE
    <3>1. AboutToCommit' = AboutToCommit
      BY <2>1, <2>3 DEF AboutToCommit
    <3> QED
      BY <1>1, <1>3, <2>1, <3>1 DEF Lease!vars
  <2> QED
    BY <2>2, <2>3 DEF AboutToCommit
<1>4. ASSUME Start(w) PROVE Goal
  <2>1. CASE Wanted(w)
    <3>1. /\ run[w].pc = "start" /\ run'[w].pc = "work"
          /\ run'[w].claim = run[w].claim
          /\ \A v \in Workers \ {w} : run'[v] = run[v]
      BY <1>4, <2>1 DEF Start, TypeOK, Run
    <3> QED
      BY <1>4, <3>1 DEF Start, Lease!vars, HeldClaims, AboutToCommit
  <2>2. CASE ~Wanted(w)
    BY <1>2, <1>4, <2>2 DEF Start
  <2> QED
    BY <2>1, <2>2
<1>5. ASSUME Work(w) \/ ShutdownDeadline(w) PROVE Goal
  BY <1>3, <1>5 DEF Work, ShutdownDeadline, PC, Committing
<1>6. ASSUME StoreBatch(w) PROVE Goal
  <2>1. CASE Vanished(run[w].seen)
    BY <1>3, <1>6, <2>1 DEF StoreBatch, PC, Committing
  <2>2. CASE ~Vanished(run[w].seen)
    <3>1. row'.status = row.status /\ row'.claim = row.claim
      BY <1>6, <2>2 DEF StoreBatch, TypeOK, Row
    <3>2. /\ run[w].pc = "write" /\ run'[w].pc = "work"
          /\ run'[w].claim = run[w].claim
          /\ \A v \in Workers \ {w} : run'[v] = run[v]
      BY <1>6, <2>2 DEF StoreBatch, TypeOK, Run
    <3> QED
      BY <1>1, <3>1, <3>2 DEF Lease!vars, HeldClaims, AboutToCommit
  <2> QED
    BY <2>1, <2>2
<1>7. ASSUME MarkRead(w) \/ FailRead(w) \/ DeferSummaryRead(w) PROVE Goal
  <2>1. CASE EndRun(w)
    BY <1>2, <1>7, <2>1 DEF MarkRead, FailRead, DeferSummaryRead
  <2>2. CASE ~EndRun(w)
    <3>1. PICK pc \in Committing : Loaded(w, pc)
      BY <1>7, <2>2 DEF MarkRead, FailRead, DeferSummaryRead, Committing
    <3>2. run[w].claim = row.claim /\ UNCHANGED row
      BY <1>7, <2>2
      DEF MarkRead, FailRead, DeferSummaryRead, RunIsCurrent, OwnClaim
    <3> QED
      BY <1>1, <3>1, <3>2, ReadDecides
  <2> QED
    BY <2>1, <2>2
<1>8. ASSUME MarkCommit(w) \/ FailCommit(w) \/ DeferSummaryCommit(w) PROVE Goal
  <2> DEFINE seen == run[w].seen
  <2>1. seen \in Row /\ run[w].pc \in Committing
    BY <1>8 DEF MarkCommit, FailCommit, DeferSummaryCommit, Committing, TypeOK, Run
  <2>2. CASE Vanished(seen)
    BY <1>2, <1>3, <1>8, <2>2
    DEF MarkCommit, FailCommit, DeferSummaryCommit, PC, Committing
  <2>3. CASE ~Vanished(seen)
    <3>1. PICK new \in {Finished(seen), Failed(seen), Deferred(seen)} :
            row' = Flush(seen, new)
      BY <1>8, <2>3 DEF MarkCommit, FailCommit, DeferSummaryCommit
    <3>2. new \in Row
      BY <2>1, <3>1, RowsAreRows
    <3>3. /\ new.status \in {seen.status, "done", "error", "queued"}
          /\ new.claim \in {0, seen.claim}
      <4>1. Attempts(seen) \in Nat /\ MaxAttempts \in Nat
        BY <2>1, RowsAreRows, ParamAssumption
      <4> QED
        BY <2>1, <3>1, <4>1 DEF Finished, Failed, Deferred, Row
    <3>4. EndRun(w)
      BY <1>8, <2>3 DEF MarkCommit, FailCommit, DeferSummaryCommit
    <3> QED
      BY <1>1, <2>1, <2>3, <3>1, <3>2, <3>3, <3>4, CommitReports
  <2> QED
    BY <2>2, <2>3
<1>9. ASSUME DeferEmbed(w) PROVE Goal
  <2>1. CASE OwnClaim(w) /\ row.status # "error"
    <3>1. /\ Deferred(row).status \in {"queued", "error"}
          /\ Deferred(row).claim \in {0, row.claim}
      BY DEF Deferred, TypeOK, Row
    <3> QED
      BY <1>1, <1>9, <2>1, <3>1, LockedGivesBack DEF DeferEmbed
  <2>2. CASE ~(OwnClaim(w) /\ row.status # "error")
    BY <1>2, <1>9, <2>2 DEF DeferEmbed
  <2> QED
    BY <2>1, <2>2
<1>10. ASSUME RequeueAfterShutdown(w) PROVE Goal
  <2>1. CASE OwnClaim(w) /\ row.status = "running"
    <3>1. Requeued(row).status = "queued" /\ Requeued(row).claim = 0
      BY DEF Requeued, TypeOK, Row
    <3> QED
      BY <1>1, <1>10, <2>1, <3>1, LockedGivesBack DEF RequeueAfterShutdown
  <2>2. CASE ~(OwnClaim(w) /\ row.status = "running")
    BY <1>2, <1>10, <2>2 DEF RequeueAfterShutdown
  <2> QED
    BY <2>1, <2>2
<1>11. ASSUME Crash(w) PROVE Goal
  BY <1>2, <1>11 DEF Crash
<1> QED
  BY <1>4, <1>5, <1>6, <1>7, <1>8, <1>9, <1>10, <1>11 DEF RunStep

(* What a session, a heartbeat, time or a generation bump is to the lease. *)
LEMMA OtherStepLeases ==
  ASSUME TypeOK, UNCHANGED <<run, claims>>,
         \/ \E w \in Workers : Heartbeat(w)
         \/ \E s \in Sessions : EnqueueRead(s) \/ CancelRead(s) \/ ReapRead(s)
                                \/ SessionCommit(s)
         \/ DeadSilence \/ Lapse \/ RetryDue \/ Bump
  PROVE  [Lease!Next]_(Lease!vars)
<1> DEFINE Goal == [Lease!Next]_(Lease!vars)
<1> USE DEF Lease!Next
<1>1. HeldClaims' = HeldClaims /\ AboutToCommit' = AboutToCommit
  BY DEF HeldClaims, AboutToCommit
<1>2. ASSUME row'.status = row.status, row'.claim = row.claim PROVE Goal
  BY <1>2, RowStutters
<1>3. ASSUME row'.status \in {row.status, "queued"}, row'.claim \in {0, row.claim}
      PROVE  Goal
  BY <1>1, <1>3 DEF Lease!Requeue
<1>4. ASSUME NEW w \in Workers, Heartbeat(w) PROVE Goal
  BY <1>2, <1>4 DEF Heartbeat, TypeOK, Row
<1>5. ASSUME NEW s \in Sessions, EnqueueRead(s) \/ CancelRead(s) \/ ReapRead(s)
      PROVE  Goal
  BY <1>2, <1>5 DEF EnqueueRead, CancelRead, ReapRead
<1>6. ASSUME NEW s \in Sessions, EnqueueCommit(s) PROVE Goal
  <2>1. sess[s].seen \in Row /\ sess[s].gen \in Nat /\ era + 1 \in Nat
    BY DEF TypeOK, Session
  <2>2. CASE row' = NewRow(era + 1, sess[s].gen)
    BY <1>3, <2>1, <2>2 DEF NewRow, NoRow
  <2>3. CASE row' = Flush(sess[s].seen, Enqueued(sess[s].seen, sess[s].gen))
    <3>1. /\ Enqueued(sess[s].seen, sess[s].gen).status = "queued"
          /\ Enqueued(sess[s].seen, sess[s].gen).claim = 0
      BY <2>1 DEF Enqueued, Row
    <3> QED
      BY <1>3, <2>3, <3>1 DEF Flush, Changed
  <2>4. CASE UNCHANGED row
    BY <1>2, <2>4
  <2> QED
    BY <1>6, <2>2, <2>3, <2>4 DEF EnqueueCommit
<1>7. ASSUME NEW s \in Sessions, CancelCommit(s) PROVE Goal
  <2>1. sess[s].seen \in Row
    BY DEF TypeOK, Session
  <2>2. CASE Vanished(sess[s].seen)
    BY <1>2, <1>7, <2>2 DEF CancelCommit
  <2>3. CASE ~Vanished(sess[s].seen)
    <3>1. row'.status \in {row.status, "error"} /\ row'.claim = row.claim
      <4>1. /\ Cancelled(sess[s].seen).status = "error"
            /\ Cancelled(sess[s].seen).claim = sess[s].seen.claim
        BY <2>1 DEF Cancelled, Row
      <4>2. row' = Flush(sess[s].seen, Cancelled(sess[s].seen))
        BY <1>7, <2>3 DEF CancelCommit
      <4> QED
        BY <4>1, <4>2 DEF Flush, Changed
    <3>2. row.status # "absent"
      BY <2>3 DEF Vanished
    <3>3. CASE row'.status = "error"
      BY <1>1, <3>1, <3>2, <3>3 DEF Lease!Cancel
    <3> QED
      BY <1>2, <3>1, <3>3
  <2> QED
    BY <2>2, <2>3
<1>8. ASSUME NEW s \in Sessions, Reap(s) PROVE Goal
  <2>1. CASE AsRead(sess[s].seen)
    <3>1. row'.status = "queued" /\ row'.claim = 0
      BY <1>8, <2>1 DEF Reap, Requeued, TypeOK, Row
    <3> QED
      BY <1>3, <3>1
  <2>2. CASE ~AsRead(sess[s].seen)
    BY <1>2, <1>8, <2>2 DEF Reap
  <2> QED
    BY <2>1, <2>2
<1>9. ASSUME DeadSilence \/ Lapse \/ RetryDue PROVE Goal
  BY <1>2, <1>9 DEF DeadSilence, Lapse, Silence, RetryDue, TypeOK, Row
<1>10. ASSUME Bump PROVE Goal
  <2>1. CASE Stage = "extract"
    <3>1. PICK id \in {row.id, era + 1} : row' = NewRow(id, docGen + 1)
      BY <1>10, <2>1 DEF Bump
    <3>2. row'.status = "queued" /\ row'.claim = 0
      BY <3>1 DEF NewRow, NoRow
    <3> QED
      BY <1>3, <3>2
  <2>2. CASE Stage # "extract"
    BY <1>1, <1>10, <2>2 DEF Bump, NoRow, Lease!Remove
  <2> QED
    BY <2>1, <2>2
<1> QED
  BY <1>4, <1>5, <1>6, <1>7, <1>8, <1>9, <1>10 DEF SessionCommit

(* The detailed job row implements the abstract lease: it becomes running only
   under a claim never given before, and an outcome is recorded only by a run
   that found its own claim on the row first, whatever crashes, reaps, cancels
   and re-enqueues there are.                                              *)
THEOREM RowIsALease == Spec => ImplementsLease
<1> DEFINE IInv == TypeOK /\ WritesPending /\ ClaimsMade /\ OneRunPerClaim
<1>1. Init => IInv
  BY InitType DEF Init, Idle, WritesPending, ClaimsMade, OneRunPerClaim
<1>2. IInv /\ [Next]_vars => IInv'
  BY StepType, StepWritesPending, StepOneRunPerClaim
<1>3. IInv /\ [Next]_vars => [Lease!Next]_(Lease!vars)
  <2> SUFFICES ASSUME IInv, [Next]_vars PROVE [Lease!Next]_(Lease!vars)
    OBVIOUS
  <2>1. ASSUME NEW w \in Workers, Claim(w) PROVE Lease!Next
    BY <2>1, ClaimTakes DEF Lease!Next
  <2>2. CASE UNCHANGED vars
    BY <2>2, RowStutters DEF vars
  <2>3. CASE \E w \in Workers : RunStep(w) \/ ShutdownDeadline(w) \/ Crash(w)
    BY <2>3, RunStepLeases
  <2>4. CASE \/ \E w \in Workers : Heartbeat(w)
             \/ \E s \in Sessions : \/ EnqueueRead(s) \/ CancelRead(s)
                                    \/ ReapRead(s) \/ SessionCommit(s)
             \/ DeadSilence \/ Lapse \/ RetryDue \/ Bump
    <3>1. UNCHANGED <<run, claims>>
      BY <2>4
      DEF SessionCommit, Heartbeat, EnqueueRead, CancelRead, ReapRead,
          EnqueueCommit, CancelCommit, Reap, DeadSilence, Lapse, Silence,
          RetryDue, Bump
    <3> QED
      BY <2>4, <3>1, OtherStepLeases
  <2> QED
    BY <2>1, <2>2, <2>3, <2>4 DEF Next
<1>4. Init => Lease!Init
  BY InitLease
<1> QED
  BY <1>1, <1>2, <1>3, <1>4, PTL DEF Spec, ImplementsLease, Lease!Spec
=============================================================================
