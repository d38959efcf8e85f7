------------------------ MODULE WorkerShutdownProofs ------------------------
(***************************************************************************)
(* Proofs about WorkerShutdown, for any timeout, grace, kill and length of *)
(* a job's end that TimesAssumption allows: its type, that a stage ends    *)
(* within the grace, that the kill finds no job of the process, and that   *)
(* no deadline is raised where nothing handles it.                         *)
(*                                                                         *)
(* All four come from one invariant, IInv.  FlagsFollow says where the     *)
(* flags are set; QuietOutside that no alarm can go off before the stage   *)
(* or after the job; AlarmBeforeGrace and LateAlarm how far the timer is   *)
(* from going off; RowFollows where the row may still be running.          *)
(***************************************************************************)
EXTENDS WorkerShutdown, TLAPS

-----------------------------------------------------------------------------
Before == {"install", "timer", "running", "check"}

(* The statements from the inner finally to the loop.                      *)
After == {"leaving", "disarm", "record", "cleanup", "restore"}

FlagsFollow ==
  /\ pc # "killed" => depth = Sections
  /\ ocr => pc \in {"written", "marking", "advancing", "marked", "killed"}
  /\ pc = "written" => ocr
  /\ pc \in Outside \union {"install"} => ~live
  /\ pc \in InStage \union {"timer", "running", "check", "leaving"} => live
  /\ pc = "disarm" => ~live
  /\ pc \in Outside \union {"install", "timer", "running", "restore"}
       => ~jobRunning
  /\ pc \in InStage \union {"check", "leaving"} => jobRunning
  /\ arming => live /\ jobRunning /\ shutdown
  /\ pc = "record" => raised # "none"

SignalsFollow ==
  /\ asked /\ ~shutdown => "TERM" \in tripped
  /\ ~shutdown \/ arming => since = 0
  /\ shutdown \/ "TERM" \in tripped => asked
  /\ ~asked => since = 0
  /\ pc \notin Over => since < Kill

QuietOutside ==
  /\ pc \in Outside \union Before => "ALRM" \notin tripped
  /\ pc \in Outside \union {"install", "timer"} => alarm = 0
  /\ pc \in {"running", "check"} => alarm > 0
  /\ pc \in Before \union {"claim"} => since = 0

(* The timer of a stage that was asked to go runs out within the grace.    *)
AlarmBeforeGrace ==
  pc = "stage" /\ shutdown /\ ~arming /\ ~swallowed =>
    \/ alarm > 0 /\ since + alarm <= Grace
    \/ "ALRM" \in tripped /\ since <= Grace

EndsInTime ==
  pc \in InStage \union {"leaving", "disarm", "record"} /\ ~swallowed =>
    since <= Grace + slow

(* An alarm that was not turned off, because the inner finally was left by an
   exception, is one the SIGTERM set since.                                *)
LateAlarm ==
  /\ live /\ pc \in {"record", "cleanup", "restore"} =>
       /\ "ALRM" \notin tripped
       /\ alarm = 0 \/ Grace <= alarm + slow
  /\ pc \in InStage \union {"leaving"} /\ "ALRM" \in tripped =>
       alarm = 0 \/ alarm = Grace

RowFollows ==
  /\ pc \in Outside \union {"marked", "cleanup", "restore", "advancing"}
       => job # "running"
  /\ pc \in {"leaving", "disarm"} /\ job = "running" => raised # "none"
  /\ pc = "exited" => job # "running" /\ ~jobRunning
  /\ pc = "killed" /\ ~swallowed => job # "running" /\ ~jobRunning
  /\ job = "done" => \/ advanced
                     \/ pc = "advancing"
                     \/ pc = "killed" /\ swallowed

IInv ==
  /\ TypeOK
  /\ NothingEscapes
  /\ FlagsFollow
  /\ SignalsFollow
  /\ QuietOutside
  /\ AlarmBeforeGrace
  /\ EndsInTime
  /\ LateAlarm
  /\ RowFollows

-----------------------------------------------------------------------------
(* The sections of alarm_deferred *)

LEMMA SectionsInRange == TypeOK => Sections \in 0..2
BY DEF TypeOK, Sections

(* Leaving the stage ends all its sections. *)
LEMMA LeavesNone ==
  ASSUME TypeOK, FlagsFollow, pc # "killed", LeavesStage
  PROVE  depth' = 0 /\ ocr' = FALSE /\ pc' = "leaving"
BY SectionsInRange DEF TypeOK, FlagsFollow, LeavesStage

(* Between the commit of done and the end of the advance the alarm waits. *)
LEMMA HeldInSections ==
  ASSUME TypeOK, FlagsFollow, pc \in {"written", "marking", "advancing"}
  PROVE  Deferred
BY DEF TypeOK, FlagsFollow, Sections, Deferred

-----------------------------------------------------------------------------
LEMMA InitHolds == Init => IInv
<1> SUFFICES ASSUME Init PROVE IInv
  OBVIOUS
<1>1. TypeOK
  <2>1. pc \in Places
    BY DEF Init, Places
  <2>2. alarm \in Nat /\ depth \in 0..2 /\ since \in 0..Kill /\ slow \in 0..Slow
    BY TimesAssumption DEF Init
  <2>3. /\ shutdown \in BOOLEAN /\ jobRunning \in BOOLEAN
        /\ live \in BOOLEAN /\ armed \in BOOLEAN
    BY DEF Init
  <2>4. /\ ocr \in BOOLEAN /\ arming \in BOOLEAN /\ asked \in BOOLEAN
        /\ swallowed \in BOOLEAN /\ advanced \in BOOLEAN
    BY DEF Init
  <2> QED
    BY <2>1, <2>2, <2>3, <2>4 DEF Init, TypeOK
<1>2. NothingEscapes /\ FlagsFollow /\ SignalsFollow
  BY TimesAssumption
     DEF Init, NothingEscapes, FlagsFollow, SignalsFollow, Sections, InStage, Outside, Over
<1>3. QuietOutside /\ AlarmBeforeGrace /\ EndsInTime
  BY DEF Init, QuietOutside, AlarmBeforeGrace, EndsInTime, InStage, Outside, Before
<1>4. LateAlarm /\ RowFollows
  BY DEF Init, LateAlarm, RowFollows, InStage, Outside
<1> QED
  BY <1>1, <1>2, <1>3, <1>4 DEF IInv

(* One step per action.  Most disturb few of the parts, and the provers find
   the others unchanged.                                                   *)
LEMMA StepHolds == IInv /\ [Next]_vars => IInv'
<1> SUFFICES ASSUME IInv, [Next]_vars PROVE IInv'
  OBVIOUS
<1> USE TimesAssumption
    DEF IInv, TypeOK, NothingEscapes, FlagsFollow, SignalsFollow, QuietOutside,
        AlarmBeforeGrace, EndsInTime, LateAlarm, RowFollows, Places, Sections,
        InStage, Outside, Before, Over, flags, section, row, clock, signals
<1>1. CASE TestsFlag
  BY <1>1 DEF TestsFlag, At
<1>2. CASE Claims
  BY <1>2 DEF Claims, At
<1>3. CASE Wakes
  BY <1>3 DEF Wakes, At
<1>4. CASE GoesLive
  BY <1>4 DEF GoesLive, At
<1>5. CASE SetsTimer
  BY <1>5 DEF SetsTimer, At
<1>6. CASE SetsRunning
  BY <1>6 DEF SetsRunning, At
<1>7. CASE ChecksShutdown
  <2>1. TypeOK'
    BY <1>7 DEF ChecksShutdown, At, Arm, CameEarly, Remaining
  <2>2. NothingEscapes'
    BY <1>7 DEF ChecksShutdown, At, Arm, CameEarly, Remaining
  <2>3. FlagsFollow'
    BY <1>7 DEF ChecksShutdown, At, Arm, CameEarly, Remaining
  <2>4. SignalsFollow'
    BY <1>7 DEF ChecksShutdown, At, Arm, CameEarly, Remaining
  <2>5. QuietOutside'
    BY <1>7 DEF ChecksShutdown, At, Arm, CameEarly, Remaining
  <2>6. AlarmBeforeGrace'
    BY <1>7 DEF ChecksShutdown, At, Arm, CameEarly, Remaining
  <2>7. EndsInTime'
    BY <1>7 DEF ChecksShutdown, At, Arm, CameEarly, Remaining
  <2>8. LateAlarm'
    BY <1>7 DEF ChecksShutdown, At, Arm, CameEarly, Remaining
  <2>9. RowFollows'
    BY <1>7 DEF ChecksShutdown, At, Arm, CameEarly, Remaining
  <2> QED
    BY <2>1, <2>2, <2>3, <2>4, <2>5, <2>6, <2>7, <2>8, <2>9
<1>8. CASE WritesPages
  BY <1>8 DEF WritesPages, At
<1>9. CASE BeginsMarking
  BY <1>9 DEF BeginsMarking, At
<1>10. CASE MarksDone
  BY <1>10 DEF MarksDone, At, Released
<1>11. CASE Advances
  BY <1>11 DEF Advances, At, Released
<1>12. CASE Returns
  <2>1. /\ depth' = 0
        /\ ocr' = FALSE
        /\ pc' = "leaving"
    BY <1>12, LeavesNone DEF At, Returns
  <2>2. TypeOK'
    <3>1. /\ pc' \in Places
          /\ raised' \in {"none", "error", "timeout", "deadline"}
          /\ job' \in {"none", "queued", "running", "done", "error"}
      BY <1>12, <2>1 DEF At, Returns
    <3>2. /\ depth' \in 0..2 /\ alarm' \in Nat
          /\ since' \in 0..Kill /\ slow' \in 0..Slow
      BY <1>12, <2>1 DEF At, Returns
    <3>3. /\ ocr' \in BOOLEAN /\ arming' \in BOOLEAN
          /\ tripped' \subseteq {"ALRM", "TERM"}
      BY <1>12, <2>1 DEF At, Returns
    <3>4. /\ shutdown' \in BOOLEAN /\ jobRunning' \in BOOLEAN
          /\ live' \in BOOLEAN /\ armed' \in BOOLEAN /\ asked' \in BOOLEAN
          /\ swallowed' \in BOOLEAN /\ advanced' \in BOOLEAN
      BY <1>12, <2>1 DEF At, Returns
    <3> QED
      BY <3>1, <3>2, <3>3, <3>4
  <2>3. NothingEscapes' /\ FlagsFollow' /\ SignalsFollow' /\ QuietOutside'
    BY <1>12, <2>1 DEF At, Returns
  <2>4. AlarmBeforeGrace' /\ EndsInTime' /\ LateAlarm' /\ RowFollows'
    BY <1>12, <2>1 DEF At, Returns
  <2> QED
    BY <2>2, <2>3, <2>4
<1>13. CASE StageRaises
  <2>1. /\ depth' = 0
        /\ ocr' = FALSE
        /\ pc' = "leaving"
    BY <1>13, LeavesNone DEF StageRaises
  <2>2. TypeOK'
    <3>1. /\ pc' \in Places
          /\ raised' \in {"none", "error", "timeout", "deadline"}
          /\ job' \in {"none", "queued", "running", "done", "error"}
      BY <1>13, <2>1 DEF StageRaises
    <3>2. /\ depth' \in 0..2 /\ alarm' \in Nat
          /\ since' \in 0..Kill /\ slow' \in 0..Slow
      BY <1>13, <2>1 DEF StageRaises
    <3>3. /\ ocr' \in BOOLEAN /\ arming' \in BOOLEAN
          /\ tripped' \subseteq {"ALRM", "TERM"}
      BY <1>13, <2>1 DEF StageRaises
    <3>4. /\ shutdown' \in BOOLEAN /\ jobRunning' \in BOOLEAN
          /\ live' \in BOOLEAN /\ armed' \in BOOLEAN /\ asked' \in BOOLEAN
          /\ swallowed' \in BOOLEAN /\ advanced' \in BOOLEAN
      BY <1>13, <2>1 DEF StageRaises
    <3> QED
      BY <3>1, <3>2, <3>3, <3>4
  <2>3. NothingEscapes' /\ FlagsFollow' /\ SignalsFollow' /\ QuietOutside'
    BY <1>13, <2>1 DEF StageRaises
  <2>4. AlarmBeforeGrace' /\ EndsInTime' /\ LateAlarm' /\ RowFollows'
    BY <1>13, <2>1 DEF StageRaises
  <2> QED
    BY <2>2, <2>3, <2>4
<1>14. CASE SetsInert
  <2>1. TypeOK'
    BY <1>14 DEF SetsInert, At
  <2>2. NothingEscapes'
    BY <1>14 DEF SetsInert, At
  <2>3. FlagsFollow'
    BY <1>14 DEF SetsInert, At
  <2>4. SignalsFollow'
    BY <1>14 DEF SetsInert, At
  <2>5. QuietOutside'
    BY <1>14 DEF SetsInert, At
  <2>6. AlarmBeforeGrace'
    BY <1>14 DEF SetsInert, At
  <2>7. EndsInTime'
    BY <1>14 DEF SetsInert, At
  <2>8. LateAlarm'
    BY <1>14 DEF SetsInert, At
  <2>9. RowFollows'
    BY <1>14 DEF SetsInert, At
  <2> QED
    BY <2>1, <2>2, <2>3, <2>4, <2>5, <2>6, <2>7, <2>8, <2>9
<1>15. CASE Disarms
  BY <1>15 DEF Disarms, At
<1>16. CASE Records
  BY <1>16 DEF Records, At, Outcomes
<1>17. CASE ClearsRunning
  BY <1>17 DEF ClearsRunning, At
<1>18. CASE Restores
  <2>1. TypeOK'
    BY <1>18 DEF Restores, At
  <2>2. NothingEscapes'
    BY <1>18 DEF Restores, At
  <2>3. FlagsFollow'
    BY <1>18 DEF Restores, At
  <2>4. SignalsFollow'
    BY <1>18 DEF Restores, At
  <2>5. QuietOutside'
    BY <1>18 DEF Restores, At
  <2>6. AlarmBeforeGrace'
    BY <1>18 DEF Restores, At
  <2>7. EndsInTime'
    BY <1>18 DEF Restores, At
  <2>8. LateAlarm'
    BY <1>18 DEF Restores, At
  <2>9. RowFollows'
    BY <1>18 DEF Restores, At
  <2> QED
    BY <2>1, <2>2, <2>3, <2>4, <2>5, <2>6, <2>7, <2>8, <2>9
<1>19. CASE HandleAlarm
  <2>1. CASE pc \in Outside \/ Inert
    BY <1>19, <2>1 DEF HandleAlarm, Inert
  <2>2. CASE ~(pc \in Outside \/ Inert) /\ Deferred
    BY <1>19, <2>2 DEF HandleAlarm, Inert, Deferred
  <2>3. CASE ~(pc \in Outside \/ Inert) /\ ~Deferred
    <3>1. pc \in {"stage", "marked", "leaving"}
      BY <1>19, <2>3, HeldInSections DEF HandleAlarm, Inert
    <3>2. CASE Swallowed
      BY <1>19, <3>2 DEF HandleAlarm, Swallowed
    <3>3. CASE Raise(IF armed THEN "deadline" ELSE "timeout")
      <4>1. raised' \in {"deadline", "timeout"}
        BY <3>3 DEF Raise
      <4>2. CASE pc = "leaving"
        <5>1. TypeOK'
          BY <1>19, <3>3, <4>1, <4>2 DEF HandleAlarm, Raise
        <5>2. FlagsFollow' /\ SignalsFollow' /\ QuietOutside' /\ NothingEscapes'
          BY <1>19, <3>3, <4>1, <4>2 DEF HandleAlarm, Raise
        <5>3. AlarmBeforeGrace' /\ EndsInTime' /\ LateAlarm' /\ RowFollows'
          BY <1>19, <3>3, <4>1, <4>2 DEF HandleAlarm, Raise
        <5> QED
          BY <5>1, <5>2, <5>3
      <4>3. CASE pc \in {"stage", "marked"}
        <5>1. /\ depth' = 0
              /\ ocr' = FALSE
              /\ pc' = "leaving"
          BY <3>3, <4>3, LeavesNone DEF Raise
        <5>2. TypeOK'
          <6>1. /\ pc' \in Places
                /\ raised' \in {"none", "error", "timeout", "deadline"}
                /\ job' \in {"none", "queued", "running", "done", "error"}
            BY <1>19, <3>3, <4>1, <5>1 DEF HandleAlarm, Raise
          <6>2. /\ depth' \in 0..2 /\ alarm' \in Nat
                /\ since' \in 0..Kill /\ slow' \in 0..Slow
            BY <1>19, <3>3, <4>1, <5>1 DEF HandleAlarm, Raise
          <6>3. /\ ocr' \in BOOLEAN /\ arming' \in BOOLEAN
                /\ tripped' \subseteq {"ALRM", "TERM"}
            BY <1>19, <3>3, <4>1, <5>1 DEF HandleAlarm, Raise
          <6>4. /\ shutdown' \in BOOLEAN /\ jobRunning' \in BOOLEAN
                /\ live' \in BOOLEAN /\ armed' \in BOOLEAN /\ asked' \in BOOLEAN
                /\ swallowed' \in BOOLEAN /\ advanced' \in BOOLEAN
            BY <1>19, <3>3, <4>1, <5>1 DEF HandleAlarm, Raise
          <6> QED
            BY <6>1, <6>2, <6>3, <6>4
        <5>3. FlagsFollow' /\ SignalsFollow' /\ QuietOutside' /\ NothingEscapes'
          BY <1>19, <3>3, <4>1, <4>3, <5>1 DEF HandleAlarm, Raise
        <5>4. AlarmBeforeGrace' /\ EndsInTime' /\ LateAlarm' /\ RowFollows'
          BY <1>19, <3>3, <4>1, <4>3, <5>1 DEF HandleAlarm, Raise
        <5> QED
          BY <5>2, <5>3, <5>4
      <4> QED
        BY <3>1, <4>2, <4>3
    <3> QED
      BY <1>19, <2>3, <3>2, <3>3 DEF HandleAlarm
  <2> QED
    BY <2>1, <2>2, <2>3
<1>20. CASE HandleTerm
  <2>1. TypeOK'
    BY <1>20 DEF HandleTerm
  <2>2. NothingEscapes'
    BY <1>20 DEF HandleTerm
  <2>3. FlagsFollow'
    BY <1>20 DEF HandleTerm
  <2>4. SignalsFollow'
    BY <1>20 DEF HandleTerm
  <2>5. QuietOutside'
    BY <1>20 DEF HandleTerm
  <2>6. AlarmBeforeGrace'
    BY <1>20 DEF HandleTerm
  <2>7. EndsInTime'
    BY <1>20 DEF HandleTerm
  <2>8. LateAlarm'
    BY <1>20 DEF HandleTerm
  <2>9. RowFollows'
    BY <1>20 DEF HandleTerm
  <2> QED
    BY <2>1, <2>2, <2>3, <2>4, <2>5, <2>6, <2>7, <2>8, <2>9
<1>21. CASE ArmsDeadline
  <2>1. TypeOK'
    BY <1>21 DEF ArmsDeadline, Arm, Remaining
  <2>2. NothingEscapes'
    BY <1>21 DEF ArmsDeadline, Arm, Remaining
  <2>3. FlagsFollow'
    BY <1>21 DEF ArmsDeadline, Arm, Remaining
  <2>4. SignalsFollow'
    BY <1>21 DEF ArmsDeadline, Arm, Remaining
  <2>5. QuietOutside'
    BY <1>21 DEF ArmsDeadline, Arm, Remaining
  <2>6. AlarmBeforeGrace'
    BY <1>21 DEF ArmsDeadline, Arm, Remaining
  <2>7. EndsInTime'
    BY <1>21 DEF ArmsDeadline, Arm, Remaining
  <2>8. LateAlarm'
    BY <1>21 DEF ArmsDeadline, Arm, Remaining
  <2>9. RowFollows'
    BY <1>21 DEF ArmsDeadline, Arm, Remaining
  <2> QED
    BY <2>1, <2>2, <2>3, <2>4, <2>5, <2>6, <2>7, <2>8, <2>9
<1>22. CASE SendsTerm
  BY <1>22 DEF SendsTerm
<1>23. CASE Enqueues
  BY <1>23 DEF Enqueues
<1>24. CASE Cancels
  BY <1>24 DEF Cancels
<1>25. CASE Tick
  BY <1>25 DEF Tick, TakesTime, PlaceAfter
<1>26. CASE UNCHANGED vars
  BY <1>26 DEF vars
<1> QED
  BY <1>1, <1>2, <1>3, <1>4, <1>5, <1>6, <1>7, <1>8, <1>9, <1>10, <1>11,
     <1>12, <1>13, <1>14, <1>15, <1>16, <1>17, <1>18, <1>19, <1>20, <1>21,
     <1>22, <1>23, <1>24, <1>25, <1>26 DEF Next, Runs, Handles

LEMMA Invariance == Spec => []IInv
BY InitHolds, StepHolds, PTL DEF Spec

-----------------------------------------------------------------------------
(* Every state is well typed; in particular a section that was entered is
   left however the stage ends, so the depth never falls behind.           *)
THEOREM TypeCorrect == Spec => []TypeOK
<1>1. IInv => TypeOK
  BY DEF IInv
<1> QED
  BY <1>1, Invariance, PTL

(* The deadline bounds the stage wherever SIGTERM meets it: at the claim, while
   the timer is set, in the stage, in its sections.                        *)
THEOREM StopsInTime == Spec => []StageBounded
<1>1. IInv => StageBounded
  <2> SUFFICES ASSUME IInv, pc = "stage", ~swallowed PROVE since <= Grace
    BY DEF StageBounded
  <2>1. CASE ~shutdown \/ arming
    BY <2>1, TimesAssumption DEF IInv, SignalsFollow
  <2>2. CASE shutdown /\ ~arming
    BY <2>2, TimesAssumption DEF IInv, AlarmBeforeGrace, TypeOK
  <2> QED
    BY <2>1, <2>2
<1> QED
  BY <1>1, Invariance, PTL

(* Neither leaving nor being killed leaves a job of this process running, or
   done with nothing after it.                                             *)
THEOREM LeavesNoJob == Spec => []JobsAreHandedBack
<1>1. IInv => JobsAreHandedBack
  BY DEF IInv, JobsAreHandedBack, RowFollows
<1> QED
  BY <1>1, Invariance, PTL

(* No alarm goes off where its exception would end the process.            *)
THEOREM BookkeepingIsSafe == Spec => []NothingEscapes
<1>1. IInv => NothingEscapes
  BY DEF IInv
<1> QED
  BY <1>1, Invariance, PTL
=============================================================================
