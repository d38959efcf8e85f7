------------------------ MODULE FolderReconcileProofs ------------------------
(***************************************************************************)
(* What is proved of FolderReconcile for every set of folders and every     *)
(* number of outages, exceptions and changes: type correctness, that a      *)
(* folder waits for the recovery only while one is coming, and that work an *)
(* outage or an exception lost is never forgotten.                          *)
(***************************************************************************)
EXTENDS FolderReconcile, TLAPS

-----------------------------------------------------------------------------
(* Threads, calls and requests *)

LEMMA ThreadNames ==
  /\ Monitor \in Threads /\ Listener \in Threads /\ Monitor # Listener
  /\ \A f \in Folders :
       /\ <<"live", f>> \in Live /\ <<"live", f>> \in Threads
       /\ <<"pass", f>> \in Passing /\ <<"pass", f>> \in Threads
       /\ <<"pass", f>> \notin {Monitor, Listener}
  /\ \A t \in Live \union Passing : t[2] \in Folders
  /\ \A t \in Live : t = <<"live", t[2]>>
  /\ \A t \in Passing : t = <<"pass", t[2]>>
BY DEF Threads, Live, Passing, Monitor, Listener

(* A step of one thread leaves the calls of the others as they are. *)
LEMMA CallsOne ==
  ASSUME TypeOK, NEW t \in Threads, NEW pc \in PC, NEW folders \in SUBSET Folders,
         Calls(t, pc, folders)
  PROVE  /\ at' \in [Threads -> Call]
         /\ at'[t].pc = pc
         /\ at'[t].folders = folders
         /\ \A u \in Threads \ {t} : at'[u] = at[u]
<1>1. [pc |-> pc, folders |-> folders] \in Call
  BY DEF Call
<1> QED
  BY <1>1 DEF Calls, TypeOK

LEMMA GotoOne ==
  ASSUME TypeOK, NEW t \in Threads, NEW pc \in PC, Goto(t, pc)
  PROVE  /\ at' \in [Threads -> Call]
         /\ at'[t].pc = pc
         /\ at'[t].folders = {}
         /\ \A u \in Threads \ {t} : at'[u] = at[u]
BY CallsOne DEF Goto

LEMMA ReturnOne ==
  ASSUME TypeOK, NEW t \in Threads, Return(t)
  PROVE  /\ at' \in [Threads -> Call]
         /\ at'[t].pc = "idle"
         /\ \A u \in Threads \ {t} : at'[u] = at[u]
BY GotoOne DEF Return, PC

(* A folder that is requested has a pass to come, and a worker that is under
   way is not disturbed.                                                   *)
LEMMA RequestQueues ==
  ASSUME TypeOK, NEW folders \in SUBSET Folders, Request(folders)
  PROVE  /\ reconciling' \subseteq Folders
         /\ again' \subseteq reconciling'
         /\ worker' \in [Folders -> WorkerPC]
         /\ \A f \in Folders : worker'[f] # "none" <=> f \in reconciling'
         /\ \A f \in folders : f \in again' \/ worker'[f] = "begin"
         /\ again \subseteq again'
         /\ \A f \in Folders : worker[f] # "none" => worker'[f] = worker[f]
         /\ \A f \in Folders : worker'[f] = "pass" <=> worker[f] = "pass"
BY DEF Request, TypeOK, WorkerPC

(* A worker that moves on within its run. *)
LEMMA WorkerMoves ==
  ASSUME TypeOK, NEW f \in Folders, NEW pc \in WorkerPC \ {"none"},
         worker[f] # "none", Moves(f, pc)
  PROVE  /\ reconciling' \subseteq Folders
         /\ again' \subseteq reconciling'
         /\ worker' \in [Folders -> WorkerPC]
         /\ \A g \in Folders : worker'[g] # "none" <=> g \in reconciling'
         /\ again' = again
         /\ worker'[f] = pc
         /\ \A g \in Folders \ {f} : worker'[g] = worker[g]
BY DEF Moves, TypeOK, WorkerPC

-----------------------------------------------------------------------------
(* Type correctness *)

(* Only a folder's own threads record a folder for the recovery: the monitor
   records a failure and nothing else, the listener records none.          *)
CallersOK ==
  /\ at[Monitor].pc # "need"
  /\ at[Listener].pc \notin {"record", "need"}

LEMMA NeedHasFolder ==
  ASSUME TypeOK, CallersOK, NEW t \in Threads, at[t].pc = "need"
  PROVE  t \in Live \union Passing /\ t[2] \in Folders
BY ThreadNames DEF Threads, CallersOK

LEMMA InitType == Init => TypeOK /\ CallersOK
<1> SUFFICES ASSUME Init PROVE TypeOK /\ CallersOK
  OBVIOUS
<1>1. NoCall \in Call
  BY DEF NoCall, Call, PC
<1>2. at \in [Threads -> Call] /\ \A t \in Threads : at[t].pc = "idle"
  BY <1>1 DEF Init, NoCall
<1>3. /\ worker \in [Folders -> WorkerPC]
      /\ \A f \in Folders : worker[f] # "none" <=> f \in reconciling
  BY DEF Init, WorkerPC
<1>4. work \in [Folders -> Work]
  BY DEF Init, Work
<1>5. troubles \in 0..MaxTroubles
  BY ReconcileAssumption DEF Init
<1>6. TypeOK
  BY <1>2, <1>3, <1>4, <1>5 DEF Init, TypeOK
<1> QED
  BY <1>2, <1>6, ThreadNames DEF CallersOK

LEMMA StepType == TypeOK /\ CallersOK /\ [Next]_vars => TypeOK' /\ CallersOK'
<1> SUFFICES ASSUME TypeOK, CallersOK, [Next]_vars
             PROVE  TypeOK' /\ CallersOK'
  OBVIOUS
<1> USE ThreadNames
<1>1. ASSUME NEW t \in Threads, NoteFailure(t) PROVE TypeOK' /\ CallersOK'
  <2>1. CASE t = Monitor
    BY <1>1, <2>1, ReturnOne
    DEF NoteFailure, TypeOK, CallersOK, database, requests, listening
  <2>2. CASE t # Monitor
    <3>1. t # Listener
      BY <1>1 DEF NoteFailure, CallersOK
    <3> QED
      BY <1>1, <2>2, <3>1, GotoOne
      DEF NoteFailure, TypeOK, CallersOK, database, requests, listening, PC
  <2> QED
    BY <2>1, <2>2
<1>2. ASSUME NEW t \in Threads, NeedCatchUp(t) PROVE TypeOK' /\ CallersOK'
  <2>1. t \in Live \union Passing /\ t[2] \in Folders
    BY <1>2, NeedHasFolder DEF NeedCatchUp
  <2>2. /\ at' \in [Threads -> Call] /\ at'[t].pc = "idle"
        /\ \A u \in Threads \ {t} : at'[u] = at[u]
    BY <1>2, ReturnOne DEF NeedCatchUp
  <2>3. CallersOK'
    BY <2>2 DEF CallersOK
  <2>4. /\ catchUp' \subseteq Folders /\ retry' \subseteq Folders
    BY <1>2, <2>1 DEF NeedCatchUp, RecordsCatchUp, TypeOK
  <2>5. /\ reconciling' \subseteq Folders /\ again' \subseteq reconciling'
        /\ worker' \in [Folders -> WorkerPC]
        /\ \A f \in Folders : worker'[f] # "none" <=> f \in reconciling'
    <3>1. CASE outage
      BY <1>2, <3>1 DEF NeedCatchUp, RecordsCatchUp, TypeOK, requests
    <3>2. CASE ~outage
      BY <1>2, <2>1, <3>2, RequestQueues DEF NeedCatchUp, RecordsCatchUp
    <3> QED
      BY <3>1, <3>2
  <2> QED
    BY <1>2, <2>2, <2>3, <2>4, <2>5
    DEF NeedCatchUp, TypeOK, database, listening
<1>3. ASSUME NEW t \in Threads, NoteOk(t) PROVE TypeOK' /\ CallersOK'
  <2>1. /\ at' \in [Threads -> Call] /\ at'[t].pc \in {"idle", "request"}
        /\ \A u \in Threads \ {t} : at'[u] = at[u]
    BY <1>3, ReturnOne, CallsOne DEF NoteOk, TypeOK, PC
  <2> QED
    BY <1>3, <2>1
    DEF NoteOk, TypeOK, CallersOK, database, requests, listening
<1>4. ASSUME NEW t \in Threads, RequestNext(t) PROVE TypeOK' /\ CallersOK'
  <2>1. PICK f \in at[t].folders :
          /\ retry' = retry \ {f}
          /\ Request({f})
          /\ IF at[t].folders = {f} THEN Return(t)
             ELSE Calls(t, "request", at[t].folders \ {f})
    BY <1>4 DEF RequestNext
  <2>2. at[t].folders \subseteq Folders
    BY DEF TypeOK, Call
  <2>3. /\ at' \in [Threads -> Call] /\ at'[t].pc \in {"idle", "request"}
        /\ \A u \in Threads \ {t} : at'[u] = at[u]
    BY <2>1, <2>2, ReturnOne, CallsOne DEF PC
  <2>4. /\ reconciling' \subseteq Folders /\ again' \subseteq reconciling'
        /\ worker' \in [Folders -> WorkerPC]
        /\ \A g \in Folders : worker'[g] # "none" <=> g \in reconciling'
    BY <2>1, <2>2, RequestQueues
  <2> QED
    BY <1>4, <2>1, <2>3, <2>4
    DEF RequestNext, TypeOK, CallersOK, database, recovery, listening
<1>5. ASSUME NEW t \in Threads, SyncObservers(t) PROVE TypeOK' /\ CallersOK'
  <2> DEFINE wanted == at[t].folders
             started == wanted \ observed
             stopped == observed \ wanted
  <2>1. wanted \subseteq Folders
    BY DEF TypeOK, Call
  <2>2. /\ at' \in [Threads -> Call] /\ at'[t].pc = "ok"
        /\ \A u \in Threads \ {t} : at'[u] = at[u]
    BY <1>5, GotoOne DEF SyncObservers, PC
  <2>3. /\ reconciling' \subseteq Folders /\ again' \subseteq reconciling'
        /\ worker' \in [Folders -> WorkerPC]
        /\ \A g \in Folders : worker'[g] # "none" <=> g \in reconciling'
    BY <1>5, <2>1, RequestQueues DEF SyncObservers
  <2>4. work' = [f \in Folders |-> CASE f \in started -> "lost"
                                     [] f \in stopped -> "none"
                                     [] OTHER -> work[f]]
    BY <1>5 DEF SyncObservers
  <2>5. work' \in [Folders -> Work]
    BY <2>4 DEF TypeOK, Work
  <2>6. /\ observed' \subseteq Folders /\ catchUp' \subseteq Folders
        /\ retry' \subseteq Folders /\ dropped' \subseteq Folders
    BY <1>5, <2>1 DEF SyncObservers, TypeOK
  <2>7. CallersOK'
    BY <2>2 DEF CallersOK
  <2> QED
    BY <1>5, <2>2, <2>3, <2>5, <2>6, <2>7
    DEF SyncObservers, TypeOK, database, listening
<1>6. ASSUME NEW f \in Folders, LiveEvent(f) PROVE TypeOK' /\ CallersOK'
  <2> DEFINE t == <<"live", f>>
  <2>1. t \in Threads /\ t \notin {Monitor, Listener}
    BY DEF Monitor, Listener
  <2>2. /\ at' \in [Threads -> Call]
        /\ \A u \in Threads \ {t} : at'[u] = at[u]
    <3>1. Goto(t, "ok") \/ Goto(t, "record")
      BY <1>6 DEF LiveEvent
    <3> QED
      BY <2>1, <3>1, GotoOne DEF PC
  <2>3. work' \in [Folders -> Work]
    BY <1>6 DEF LiveEvent, Lose, TypeOK, Work
  <2>4. CallersOK'
    BY <2>1, <2>2 DEF CallersOK
  <2> QED
    BY <1>6, <2>2, <2>3, <2>4
    DEF LiveEvent, TypeOK, database, recovery, requests, listening
<1>7. ASSUME NEW f \in Folders, WorkerStep(f) \/ PassRaises(f)
      PROVE  TypeOK' /\ CallersOK'
  <2> DEFINE RequestsOK ==
        /\ reconciling' \subseteq Folders /\ again' \subseteq reconciling'
        /\ worker' \in [Folders -> WorkerPC]
        /\ \A g \in Folders : worker'[g] # "none" <=> g \in reconciling'
  <2>1. CASE PassBegins(f)
    <3>1. RequestsOK
      BY <2>1, WorkerMoves DEF PassBegins, WorkerAt, WorkerPC
    <3>2. work' \in [Folders -> Work]
      BY <2>1 DEF PassBegins, TypeOK, Work
    <3> QED
      BY <2>1, <3>1, <3>2
      DEF PassBegins, TypeOK, CallersOK, database, recovery, listening
  <2>2. CASE PassCompletes(f)
    <3>1. RequestsOK
      BY <2>2, WorkerMoves DEF PassCompletes, WorkerAt, WorkerPC
    <3>2. work' \in [Folders -> Work]
      BY <2>2 DEF PassCompletes, TypeOK, Work
    <3> QED
      BY <2>2, <3>1, <3>2
      DEF PassCompletes, TypeOK, CallersOK, database, recovery, listening
  <2>3. CASE PassMeetsOutage(f)
    <3>1. RequestsOK
      BY <2>3, WorkerMoves DEF PassMeetsOutage, WorkerAt, WorkerPC
    <3>2. work' \in [Folders -> Work]
      BY <2>3 DEF PassMeetsOutage, Lose, TypeOK, Work
    <3>3. /\ at' \in [Threads -> Call]
          /\ \A u \in Threads \ {<<"pass", f>>} : at'[u] = at[u]
      BY <2>3, GotoOne DEF PassMeetsOutage, PC
    <3>4. CallersOK'
      BY <3>3 DEF CallersOK
    <3> QED
      BY <2>3, <3>1, <3>2, <3>3, <3>4
      DEF PassMeetsOutage, TypeOK, database, recovery, listening
  <2>4. CASE PassFindsFolderGone(f)
    <3>1. RequestsOK
      BY <2>4, WorkerMoves DEF PassFindsFolderGone, WorkerAt, WorkerPC
    <3>2. work' \in [Folders -> Work]
      BY <2>4 DEF PassFindsFolderGone, Lose, TypeOK, Work
    <3> QED
      BY <2>4, <3>1, <3>2
      DEF PassFindsFolderGone, TypeOK, CallersOK, database, recovery, listening
  <2>5. CASE Look(f)
    <3>1. RequestsOK
      BY <2>5 DEF Look, WorkerAt, TypeOK, WorkerPC
    <3> QED
      BY <2>5, <3>1
      DEF Look, TypeOK, CallersOK, database, recovery, listening
  <2>6. CASE Finally(f)
    <3>1. RequestsOK
      BY <2>6 DEF Finally, WorkerAt, TypeOK, WorkerPC
    <3> QED
      BY <2>6, <3>1
      DEF Finally, TypeOK, CallersOK, database, recovery, listening
  <2>7. CASE PassRaises(f)
    <3>1. RequestsOK
      BY <2>7, WorkerMoves DEF PassRaises, WorkerAt, WorkerPC
    <3>2. work' \in [Folders -> Work]
      BY <2>7 DEF PassRaises, Lose, TypeOK, Work
    <3>3. troubles' \in 0..MaxTroubles
      BY <2>7, ReconcileAssumption DEF PassRaises, Trouble, TypeOK
    <3> QED
      BY <2>7, <3>1, <3>2, <3>3
      DEF PassRaises, TypeOK, CallersOK, database, recovery, listening
  <2> QED
    BY <1>7, <2>1, <2>2, <2>3, <2>4, <2>5, <2>6, <2>7 DEF WorkerStep
<1>8. ASSUME NEW f \in Folders, PassCompares(f) PROVE TypeOK' /\ CallersOK'
  <2>1. /\ at' \in [Threads -> Call]
        /\ \A u \in Threads \ {<<"pass", f>>} : at'[u] = at[u]
    BY <1>8, GotoOne DEF PassCompares, PC
  <2>2. CallersOK'
    BY <2>1 DEF CallersOK
  <2> QED
    BY <1>8, <2>1, <2>2
    DEF PassCompares, TypeOK, database, recovery, requests, listening
<1>9. ASSUME Probe PROVE TypeOK' /\ CallersOK'
  <2>1. /\ at' \in [Threads -> Call] /\ at'[Monitor].pc \in {"ok", "record"}
        /\ \A u \in Threads \ {Monitor} : at'[u] = at[u]
    BY <1>9, GotoOne DEF Probe, PC
  <2>2. CallersOK'
    BY <2>1 DEF CallersOK
  <2> QED
    BY <1>9, <2>1, <2>2
    DEF Probe, TypeOK, database, recovery, requests, listening
<1>10. ASSUME RunDueRetry \/ CheckRoots PROVE TypeOK' /\ CallersOK'
  <2>1. PICK f \in Folders : Request({f})
    BY <1>10 DEF RunDueRetry, CheckRoots, TypeOK
  <2>2. retry' \subseteq Folders
    BY <1>10 DEF RunDueRetry, CheckRoots, TypeOK
  <2>3. /\ reconciling' \subseteq Folders /\ again' \subseteq reconciling'
        /\ worker' \in [Folders -> WorkerPC]
        /\ \A g \in Folders : worker'[g] # "none" <=> g \in reconciling'
    BY <2>1, RequestQueues
  <2> QED
    BY <1>10, <2>2, <2>3
    DEF RunDueRetry, CheckRoots, TypeOK, CallersOK, database, recovery,
        listening
<1>11. ASSUME Reconnect \/ Notified PROVE TypeOK' /\ CallersOK'
  <2>1. /\ at' \in [Threads -> Call] /\ at'[Listener].pc = "apply"
        /\ \A u \in Threads \ {Listener} : at'[u] = at[u]
    BY <1>11, CallsOne DEF Reconnect, Notified, ReadFolders, TypeOK, PC
  <2>2. CallersOK'
    BY <2>1 DEF CallersOK
  <2> QED
    BY <1>11, <2>1, <2>2
    DEF Reconnect, Notified, ReadFolders, TypeOK, database, recovery, requests
<1>12. ASSUME DatabaseGoes \/ DatabaseReturns \/ ChangeFolder
       PROVE  TypeOK' /\ CallersOK'
  <2>1. troubles' \in 0..MaxTroubles
    BY <1>12, ReconcileAssumption
    DEF DatabaseGoes, DatabaseReturns, ChangeFolder, Trouble, TypeOK
  <2>2. enabled' \subseteq Folders
    BY <1>12 DEF DatabaseGoes, DatabaseReturns, ChangeFolder, TypeOK
  <2>3. notified' \in BOOLEAN
    <3>1. (listener = "up") \in BOOLEAN
      OBVIOUS
    <3> QED
      BY <1>12, <3>1
      DEF DatabaseGoes, DatabaseReturns, ChangeFolder, TypeOK, listening
  <2> QED
    BY <1>12, <2>1, <2>2, <2>3
    DEF DatabaseGoes, DatabaseReturns, ChangeFolder, TypeOK, CallersOK,
        recovery, requests, listening
<1>13. CASE UNCHANGED vars
  BY <1>13
  DEF vars, database, recovery, requests, listening, TypeOK, CallersOK
<1> QED
  BY <1>1, <1>2, <1>3, <1>4, <1>5, <1>6, <1>7, <1>8, <1>9, <1>10, <1>11, <1>12,
     <1>13 DEF Next, CallStep

(* Every variable keeps its type; a worker is under way exactly for the folders
   of _reconciling, and a request is remembered only for one of them.      *)
THEOREM TypeCorrect == Spec => []TypeOK
<1>1. TypeOK /\ CallersOK /\ [Next]_vars => (TypeOK /\ CallersOK)'
  BY StepType
<1> QED
  BY <1>1, InitType, PTL DEF Spec

-----------------------------------------------------------------------------
(* The recovery *)

(* _catch_up grows only under a lock that finds the outage on, and the reset
   that ends the outage empties it: no folder waits for a recovery that has
   been already.                                                           *)
THEOREM RecoveryComes == Spec => []CatchUpOnlyInOutage
<1>1. Init => CatchUpOnlyInOutage
  BY DEF Init, CatchUpOnlyInOutage
<1>2. CatchUpOnlyInOutage /\ [Next]_vars => CatchUpOnlyInOutage'
  <2> SUFFICES ASSUME CatchUpOnlyInOutage, [Next]_vars
               PROVE  CatchUpOnlyInOutage'
    OBVIOUS
  <2>1. ASSUME NEW t \in Threads, CallStep(t) PROVE CatchUpOnlyInOutage'
    BY <2>1
    DEF CallStep, NoteFailure, NeedCatchUp, RecordsCatchUp, NoteOk, RequestNext,
        SyncObservers, CatchUpOnlyInOutage, recovery
  <2>2. ASSUME ~\E t \in Threads : CallStep(t) PROVE UNCHANGED recovery
    BY <2>2
    DEF Next, LiveEvent, WorkerStep, PassBegins, PassCompletes,
        PassMeetsOutage, PassFindsFolderGone, Look, Finally, PassCompares,
        PassRaises, Probe, RunDueRetry, CheckRoots, Reconnect, Notified,
        ReadFolders, DatabaseGoes, DatabaseReturns, ChangeFolder, vars
  <2> QED
    BY <2>1, <2>2 DEF recovery, CatchUpOnlyInOutage
<1> QED
  BY <1>1, <1>2, PTL DEF Spec

-----------------------------------------------------------------------------
(* Lost work *)

(* WorkIsKept strengthened.  A pass that completes takes the folder's retry
   away, so that what is lost while it runs must not wait for the retry.   *)
KeptInPass(f) ==
  Recorded(f) \/ f \in catchUp \/ Requested(f) \/ f \in dropped

FolderKept(f) ==
  /\ work[f] = "lost" => KeptInPass(f) \/ (f \in retry /\ worker[f] # "pass")
  /\ work[f] = "passing" => worker[f] = "pass"

WorkKept == \A f \in observed : FolderKept(f)

(* A folder that is asked for has its pass to come, whatever else the step
   does; one that is not asked for keeps what it has.                      *)
LEMMA RequestKeeps ==
  ASSUME TypeOK, NEW folders \in SUBSET Folders, Request(folders),
         NEW f \in Folders, UNCHANGED <<work, dropped>>, FolderKept(f),
         f \notin folders =>
           /\ f \in retry => f \in retry'
           /\ f \in catchUp => f \in catchUp'
           /\ Recorded(f) => Recorded(f)'
           /\ \A t \in Threads :
                at[t].pc = "request" /\ f \in at[t].folders
                  => at'[t].pc = "request" /\ f \in at'[t].folders
  PROVE  FolderKept(f)'
<1>1. CASE f \in folders
  BY <1>1, RequestQueues DEF FolderKept, KeptInPass, Requested
<1>2. CASE f \notin folders
  <2>1. Requested(f) => Requested(f)'
    BY <1>2, RequestQueues DEF Requested
  <2> QED
    BY <1>2, <2>1, RequestQueues DEF FolderKept, KeptInPass
<1> QED
  BY <1>1, <1>2

(* A step that touches neither the calls nor the requests of a folder nor what
   it waits for leaves its work kept.                                      *)
LEMMA NothingTouched ==
  ASSUME NEW f \in Folders, FolderKept(f),
         UNCHANGED <<catchUp, retry, again>>,
         worker'[f] = worker[f], work'[f] = work[f],
         f \in dropped => f \in dropped',
         Recorded(f) => Recorded(f)',
         \A t \in Threads :
           at[t].pc = "request" /\ f \in at[t].folders
             => at'[t].pc = "request" /\ f \in at'[t].folders
  PROVE  FolderKept(f)'
BY DEF FolderKept, KeptInPass, Requested

(* The calls that a step of thread t does not disturb. *)
LEMMA OtherCalls ==
  ASSUME NEW f \in Folders, NEW t \in Threads,
         t \notin {<<"live", f>>, <<"pass", f>>} \/ at[t].pc \notin {"record", "need"}
           \/ at'[t].pc \in {"record", "need"},
         \A u \in Threads \ {t} : at'[u] = at[u]
  PROVE  Recorded(f) => Recorded(f)'
BY ThreadNames DEF Recorded

LEMMA StepKept ==
  ASSUME TypeOK, CallersOK, WorkKept, [Next]_vars PROVE WorkKept'
<1> USE ThreadNames
<1>1. ASSUME NEW t \in Threads, NoteFailure(t) PROVE WorkKept'
  <2> SUFFICES ASSUME NEW f \in observed PROVE FolderKept(f)'
    BY <1>1 DEF NoteFailure, WorkKept
  <2>1. f \in Folders /\ FolderKept(f)
    BY DEF TypeOK, WorkKept
  <2>2. \A u \in Threads \ {t} : at'[u] = at[u]
    BY <1>1, ReturnOne, GotoOne DEF NoteFailure, PC
  <2>3. t = Monitor \/ at'[t].pc = "need"
    BY <1>1, GotoOne DEF NoteFailure, PC
  <2>4. Recorded(f) => Recorded(f)'
    BY <2>1, <2>2, <2>3, OtherCalls DEF Monitor
  <2> QED
    BY <1>1, <2>1, <2>2, <2>4, NothingTouched DEF NoteFailure, requests
<1>2. ASSUME NEW t \in Threads, NeedCatchUp(t) PROVE WorkKept'
  <2> SUFFICES ASSUME NEW f \in observed PROVE FolderKept(f)'
    BY <1>2 DEF NeedCatchUp, WorkKept
  <2>1. f \in Folders /\ FolderKept(f)
    BY DEF TypeOK, WorkKept
  <2>2. t \in Live \union Passing /\ t[2] \in Folders
    BY <1>2, NeedHasFolder DEF NeedCatchUp
  <2>3. \A u \in Threads \ {t} : at'[u] = at[u]
    BY <1>2, ReturnOne DEF NeedCatchUp
  <2>4. UNCHANGED <<work, dropped>> /\ \A g \in retry : g \in retry'
    BY <1>2 DEF NeedCatchUp
  <2>5. f # t[2] => t \notin {<<"live", f>>, <<"pass", f>>}
    BY <2>2
  <2>6. f # t[2] => (Recorded(f) => Recorded(f)')
    BY <2>1, <2>3, <2>5, OtherCalls
  <2>7. \A u \in Threads : at[u].pc = "request" => at'[u] = at[u]
    BY <1>2, <2>3 DEF NeedCatchUp
  <2>8. CASE outage
    <3>1. catchUp' = catchUp \union {t[2]} /\ UNCHANGED requests
      BY <1>2, <2>8 DEF NeedCatchUp, RecordsCatchUp
    <3>2. CASE f = t[2]
      BY <2>1, <2>4, <3>1, <3>2 DEF FolderKept, KeptInPass, requests
    <3>3. CASE f # t[2]
      <4>1. Requested(f) => Requested(f)'
        BY <2>7, <3>1 DEF Requested, requests
      <4>2. f \in retry <=> f \in retry'
        BY <1>2, <3>3 DEF NeedCatchUp
      <4> QED
        BY <2>1, <2>4, <2>6, <3>1, <3>3, <4>1, <4>2
        DEF FolderKept, KeptInPass, requests
    <3> QED
      BY <3>2, <3>3
  <2>9. CASE ~outage
    <3>1. UNCHANGED catchUp /\ Request({t[2]})
      BY <1>2, <2>9 DEF NeedCatchUp, RecordsCatchUp
    <3> QED
      BY <2>1, <2>2, <2>4, <2>6, <2>7, <3>1, RequestKeeps
  <2> QED
    BY <2>8, <2>9
<1>3. ASSUME NEW t \in Threads, NoteOk(t) PROVE WorkKept'
  <2> SUFFICES ASSUME NEW f \in observed PROVE FolderKept(f)'
    BY <1>3 DEF NoteOk, WorkKept
  <2>1. f \in Folders /\ FolderKept(f)
    BY DEF TypeOK, WorkKept
  <2>2. /\ \A u \in Threads \ {t} : at'[u] = at[u]
        /\ f \in catchUp => at'[t].pc = "request" /\ f \in at'[t].folders
    BY <1>3, ReturnOne, CallsOne DEF NoteOk, TypeOK, PC
  <2>3. at[t].pc = "ok"
    BY <1>3 DEF NoteOk
  <2>4. Recorded(f) => Recorded(f)'
    BY <2>1, <2>2, <2>3, OtherCalls
  <2>5. UNCHANGED <<retry, again, worker, work, dropped>>
    BY <1>3 DEF NoteOk, requests
  <2>6. KeptInPass(f) => KeptInPass(f)'
    BY <2>2, <2>3, <2>4, <2>5 DEF KeptInPass, Requested
  <2> QED
    BY <2>1, <2>5, <2>6 DEF FolderKept
<1>4. ASSUME NEW t \in Threads, RequestNext(t) PROVE WorkKept'
  <2> SUFFICES ASSUME NEW f \in observed PROVE FolderKept(f)'
    BY <1>4 DEF RequestNext, WorkKept
  <2>1. f \in Folders /\ FolderKept(f)
    BY DEF TypeOK, WorkKept
  <2>2. PICK g \in at[t].folders :
          /\ retry' = retry \ {g}
          /\ Request({g})
          /\ IF at[t].folders = {g} THEN Return(t)
             ELSE Calls(t, "request", at[t].folders \ {g})
    BY <1>4 DEF RequestNext
  <2>3. at[t].folders \subseteq Folders
    BY DEF TypeOK, Call
  <2>4. /\ \A u \in Threads \ {t} : at'[u] = at[u]
        /\ f \in at[t].folders /\ f # g
             => at'[t].pc = "request" /\ f \in at'[t].folders
    BY <2>2, <2>3, ReturnOne, CallsOne DEF PC
  <2>5. at[t].pc = "request" /\ UNCHANGED <<catchUp, work, dropped>>
    BY <1>4 DEF RequestNext, recovery
  <2>6. Recorded(f) => Recorded(f)'
    BY <2>1, <2>4, <2>5, OtherCalls
  <2> QED
    BY <2>1, <2>2, <2>3, <2>4, <2>5, <2>6, RequestKeeps
<1>5. ASSUME NEW t \in Threads, SyncObservers(t) PROVE WorkKept'
  <2> DEFINE wanted == at[t].folders
             started == wanted \ observed
             stopped == observed \ wanted
  <2>1. wanted \subseteq Folders /\ observed' = wanted /\ Request(started)
    BY <1>5 DEF SyncObservers, TypeOK, Call
  <2> SUFFICES ASSUME NEW f \in wanted PROVE FolderKept(f)'
    BY <2>1 DEF WorkKept
  <2>2. work' = [g \in Folders |-> CASE g \in started -> "lost"
                                     [] g \in stopped -> "none"
                                     [] OTHER -> work[g]]
    BY <1>5 DEF SyncObservers
  <2>3. CASE f \in started
    <3>1. work'[f] = "lost"
      BY <2>1, <2>2, <2>3
    <3>2. Requested(f)'
      BY <2>1, <2>3, RequestQueues DEF Requested
    <3> QED
      BY <3>1, <3>2 DEF FolderKept, KeptInPass
  <2>4. CASE f \notin started
    <3>1. f \in observed /\ f \in Folders /\ FolderKept(f)
      BY <2>1, <2>4 DEF WorkKept
    <3>2. work'[f] = work[f]
      BY <2>2, <2>4, <3>1
    <3>3. /\ f \in catchUp <=> f \in catchUp'
          /\ f \in retry <=> f \in retry'
          /\ f \in dropped <=> f \in dropped'
      BY <1>5, <2>4, <3>1 DEF SyncObservers
    <3>4. at[t].pc = "apply" /\ \A u \in Threads \ {t} : at'[u] = at[u]
      BY <1>5, GotoOne DEF SyncObservers, PC
    <3>5. Recorded(f) => Recorded(f)'
      BY <3>1, <3>4, OtherCalls
    <3>6. Requested(f) => Requested(f)'
      BY <2>1, <3>1, <3>4, RequestQueues DEF Requested
    <3>7. worker'[f] = "pass" <=> worker[f] = "pass"
      BY <2>1, <3>1, RequestQueues
    <3> QED
      BY <3>1, <3>2, <3>3, <3>5, <3>6, <3>7 DEF FolderKept, KeptInPass
  <2> QED
    BY <2>3, <2>4
<1>6. ASSUME NEW g \in Folders, LiveEvent(g) PROVE WorkKept'
  <2> DEFINE t == <<"live", g>>
  <2> SUFFICES ASSUME NEW f \in observed PROVE FolderKept(f)'
    BY <1>6 DEF LiveEvent, WorkKept
  <2>1. f \in Folders /\ FolderKept(f)
    BY DEF TypeOK, WorkKept
  <2>2. /\ \A u \in Threads \ {t} : at'[u] = at[u]
        /\ ~up => at'[t].pc = "record"
    BY <1>6, GotoOne DEF LiveEvent, PC
  <2>3. at[t].pc = "idle" /\ UNCHANGED <<catchUp, retry, again, worker, dropped>>
    BY <1>6 DEF LiveEvent, Idle, recovery, requests
  <2>4. Recorded(f) => Recorded(f)'
    BY <2>1, <2>2, <2>3, OtherCalls
  <2>5. CASE ~up /\ f = g
    BY <1>6, <2>2, <2>5
    DEF LiveEvent, Lose, TypeOK, FolderKept, KeptInPass, Recorded
  <2>6. CASE up \/ f # g
    <3>1. work'[f] = work[f]
      BY <1>6, <2>6 DEF LiveEvent, Lose, TypeOK
    <3> QED
      BY <2>1, <2>2, <2>3, <2>4, <3>1, NothingTouched
  <2> QED
    BY <2>5, <2>6
<1>7. ASSUME NEW g \in Folders, WorkerStep(g) \/ PassRaises(g)
      PROVE  WorkKept'
  <2> DEFINE t == <<"pass", g>>
  <2> SUFFICES ASSUME NEW f \in observed PROVE FolderKept(f)'
    BY <1>7
    DEF WorkerStep, PassBegins, PassCompletes, PassMeetsOutage,
        PassFindsFolderGone, Look, Finally, PassRaises, WorkKept
  <2>1. f \in Folders /\ FolderKept(f)
    BY DEF TypeOK, WorkKept
  <2>2. at[t].pc = "idle" /\ UNCHANGED <<observed, catchUp>>
    BY <1>7
    DEF WorkerStep, PassBegins, PassCompletes, PassMeetsOutage,
        PassFindsFolderGone, Look, Finally, PassRaises, WorkerAt, Idle, recovery
  <2>3. \A u \in Threads \ {t} : at'[u] = at[u]
    BY <1>7, GotoOne
    DEF WorkerStep, PassBegins, PassCompletes, PassMeetsOutage,
        PassFindsFolderGone, Look, Finally, PassRaises, PC
  <2>4. Recorded(f) => Recorded(f)'
    BY <2>1, <2>2, <2>3, OtherCalls
  <2>5. \A u \in Threads : at[u].pc = "request" => at'[u] = at[u]
    BY <2>2, <2>3
  <2>6. CASE f # g
    <3>1. /\ f \in retry <=> f \in retry'
          /\ f \in again <=> f \in again'
          /\ f \in dropped <=> f \in dropped'
          /\ worker'[f] = worker[f]
          /\ work'[f] = work[f]
      BY <1>7, <2>1, <2>6
      DEF WorkerStep, PassBegins, PassCompletes, PassMeetsOutage, Lose, Moves,
          PassFindsFolderGone, Look, Finally, PassRaises, TypeOK
    <3> QED
      BY <2>1, <2>2, <2>4, <2>5, <3>1 DEF FolderKept, KeptInPass, Requested
  <2>7. CASE f = g
    <3>1. CASE PassBegins(f)
      <4>1. worker[f] = "begin" /\ f \in observed
        BY <3>1 DEF PassBegins, WorkerAt
      <4>2. worker'[f] = "pass"
        BY <2>1, <3>1, <4>1 DEF PassBegins, Moves, TypeOK
      <4>3. work'[f] # "lost"
        BY <2>1, <3>1, <4>1 DEF PassBegins, TypeOK
      <4> QED
        BY <4>2, <4>3 DEF FolderKept
    <3>2. CASE PassCompletes(f)
      <4>1. worker[f] = "pass" /\ worker'[f] = "look" /\ again' = again
        BY <2>1, <3>2 DEF PassCompletes, WorkerAt, Moves, TypeOK
      <4>2. /\ work'[f] # "passing" /\ (work'[f] = "lost" => work[f] = "lost")
            /\ dropped' = dropped
        BY <2>1, <3>2 DEF PassCompletes, TypeOK
      <4> QED
        BY <2>1, <2>2, <2>4, <2>5, <4>1, <4>2
        DEF FolderKept, KeptInPass, Requested
    <3>3. CASE PassMeetsOutage(f)
      <4>1. at'[<<"pass", f>>].pc = "record"
        BY <2>1, <3>3, GotoOne DEF PassMeetsOutage, PC
      <4>2. work'[f] = "lost"
        BY <2>1, <3>3 DEF PassMeetsOutage, Lose, TypeOK
      <4> QED
        BY <4>1, <4>2 DEF FolderKept, KeptInPass, Recorded
    <3>4. CASE PassFindsFolderGone(f)
      <4>1. work'[f] = "lost" /\ f \in dropped'
        BY <2>1, <3>4 DEF PassFindsFolderGone, Lose, TypeOK
      <4> QED
        BY <4>1 DEF FolderKept, KeptInPass
    <3>5. CASE Look(f)
      <4>1. /\ worker[f] = "look"
            /\ worker'[f] = IF f \in again THEN "begin" ELSE "finally"
            /\ UNCHANGED <<retry, work, dropped>>
        BY <2>1, <3>5 DEF Look, WorkerAt, TypeOK
      <4>2. Requested(f) => Requested(f)'
        BY <2>5, <4>1 DEF Requested
      <4> QED
        BY <2>1, <2>2, <2>4, <4>1, <4>2 DEF FolderKept, KeptInPass
    <3>6. CASE Finally(f)
      <4>1. /\ worker[f] = "finally" /\ worker'[f] = "none"
            /\ dropped' = dropped \union (again \intersect {f})
            /\ UNCHANGED <<retry, work>>
        BY <2>1, <3>6 DEF Finally, WorkerAt, TypeOK
      <4>2. KeptInPass(f) => KeptInPass(f)'
        BY <2>2, <2>4, <2>5, <4>1 DEF KeptInPass, Requested
      <4> QED
        BY <2>1, <4>1, <4>2 DEF FolderKept
    <3>7. CASE PassRaises(f)
      <4>1. work'[f] = "lost" /\ f \in retry' /\ worker'[f] = "look"
        BY <2>1, <3>7 DEF PassRaises, Lose, Moves, TypeOK
      <4> QED
        BY <4>1 DEF FolderKept
    <3> QED
      BY <1>7, <2>7, <3>1, <3>2, <3>3, <3>4, <3>5, <3>6, <3>7 DEF WorkerStep
  <2> QED
    BY <2>6, <2>7
<1>8. ASSUME NEW g \in Folders, PassCompares(g) PROVE WorkKept'
  <2> DEFINE t == <<"pass", g>>
  <2> SUFFICES ASSUME NEW f \in observed PROVE FolderKept(f)'
    BY <1>8 DEF PassCompares, WorkKept
  <2>1. f \in Folders /\ FolderKept(f)
    BY DEF TypeOK, WorkKept
  <2>2. at[t].pc = "idle" /\ \A u \in Threads \ {t} : at'[u] = at[u]
    BY <1>8, GotoOne DEF PassCompares, WorkerAt, Idle, PC
  <2>3. Recorded(f) => Recorded(f)'
    BY <2>1, <2>2, OtherCalls
  <2> QED
    BY <1>8, <2>1, <2>2, <2>3, NothingTouched
    DEF PassCompares, recovery, requests
<1>9. ASSUME Probe \/ Reconnect \/ Notified PROVE WorkKept'
  <2> SUFFICES ASSUME NEW f \in observed PROVE FolderKept(f)'
    BY <1>9 DEF Probe, Reconnect, Notified, ReadFolders, WorkKept
  <2>1. f \in Folders /\ FolderKept(f)
    BY DEF TypeOK, WorkKept
  <2>2. PICK t \in {Monitor, Listener} :
          at[t].pc = "idle" /\ \A u \in Threads \ {t} : at'[u] = at[u]
    <3>1. CASE Probe
      BY <3>1, GotoOne DEF Probe, Idle, PC
    <3>2. CASE Reconnect \/ Notified
      BY <3>2, CallsOne DEF Reconnect, Notified, ReadFolders, Idle, TypeOK, PC
    <3> QED
      BY <1>9, <3>1, <3>2
  <2>3. Recorded(f) => Recorded(f)'
    BY <2>1, <2>2, OtherCalls
  <2> QED
    BY <1>9, <2>1, <2>2, <2>3, NothingTouched
    DEF Probe, Reconnect, Notified, ReadFolders, recovery, requests
<1>10. ASSUME RunDueRetry \/ CheckRoots PROVE WorkKept'
  <2> SUFFICES ASSUME NEW f \in observed PROVE FolderKept(f)'
    BY <1>10 DEF RunDueRetry, CheckRoots, WorkKept
  <2>1. f \in Folders /\ FolderKept(f)
    BY DEF TypeOK, WorkKept
  <2>2. PICK g \in Folders : Request({g}) /\ retry' \in {retry, retry \ {g}}
    BY <1>10 DEF RunDueRetry, CheckRoots, TypeOK
  <2>3. UNCHANGED <<at, catchUp, work, dropped>>
    BY <1>10 DEF RunDueRetry, CheckRoots, recovery
  <2>4. Recorded(f) => Recorded(f)'
    BY <2>3 DEF Recorded
  <2> QED
    BY <2>1, <2>2, <2>3, <2>4, RequestKeeps
<1>11. ASSUME DatabaseGoes \/ DatabaseReturns \/ ChangeFolder \/ UNCHANGED vars
       PROVE  WorkKept'
  <2>1. UNCHANGED <<observed, catchUp, retry, again, worker, at, work, dropped>>
    BY <1>11
    DEF DatabaseGoes, DatabaseReturns, ChangeFolder, vars, recovery, requests
  <2> QED
    BY <2>1 DEF WorkKept, FolderKept, KeptInPass, Recorded, Requested
<1> QED
  BY <1>1, <1>2, <1>3, <1>4, <1>5, <1>6, <1>7, <1>8, <1>9, <1>10, <1>11
  DEF Next, CallStep

(* Whatever an outage or an exception made the watcher miss stays known to
   somebody until a pass compares the folder again, however the observers'
   threads, the workers, the monitor and the listener interleave.          *)
THEOREM LostWorkIsKept == Spec => []WorkIsKept
<1> DEFINE IInv == TypeOK /\ CallersOK /\ WorkKept
<1>1. Init => IInv
  <2>1. Init => WorkKept
    BY DEF Init, WorkKept, FolderKept, KeptInPass, Requested
  <2> QED
    BY <2>1, InitType
<1>2. IInv /\ [Next]_vars => IInv'
  BY StepType, StepKept
<1>3. IInv => WorkIsKept
  BY DEF WorkKept, FolderKept, KeptInPass, WorkIsKept, Awaited
<1> QED
  BY <1>1, <1>2, <1>3, PTL DEF Spec
=============================================================================
