-------------------------- MODULE FolderReconcile --------------------------
(***************************************************************************)
(* The threads of the folder watcher, watcher/main.py: which folders are   *)
(* observed, when a folder's reconciliation pass runs, and what makes up   *)
(* for the work an unreachable database lost.                              *)
(*                                                                         *)
(* Per folder, the observer's thread handles live events and at most one   *)
(* worker thread runs passes; the monitor probes the database and retries  *)
(* passes that ended early; the listener brings the observers up to date   *)
(* with the table of folders.  A section under a lock, a transaction and an*)
(* unlocked read are a step each.  What a pass does to the index is        *)
(* WatchedFolder's subject.                                                *)
(*                                                                         *)
(* Nothing recurs that would make up for a loss by chance: the discovery   *)
(* loop and the periodic pass are left out, as with WATCH_ROOT unset and   *)
(* WATCH_RESCAN_INTERVAL_SECS=0.                                           *)
(***************************************************************************)
EXTENDS Naturals, FiniteSets

CONSTANTS
  Folders,    (* the folders of watched_folders                            *)
  NoFolder,   (* in the name of a thread that is not one folder's          *)
  MaxTroubles (* bound: outages, passes that raise, and folders enabled or
                 disabled                                                  *)

ASSUME ReconcileAssumption ==
  /\ NoFolder \notin Folders
  /\ MaxTroubles \in Nat

Live == {"live"} \X Folders     (* a folder's observer                     *)
Passing == {"pass"} \X Folders  (* a folder's reconcile worker             *)
Monitor == <<"monitor", NoFolder>>
Listener == <<"listener", NoFolder>>

Threads == Live \union Passing \union {Monitor, Listener}

VARIABLES
  enabled,     (* the folders that are enabled in the database             *)
  up,          (* whether the database can be reached                      *)
  observed,    (* the keys of _observers                                   *)
  outage,      (* _db_streak has failures                                  *)
  catchUp,     (* _catch_up                                                *)
  retry,       (* the keys of _retry_at                                    *)
  reconciling, (* _reconciling                                             *)
  again,       (* _reconcile_again                                         *)
  worker,      (* per folder: where its reconcile worker is                *)
  at,          (* per thread: the call it is in the middle of              *)
  listener,    (* the listener's connection                                *)
  notified,    (* a NOTIFY waits to be read from it                        *)
  work,        (* what the index lacks: see Work                           *)
  dropped,     (* folders whose request or pass was given up for good      *)
  troubles     (* outages, exceptions and changes so far                   *)

database == <<enabled, up>>
requests == <<reconciling, again, worker>>
recovery == <<outage, catchUp>>
listening == <<listener, notified>>
vars == <<database, observed, recovery, retry, requests, at, listening,
          work, dropped, troubles>>

-----------------------------------------------------------------------------
WorkerPC == {"none", "begin", "pass", "look", "finally"}

(* record: _note_db_failure; need: _need_catch_up; ok, request: the steps of
   _note_db_ok; apply: _sync_observers, once it has read the table.        *)
PC == {"idle", "record", "need", "ok", "request", "apply"}

Call == [pc: PC, folders: SUBSET Folders]

NoCall == [pc |-> "idle", folders |-> {}]

(* lost: the disk was not compared with the index since something was missed;
   passing: a pass that began since is comparing it.                       *)
Work == {"none", "lost", "passing"}

Init ==
  /\ enabled \in SUBSET Folders
  /\ up = TRUE
  /\ observed = enabled
  /\ outage = FALSE
  /\ catchUp = {}
  /\ retry = {}
  /\ reconciling = enabled
  /\ again = {}
  /\ worker = [f \in Folders |-> IF f \in enabled THEN "begin" ELSE "none"]
  /\ at = [t \in Threads |-> NoCall]
  /\ listener = "up"
  /\ notified = FALSE
  /\ work = [f \in Folders |-> IF f \in enabled THEN "lost" ELSE "none"]
  /\ dropped = {}
  /\ troubles = 0

Idle(t) == at[t].pc = "idle"

Calls(t, pc, folders) == at' = [at EXCEPT ![t] = [pc |-> pc, folders |-> folders]]

Goto(t, pc) == Calls(t, pc, {})

Return(t) == Goto(t, "idle")

(* Mutant of Request: one that comes while a pass runs is left to that pass. *)
RequestOnce(folders) ==
  /\ reconciling' = reconciling \union folders
  /\ again' = again
  /\ worker' = [f \in Folders |-> IF f \in folders \ reconciling
                                    THEN "begin" ELSE worker[f]]

(* _request_reconcile, of each of these folders.                           *)
Request(folders) ==
  /\ reconciling' = reconciling \union folders
  /\ again' = again \union (folders \intersect reconciling)
  /\ worker' = [f \in Folders |-> IF f \in folders \ reconciling
                                    THEN "begin" ELSE worker[f]]

Trouble == troubles < MaxTroubles /\ troubles' = troubles + 1

Lose(f) == work' = [work EXCEPT ![f] = "lost"]

-----------------------------------------------------------------------------
(* Outages and recoveries, from whichever thread meets them.               *)

NoteFailure(t) ==
  /\ at[t].pc = "record"
  /\ outage' = TRUE
  /\ IF t = Monitor THEN Return(t) ELSE Goto(t, "need")
  /\ UNCHANGED <<database, observed, catchUp, retry, requests, listening,
                 work, dropped, troubles>>

(* Mutant of RecordsCatchUp: it does not ask whether the outage is over.   *)
AlwaysRecords(f) ==
  /\ catchUp' = catchUp \union {f}
  /\ UNCHANGED requests

(* In one locked section: a success on another thread may have ended the
   outage since, and then no reset comes for this folder.                  *)
RecordsCatchUp(f) ==
  IF outage THEN catchUp' = catchUp \union {f} /\ UNCHANGED requests
  ELSE UNCHANGED catchUp /\ Request({f})

(* A pass that ended early also schedules its retry.                       *)
NeedCatchUp(t) ==
  /\ at[t].pc = "need"
  /\ RecordsCatchUp(t[2])
  /\ retry' = IF t \in Passing THEN retry \union {t[2]} ELSE retry
  /\ Return(t)
  /\ UNCHANGED <<database, observed, outage, listening, work, dropped,
                 troubles>>

(* _note_db_ok takes the folders that lost work together with the reset.  Its
   look at the streak before it takes the lock changes nothing: with no failure
   recorded there is nothing to reset and nobody to take.                  *)
NoteOk(t) ==
  /\ at[t].pc = "ok"
  /\ outage' = FALSE
  /\ catchUp' = {}
  /\ IF catchUp = {} THEN Return(t) ELSE Calls(t, "request", catchUp)
  /\ UNCHANGED <<database, observed, retry, requests, listening, work,
                 dropped, troubles>>

(* It then requests a pass of each, which stands for its retry.            *)
RequestNext(t) ==
  /\ at[t].pc = "request"
  /\ \E f \in at[t].folders :
       /\ retry' = retry \ {f}
       /\ Request({f})
       /\ IF at[t].folders = {f} THEN Return(t)
          ELSE Calls(t, "request", at[t].folders \ {f})
  /\ UNCHANGED <<database, observed, recovery, listening, work, dropped,
                 troubles>>

-----------------------------------------------------------------------------
(* A live event: one transaction.                                          *)
LiveEvent(f) ==
  LET t == <<"live", f>>
  IN  /\ f \in observed
      /\ Idle(t)
      /\ IF up THEN Goto(t, "ok") /\ UNCHANGED work
         ELSE Goto(t, "record") /\ Lose(f)
      /\ UNCHANGED <<database, observed, recovery, retry, requests,
                     listening, dropped, troubles>>

-----------------------------------------------------------------------------
(* A folder's reconcile worker.                                            *)

WorkerAt(f, pc) == worker[f] = pc /\ Idle(<<"pass", f>>)

Moves(f, pc) ==
  /\ worker' = [worker EXCEPT ![f] = pc]
  /\ UNCHANGED <<reconciling, again>>

PassBegins(f) ==
  /\ WorkerAt(f, "begin")
  /\ IF f \in observed
       THEN /\ Moves(f, "pass")
            /\ work' = [work EXCEPT ![f] = IF @ = "lost" THEN "passing" ELSE @]
            /\ dropped' = dropped \ {f}
       ELSE Moves(f, "look") /\ UNCHANGED <<work, dropped>>
  /\ UNCHANGED <<database, observed, recovery, retry, at, listening,
                 troubles>>

(* A file's transaction, which tells the streak: of interest in an outage.  *)
PassCompares(f) ==
  /\ WorkerAt(f, "pass")
  /\ up /\ outage
  /\ Goto(<<"pass", f>>, "ok")
  /\ UNCHANGED <<database, observed, recovery, retry, requests, listening,
                 work, dropped, troubles>>

PassCompletes(f) ==
  /\ WorkerAt(f, "pass")
  /\ up
  /\ Moves(f, "look")
  /\ retry' = retry \ {f}
  /\ work' = [work EXCEPT ![f] = IF @ = "passing" THEN "none" ELSE @]
  /\ UNCHANGED <<database, observed, recovery, at, listening, dropped,
                 troubles>>

PassMeetsOutage(f) ==
  /\ WorkerAt(f, "pass")
  /\ ~up
  /\ Moves(f, "look")
  /\ Goto(<<"pass", f>>, "record")
  /\ Lose(f)
  /\ UNCHANGED <<database, observed, recovery, retry, listening, dropped,
                 troubles>>

PassRaises(f) ==
  /\ Trouble
  /\ WorkerAt(f, "pass")
  /\ Moves(f, "look")
  /\ retry' = retry \union {f}
  /\ Lose(f)
  /\ UNCHANGED <<database, observed, recovery, at, listening, dropped>>

(* The folder is disabled.  If it is enabled again before the observers are
   brought up to date, nothing asks for another pass.                      *)
PassFindsFolderGone(f) ==
  /\ WorkerAt(f, "pass")
  /\ up
  /\ f \notin enabled
  /\ Moves(f, "look")
  /\ dropped' = dropped \union {f}
  /\ Lose(f)
  /\ UNCHANGED <<database, observed, recovery, retry, at, listening,
                 troubles>>

(* The last look for a request that came during the pass ...               *)
Look(f) ==
  /\ WorkerAt(f, "look")
  /\ again' = again \ {f}
  /\ worker' = [worker EXCEPT ![f] = IF f \in again THEN "begin"
                                     ELSE "finally"]
  /\ UNCHANGED <<database, observed, recovery, retry, reconciling, at,
                 listening, work, dropped, troubles>>

(* Mutant of Finally: a request that came since is left where it was.      *)
FinallyKeeps(f) ==
  /\ WorkerAt(f, "finally")
  /\ reconciling' = reconciling \ {f}
  /\ worker' = [worker EXCEPT ![f] = "none"]
  /\ UNCHANGED <<database, observed, recovery, retry, again, at, listening,
                 work, dropped, troubles>>

(* ... and the worker's finally, which discards one that came since.       *)
Finally(f) ==
  /\ WorkerAt(f, "finally")
  /\ reconciling' = reconciling \ {f}
  /\ again' = again \ {f}
  /\ worker' = [worker EXCEPT ![f] = "none"]
  /\ dropped' = dropped \union (again \intersect {f})
  /\ UNCHANGED <<database, observed, recovery, retry, at, listening, work,
                 troubles>>

WorkerStep(f) ==
  PassBegins(f) \/ PassCompletes(f) \/ PassMeetsOutage(f)
  \/ PassFindsFolderGone(f) \/ Look(f) \/ Finally(f)

-----------------------------------------------------------------------------
(* The monitor.                                                            *)

(* Mutant of Probe: a success of the probe is not told to the streak.      *)
ProbeUnheard ==
  /\ Idle(Monitor)
  /\ catchUp # {}
  /\ IF up THEN UNCHANGED at ELSE Goto(Monitor, "record")
  /\ UNCHANGED <<database, observed, recovery, retry, requests, listening,
                 work, dropped, troubles>>

Probe ==
  /\ Idle(Monitor)
  /\ catchUp # {}
  /\ Goto(Monitor, IF up THEN "ok" ELSE "record")
  /\ UNCHANGED <<database, observed, recovery, retry, requests, listening,
                 work, dropped, troubles>>

RunDueRetry ==
  /\ Idle(Monitor)
  /\ \E f \in retry :
       /\ retry' = retry \ {f}
       /\ Request({f})
  /\ UNCHANGED <<database, observed, recovery, at, listening, work, dropped,
                 troubles>>

(* A root that came back or whose observer was attached again is compared.  *)
CheckRoots ==
  /\ Idle(Monitor)
  /\ \E f \in observed : Request({f})
  /\ UNCHANGED <<database, observed, recovery, retry, at, listening, work,
                 dropped, troubles>>

-----------------------------------------------------------------------------
(* The observers follow the table.                                         *)

(* What wakes the thread and its read of the table are one step: a change
   between the two is notified as well.                                    *)
ReadFolders ==
  /\ up
  /\ Idle(Listener)
  /\ Calls(Listener, "apply", enabled)
  /\ UNCHANGED <<database, observed, recovery, retry, requests, work,
                 dropped, troubles>>

(* Mutant of Reconnect: the observers are left as they are.                *)
ReconnectOnly ==
  /\ listener = "down"
  /\ up
  /\ Idle(Listener)
  /\ listener' = "up"
  /\ UNCHANGED <<database, observed, recovery, retry, requests, at, notified,
                 work, dropped, troubles>>

(* LISTEN is in place again.                                               *)
Reconnect ==
  /\ listener = "down"
  /\ ReadFolders
  /\ listener' = "up"
  /\ UNCHANGED notified

Notified ==
  /\ listener = "up"
  /\ notified
  /\ ReadFolders
  /\ notified' = FALSE
  /\ UNCHANGED listener

SyncObservers(t) ==
  /\ at[t].pc = "apply"
  /\ LET wanted == at[t].folders
         started == wanted \ observed
         stopped == observed \ wanted
     IN  /\ observed' = wanted
         /\ catchUp' = catchUp \ stopped
         /\ retry' = retry \ stopped
         /\ work' = [f \in Folders |-> CASE f \in started -> "lost"
                                         [] f \in stopped -> "none"
                                         [] OTHER -> work[f]]
         /\ dropped' = dropped \ (started \union stopped)
         /\ Request(started)
  /\ Goto(t, "ok")
  /\ UNCHANGED <<database, outage, listening, troubles>>

-----------------------------------------------------------------------------
(* The database and its clients.                                           *)

(* The listener's connection is lost with it, and its NOTIFYs.             *)
DatabaseGoes ==
  /\ Trouble
  /\ up
  /\ up' = FALSE
  /\ listener' = "down"
  /\ notified' = FALSE
  /\ UNCHANGED <<enabled, observed, recovery, retry, requests, at, work,
                 dropped>>

DatabaseReturns ==
  /\ ~up
  /\ up' = TRUE
  /\ UNCHANGED <<enabled, observed, recovery, retry, requests, at, listening,
                 work, dropped, troubles>>

(* A NOTIFY reaches whoever listens when it is committed.                  *)
ChangeFolder ==
  /\ Trouble
  /\ up
  /\ \E f \in Folders :
       enabled' = IF f \in enabled THEN enabled \ {f} ELSE enabled \union {f}
  /\ notified' = (listener = "up")
  /\ UNCHANGED <<up, observed, recovery, retry, requests, at, listener, work,
                 dropped>>

-----------------------------------------------------------------------------
CallStep(t) ==
  NoteFailure(t) \/ NeedCatchUp(t) \/ NoteOk(t) \/ RequestNext(t)
  \/ SyncObservers(t)

Next ==
  \/ \E t \in Threads : CallStep(t)
  \/ \E f \in Folders :
       LiveEvent(f) \/ WorkerStep(f) \/ PassCompares(f) \/ PassRaises(f)
  \/ Probe \/ RunDueRetry \/ CheckRoots
  \/ Reconnect \/ Notified
  \/ DatabaseGoes \/ DatabaseReturns \/ ChangeFolder

Spec == Init /\ [][Next]_vars

(* Every thread runs, the monitor comes round, and an outage ends.  Nothing
   says that files change or that roots come and go.                       *)
Fairness ==
  /\ \A f \in Folders :
       /\ WF_vars(CallStep(<<"live", f>>))
       /\ WF_vars(CallStep(<<"pass", f>>) \/ WorkerStep(f))
  /\ WF_vars(CallStep(Monitor) \/ Probe)
  /\ WF_vars(RunDueRetry)
  /\ WF_vars(CallStep(Listener) \/ Reconnect \/ Notified)
  /\ WF_vars(DatabaseReturns)

FairSpec == Spec /\ Fairness

-----------------------------------------------------------------------------
TypeOK ==
  /\ enabled \subseteq Folders
  /\ up \in BOOLEAN
  /\ observed \subseteq Folders
  /\ outage \in BOOLEAN
  /\ catchUp \subseteq Folders
  /\ retry \subseteq Folders
  /\ reconciling \subseteq Folders
  /\ again \subseteq reconciling
  /\ worker \in [Folders -> WorkerPC]
  /\ \A f \in Folders : worker[f] # "none" <=> f \in reconciling
  /\ at \in [Threads -> Call]
  /\ listener \in {"down", "up"}
  /\ notified \in BOOLEAN
  /\ work \in [Folders -> Work]
  /\ dropped \subseteq Folders
  /\ troubles \in 0..MaxTroubles

(* _catch_up is non-empty only while a failure is recorded: a folder put there
   after the reset that ends the outage would wait for another outage.     *)
CatchUpOnlyInOutage == catchUp # {} => outage

(* Work an outage or an exception lost is never forgotten: somebody is about to
   record it, it waits for the recovery or for its retry, or a pass that will
   compare the folder is requested or running.  dropped are the exceptions: a
   request discarded by the worker's finally, and a pass that ended because its
   folder was disabled for a moment.                                       *)
Recorded(f) ==
  \/ at[<<"live", f>>].pc \in {"record", "need"}
  \/ at[<<"pass", f>>].pc \in {"record", "need"}

Awaited(f) == f \in catchUp \union retry

Requested(f) ==
  \/ \E t \in Threads : at[t].pc = "request" /\ f \in at[t].folders
  \/ f \in again
  \/ worker[f] = "begin"

WorkIsKept ==
  \A f \in observed :
    /\ work[f] = "lost" => \/ Recorded(f) \/ Awaited(f) \/ Requested(f)
                           \/ f \in dropped
    /\ work[f] = "passing" => worker[f] = "pass"

(* Whatever outages lost is compared once the database is back, although no
   periodic pass ever runs and no file changes again.  Issue 892.          *)
CaughtUp ==
  <>[](\A f \in observed : work[f] = "none" \/ f \in dropped)

(* The folders observed come to be those enabled, although the NOTIFYs sent
   while the listener is not connected are lost.                           *)
ObserversFollowFolders == <>[](observed = enabled)
=============================================================================
