------------------------------ MODULE JobLease ------------------------------
(***************************************************************************)
(* What the row of a job promises, without its columns, reads and commits: *)
(* a lease that names one claim for ever, and an outcome that nobody       *)
(* reports who did not find the lease to be its own first.  ClaimedJob     *)
(* implements it.                                                          *)
(*                                                                         *)
(* The look and the report are two steps: what supersedes the lease between*)
(* the two is overwritten.  That is all a row promises which is read and   *)
(* later written by primary key.                                           *)
(***************************************************************************)
EXTENDS Naturals

CONSTANT Workers

VARIABLES
  status,  (* of the job                                                   *)
  lease,   (* the claim it is held under; 0 is none                        *)
  issued,  (* the leases given out so far are 1..issued                    *)
  held,    (* per worker: the lease it works under; 0 is none              *)
  decided  (* per worker: it found the lease its own, and will report      *)

vars == <<status, lease, issued, held, decided>>

Statuses == {"absent", "queued", "running", "done", "error"}

Init ==
  /\ status = "queued"
  /\ lease = 0
  /\ issued = 0
  /\ held = [w \in Workers |-> 0]
  /\ decided = [w \in Workers |-> FALSE]

(* The only way to become running: a queued job, a lease never given out.  *)
Take(w) ==
  /\ status = "queued"
  /\ held[w] = 0
  /\ status' = "running"
  /\ issued' = issued + 1
  /\ lease' = issued + 1
  /\ held' = [held EXCEPT ![w] = issued + 1]
  /\ UNCHANGED decided

Current(w) == held[w] # 0 /\ held[w] = lease

Decide(w) ==
  /\ Current(w)
  /\ decided' = [decided EXCEPT ![w] = TRUE]
  /\ UNCHANGED <<status, lease, issued, held>>

(* The row the decision was made on is another's by now.                   *)
Retract(w) ==
  /\ decided[w]
  /\ decided' = [decided EXCEPT ![w] = FALSE]
  /\ UNCHANGED <<status, lease, issued, held>>

Stop(w) ==
  /\ held' = [held EXCEPT ![w] = 0]
  /\ decided' = [decided EXCEPT ![w] = FALSE]
  /\ UNCHANGED issued

(* done is reported here and nowhere else.  What the row already said when the
   worker looked is not written again.                                     *)
Report(w) ==
  /\ decided[w]
  /\ status # "absent"
  /\ status' \in {status, "done", "error", "queued"}
  /\ lease' \in {0, lease}
  /\ Stop(w)

(* A look and a report in one step, under the row's lock.                  *)
GiveBack(w) ==
  /\ Current(w)
  /\ status' \in {"queued", "error"}
  /\ lease' \in {0, lease}
  /\ Stop(w)

Abandon(w) == Stop(w) /\ UNCHANGED <<status, lease>>

(* A re-enqueue or the reaper takes the lease back from whoever has it.     *)
Requeue ==
  /\ status' \in {status, "queued"}
  /\ lease' \in {0, lease}
  /\ UNCHANGED <<issued, held, decided>>

Cancel ==
  /\ status # "absent"
  /\ status' = "error"
  /\ UNCHANGED <<lease, issued, held, decided>>

Remove ==
  /\ status' = "absent"
  /\ lease' = 0
  /\ UNCHANGED <<issued, held, decided>>

Next ==
  \/ \E w \in Workers :
       \/ Take(w) \/ Decide(w) \/ Retract(w)
       \/ Report(w) \/ GiveBack(w) \/ Abandon(w)
  \/ Requeue \/ Cancel \/ Remove

Spec == Init /\ [][Next]_vars
=============================================================================
