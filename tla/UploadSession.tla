--------------------------- MODULE UploadSession ---------------------------
(***************************************************************************)
(* An upload session: requests that upload files to it, confirm them, all  *)
(* or some, and cancel it, and the API's reaper that cancels and sweeps it *)
(* (api/routes/uploads.py, api/app.py).                                    *)
(*                                                                         *)
(* Rows change when a request commits; the object store changes at once and*)
(* is not rolled back.  A request that raises leaves its objects moved and *)
(* its rows as they were.                                                  *)
(*                                                                         *)
(* UPDATEs of one row take effect in the order of the commits; that the    *)
(* second waits for the first is left out.                                 *)
(***************************************************************************)
EXTENDS Naturals, FiniteSets

CONSTANTS
  Requests,    (* the requests that can be under way at once               *)
  Files,       (* contents of uploaded files                               *)
  NoFile,
  MaxUploads,  (* uploads                                                  *)
  MaxDocs,     (* documents and original objects                           *)
  MaxRequests, (* requests in all                                          *)
  MaxFaults    (* requests and reaper passes that fail, removals refused   *)

ASSUME UploadAssumption ==
  /\ NoFile \notin Files
  /\ MaxUploads \in Nat /\ MaxDocs \in Nat
  /\ MaxRequests \in Nat /\ MaxFaults \in Nat

VARIABLES
  sess,       (* the upload_sessions row                                   *)
  upload,     (* the uploads rows                                          *)
  docs,       (* per document: the content its row names, NoFile: no row   *)
  staged,     (* the uploads with an object under tmp/                     *)
  originals,  (* the documents with an object under originals/             *)
  call,       (* per request: how far it is, what it read                  *)
  reaper,     (* its pass                                                  *)
  requests, faults

rows == <<sess, upload, docs>>
objects == <<staged, originals>>
vars == <<rows, objects, call, reaper, requests, faults>>

UploadIds == 1..MaxUploads
DocIds == 1..MaxDocs

(* stale: created 24 hours ago; quiet: updated_at is an hour ago.          *)
Session == [status: {"active", "completed", "cancelled"}, auto: BOOLEAN,
            uploaded: Nat, confirmed: Nat, stale: BOOLEAN, quiet: BOOLEAN]

(* key: minio_object_key; mine: session_id is this session's.              *)
Row == [status: {"none", "pending", "processing", "duplicate", "cancelled"},
        file: Files \union {NoFile}, key: {"", "tmp", "original"},
        mine: BOOLEAN, doc: 0..MaxDocs]

NoRow == [status |-> "none", file |-> NoFile, key |-> "", mine |-> FALSE, doc |-> 0]

(* made: which upload the call moved to which document's original.         *)
Call == [pc: {"idle", "receive", "insert", "confirm", "remove", "cancel", "cancelled"},
         mine: BOOLEAN, file: Files \union {NoFile}, upload: 0..MaxUploads,
         doc: 0..MaxDocs, dup: BOOLEAN, todo: SUBSET UploadIds,
         made: SUBSET (UploadIds \X DocIds)]

NoCall == [pc |-> "idle", mine |-> FALSE, file |-> NoFile, upload |-> 0,
           doc |-> 0, dup |-> FALSE, todo |-> {}, made |-> {}]

Reaper == [pc: {"idle", "sweep", "commit"}, cancels: BOOLEAN, sweeps: SUBSET UploadIds]

NoReaper == [pc |-> "idle", cancels |-> FALSE, sweeps |-> {}]

(* create_session has committed.                                           *)
Init ==
  /\ \E auto \in BOOLEAN :
       sess = [status |-> "active", auto |-> auto, uploaded |-> 0,
               confirmed |-> 0, stale |-> FALSE, quiet |-> FALSE]
  /\ upload = [u \in UploadIds |-> NoRow]
  /\ docs = [d \in DocIds |-> NoFile]
  /\ staged = {}
  /\ originals = {}
  /\ call = [r \in Requests |-> NoCall]
  /\ reaper = NoReaper
  /\ requests = 0
  /\ faults = 0

Comes(r, c) ==
  /\ call[r].pc = "idle"
  /\ requests < MaxRequests
  /\ requests' = requests + 1
  /\ call' = [call EXCEPT ![r] = c]

Ends(r) == call' = [call EXCEPT ![r] = NoCall]

Fault == faults < MaxFaults /\ faults' = faults + 1

(* uuid4: ids that no row, object or request has, taken in order.           *)
FreshUploads ==
  {u \in UploadIds \ staged :
     upload[u].status = "none" /\ \A r \in Requests : call[r].upload # u}

FreshDocs == {d \in DocIds \ originals : docs[d] = NoFile}

IsFirst(n, S) == n \in S /\ \A k \in S : n <= k

-----------------------------------------------------------------------------
(* Uploading *)

(* The session is looked at before the body is read.                       *)
BeginUpload(r, f, mine) ==
  \E u \in UploadIds :
    /\ IsFirst(u, FreshUploads)
    /\ mine => sess.status = "active"
    /\ Comes(r, [NoCall EXCEPT !.pc = "receive", !.mine = mine, !.file = f,
                               !.upload = u])
    /\ UNCHANGED <<rows, objects, reaper, faults>>

SameContent(f) == {d \in DocIds : docs[d] = f}

FindsDuplicate(r) ==
  /\ call[r].pc = "receive"
  /\ \E d \in SameContent(call[r].file) :
       /\ SameContent(call[r].file) = {d}
       /\ call' = [call EXCEPT ![r].pc = "insert", ![r].dup = TRUE, ![r].doc = d]
  /\ UNCHANGED <<rows, objects, reaper, requests, faults>>

(* scalar_one_or_none raises when several documents have the content.      *)
FindsSeveral(r) ==
  /\ call[r].pc = "receive"
  /\ Cardinality(SameContent(call[r].file)) > 1
  /\ Ends(r)
  /\ UNCHANGED <<rows, objects, reaper, requests, faults>>

AutoConfirms(r) == call[r].mine /\ sess.auto

Stores(r) ==
  /\ call[r].pc = "receive"
  /\ SameContent(call[r].file) = {}
  /\ IF AutoConfirms(r)
     THEN \E d \in DocIds :
            /\ IsFirst(d, FreshDocs)
            /\ originals' = originals \union {d}
            /\ call' = [call EXCEPT ![r].pc = "insert", ![r].doc = d]
            /\ UNCHANGED staged
     ELSE /\ staged' = staged \union {call[r].upload}
          /\ call' = [call EXCEPT ![r].pc = "insert"]
          /\ UNCHANGED originals
  /\ UNCHANGED <<rows, reaper, requests, faults>>

(* Mutant: a duplicate is recorded with the status its response could have. *)
RecordedAsSkipped(r) ==
  [status |-> IF call[r].dup THEN "skipped" ELSE "pending", file |-> call[r].file,
   key |-> IF call[r].dup THEN "" ELSE "tmp", mine |-> call[r].mine, doc |-> 0]

Uploaded(r) ==
  LET c == call[r]
  IN
  [status |-> CASE c.dup -> "duplicate"
                [] ~c.dup /\ AutoConfirms(r) -> "processing"
                [] OTHER -> "pending",
   file |-> c.file,
   key |-> CASE c.dup -> ""
             [] ~c.dup /\ AutoConfirms(r) -> "original"
             [] OTHER -> "tmp",
   mine |-> c.mine, doc |-> c.doc]

(* Mutant: a duplicate is not counted.                                     *)
CountedNew(r) ==
  IF call[r].dup THEN sess.uploaded ELSE sess.uploaded + 1

(* _increment_session_counters adds in the UPDATE itself.                  *)
Counted(r) == sess.uploaded + 1

Inserts(r) ==
  LET c == call[r]
      confirms == AutoConfirms(r) /\ ~c.dup
  IN
  /\ c.pc = "insert"
  /\ upload' = [upload EXCEPT ![c.upload] = Uploaded(r)]
  /\ docs' = IF confirms THEN [docs EXCEPT ![c.doc] = c.file] ELSE docs
  /\ sess' = IF c.mine
             THEN [sess EXCEPT !.uploaded = Counted(r), !.quiet = FALSE,
                               !.confirmed = IF confirms THEN @ + 1 ELSE @]
             ELSE sess
  /\ Ends(r)
  /\ UNCHANGED <<objects, reaper, requests, faults>>

-----------------------------------------------------------------------------
(* Confirming *)

PendingUploads == {u \in UploadIds : upload[u].status = "pending" /\ upload[u].mine}

(* confirm_session: its status is not looked at.                           *)
BeginConfirm(r) ==
  /\ ~sess.auto
  /\ PendingUploads # {}
  /\ Comes(r, [NoCall EXCEPT !.pc = "confirm", !.mine = TRUE, !.todo = PendingUploads])
  /\ UNCHANGED <<rows, objects, reaper, faults>>

(* confirm_upload and confirm_upload_batch, of any uploads                 *)
BeginItems(r) ==
  /\ \E items \in (SUBSET {u \in UploadIds : upload[u].status # "none"}) \ {{}} :
       Comes(r, [NoCall EXCEPT !.pc = "confirm", !.todo = items])
  /\ UNCHANGED <<rows, objects, reaper, faults>>

(* confirm_session reads each upload again but keeps the objects it loaded, as
   SQLAlchemy's identity map has it; the others read it for the first time. *)
ReadsPending(r, u) == call[r].mine \/ upload[u].status = "pending"

(* A new document, or a new version of one that is there.  A request that names
   one document for two uploads is left out.                               *)
Target(r, d) ==
  \/ IsFirst(d, FreshDocs)
  \/ ~call[r].mine /\ docs[d] # NoFile /\ \A m \in call[r].made : m[2] # d

(* copy_and_delete copies ...                                              *)
Copies(r, u) ==
  /\ call[r].pc = "confirm"
  /\ u \in call[r].todo
  /\ ReadsPending(r, u)
  /\ u \in staged
  /\ \E d \in DocIds :
       /\ Target(r, d)
       /\ originals' = originals \union {d}
       /\ call' = [call EXCEPT ![r].pc = "remove", ![r].todo = @ \ {u},
                               ![r].made = @ \union {<<u, d>>}]
  /\ UNCHANGED <<rows, staged, reaper, requests, faults>>

(* ... and then deletes, which does not mind that the object is gone.      *)
Deletes(r) ==
  /\ call[r].pc = "remove"
  /\ staged' = staged \ {m[1] : m \in call[r].made}
  /\ call' = [call EXCEPT ![r].pc = "confirm"]
  /\ UNCHANGED <<rows, originals, reaper, requests, faults>>

(* The request is a 500, whatever it moved before.                         *)
CopyFails(r, u) ==
  /\ call[r].pc = "confirm"
  /\ u \in call[r].todo
  /\ ReadsPending(r, u)
  /\ u \notin staged
  /\ Ends(r)
  /\ UNCHANGED <<rows, objects, reaper, requests, faults>>

(* An HTTPException: an error of the item, not of the request              *)
Skips(r, u) ==
  /\ call[r].pc = "confirm"
  /\ u \in call[r].todo
  /\ ~ReadsPending(r, u)
  /\ call' = [call EXCEPT ![r].todo = @ \ {u}]
  /\ UNCHANGED <<rows, objects, reaper, requests, faults>>

Confirms(r) ==
  LET made == call[r].made
      moved == {m[1] : m \in made}
      docOf(u) == CHOOSE d \in DocIds : <<u, d>> \in made
  IN
  /\ call[r].pc = "confirm"
  /\ call[r].todo = {}
  /\ upload' = [u \in UploadIds |->
       IF u \in moved THEN [upload[u] EXCEPT !.status = "processing", !.doc = docOf(u)]
                      ELSE upload[u]]
  /\ docs' = [d \in DocIds |->
       IF \E m \in made : m[2] = d
       THEN upload[CHOOSE u \in UploadIds : <<u, d>> \in made].file
       ELSE docs[d]]
  /\ sess' = IF call[r].mine
             THEN [sess EXCEPT !.status = "completed", !.quiet = FALSE,
                               !.confirmed = @ + Cardinality(made)]
             ELSE sess
  /\ Ends(r)
  /\ UNCHANGED <<objects, reaper, requests, faults>>

-----------------------------------------------------------------------------
(* Cancelling *)

BeginCancel(r) ==
  /\ sess.status = "active"
  /\ Comes(r, [NoCall EXCEPT !.pc = "cancel", !.todo = PendingUploads])
  /\ UNCHANGED <<rows, objects, reaper, faults>>

(* remove_object may fail, which is logged.                                *)
RemovesStaged(r) ==
  /\ call[r].pc = "cancel"
  /\ \/ staged' = staged \ call[r].todo /\ UNCHANGED faults
     \/ Fault /\ UNCHANGED staged
  /\ call' = [call EXCEPT ![r].pc = "cancelled"]
  /\ UNCHANGED <<rows, originals, reaper, requests>>

Cancels(r) ==
  /\ call[r].pc = "cancelled"
  /\ upload' = [u \in UploadIds |->
       IF u \in call[r].todo THEN [upload[u] EXCEPT !.status = "cancelled"] ELSE upload[u]]
  /\ sess' = [sess EXCEPT !.status = "cancelled", !.quiet = FALSE]
  /\ Ends(r)
  /\ UNCHANGED <<docs, objects, reaper, requests, faults>>

(* A request raises, or the API goes down under it.                        *)
Fails(r) ==
  /\ call[r].pc # "idle"
  /\ Fault
  /\ Ends(r)
  /\ UNCHANGED <<rows, objects, reaper, requests>>

-----------------------------------------------------------------------------
(* The reaper *)

(* Mutant: any object of the session, its originals too                    *)
AnyKey(u) == upload[u].mine /\ upload[u].key # ""

(* Mutant: only what was not confirmed ... of a cancelled session          *)
SweptIfCancelled(u) ==
  upload[u].mine /\ upload[u].key = "tmp" /\ sess.status = "cancelled"

Swept(u) == upload[u].mine /\ upload[u].key = "tmp"

ReaperLooks ==
  LET stale == sess.status = "active" /\ sess.stale
      sweeps == IF sess.status # "active" /\ sess.quiet
                THEN {u \in UploadIds : Swept(u)} ELSE {}
  IN
  /\ reaper.pc = "idle"
  /\ stale \/ sweeps # {}
  /\ reaper' = [pc |-> "sweep", cancels |-> stale, sweeps |-> sweeps]
  /\ UNCHANGED <<rows, objects, call, requests, faults>>

OriginalOf(u) == IF upload[u].key = "original" THEN {upload[u].doc} ELSE {}

(* An object that cannot be removed keeps its key and is tried again.       *)
ReaperSweeps ==
  /\ reaper.pc = "sweep"
  /\ \/ /\ staged' = staged \ reaper.sweeps
        /\ originals' = originals \ UNION {OriginalOf(u) : u \in reaper.sweeps}
        /\ reaper' = [reaper EXCEPT !.pc = "commit"]
        /\ UNCHANGED faults
     \/ /\ Fault
        /\ reaper' = [reaper EXCEPT !.pc = "commit", !.sweeps = {}]
        /\ UNCHANGED objects
  /\ UNCHANGED <<rows, call, requests>>

ReaperCommits ==
  /\ reaper.pc = "commit"
  /\ upload' = [u \in UploadIds |->
       IF u \in reaper.sweeps THEN [upload[u] EXCEPT !.key = ""] ELSE upload[u]]
  /\ sess' = IF reaper.cancels
             THEN [sess EXCEPT !.status = "cancelled", !.quiet = FALSE] ELSE sess
  /\ reaper' = NoReaper
  /\ UNCHANGED <<docs, objects, call, requests, faults>>

(* Whatever else the pass does in this transaction raises.                 *)
ReaperFails ==
  /\ reaper.pc # "idle"
  /\ Fault
  /\ reaper' = NoReaper
  /\ UNCHANGED <<rows, objects, call, requests>>

HourPasses ==
  /\ ~sess.quiet
  /\ sess' = [sess EXCEPT !.quiet = TRUE]
  /\ UNCHANGED <<upload, docs, objects, call, reaper, requests, faults>>

DayPasses ==
  /\ ~sess.stale
  /\ sess' = [sess EXCEPT !.stale = TRUE]
  /\ UNCHANGED <<upload, docs, objects, call, reaper, requests, faults>>

-----------------------------------------------------------------------------
Begin(r) ==
  \/ \E f \in Files, mine \in BOOLEAN : BeginUpload(r, f, mine)
  \/ BeginConfirm(r) \/ BeginItems(r) \/ BeginCancel(r)

Proceed(r) ==
  \/ FindsDuplicate(r) \/ FindsSeveral(r) \/ Stores(r) \/ Inserts(r)
  \/ Deletes(r) \/ Confirms(r)
  \/ \E u \in UploadIds : Copies(r, u) \/ CopyFails(r, u) \/ Skips(r, u)
  \/ RemovesStaged(r) \/ Cancels(r)

ReaperStep == ReaperLooks \/ ReaperSweeps \/ ReaperCommits

Next ==
  \/ \E r \in Requests : Begin(r) \/ Proceed(r) \/ Fails(r)
  \/ ReaperStep \/ ReaperFails
  \/ HourPasses \/ DayPasses

Spec == Init /\ [][Next]_vars

(* Requests are answered, the reaper runs every five minutes, time passes. *)
Fairness ==
  /\ \A r \in Requests : WF_vars(Proceed(r))
  /\ WF_vars(ReaperStep)
  /\ WF_vars(HourPasses)
  /\ WF_vars(DayPasses)

FairSpec == Spec /\ Fairness

-----------------------------------------------------------------------------
TypeOK ==
  /\ sess \in Session
  /\ upload \in [UploadIds -> Row]
  /\ docs \in [DocIds -> Files \union {NoFile}]
  /\ staged \subseteq UploadIds
  /\ originals \subseteq DocIds
  /\ call \in [Requests -> Call]
  /\ reaper \in Reaper
  /\ requests \in Nat
  /\ faults \in Nat

(* A document that was committed has its original in the store, whatever
   requests and reaper passes remove meanwhile and whichever of them fail
   between an object and its row.                                          *)
DocumentsKeepOriginals ==
  \A d \in DocIds : docs[d] # NoFile => d \in originals

(* The session's counter is the number of its uploads, also when requests come
   at once or fail (_increment_session_counters: "Atomically").            *)
UploadsAreCounted ==
  sess.uploaded = Cardinality({u \in UploadIds : upload[u].mine})

(* What was uploaded to a session does not stay under tmp/ for ever: it is
   confirmed, cancelled, or swept, an upload that came in behind the
   confirmation or the cancellation included.                              *)
StagedFilesGo ==
  <>[](\A u \in UploadIds : upload[u].mine => u \notin staged)
=============================================================================
