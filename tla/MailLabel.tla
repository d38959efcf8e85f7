----------------------------- MODULE MailLabel -----------------------------
(***************************************************************************)
(* The sync of watched mail labels: mail/sync.py, cursor.py, lifecycle.py, *)
(* ingest.py, document_lifecycle.py, driven by on_tick of                  *)
(* watcher/mail_observer.py, and the routes that add, drop and rescan a    *)
(* label; and the API's deletion and purge of documents.                   *)
(*                                                                         *)
(* Each label has a task of its own.  A tick looks at the server several   *)
(* times, and the mailbox may differ each time; it reads what the other    *)
(* labels' ticks have committed, and commits all it did in one transaction *)
(* at its end.  An exception rolls all of it back.                         *)
(*                                                                         *)
(* A message stands for its bytes and its Message-ID.  A document stands   *)
(* for an email's and its attachments', which the code changes together.   *)
(***************************************************************************)
EXTENDS Naturals, FiniteSets, FiniteSetsExt

CONSTANTS
  Labels,      (* labels an administrator may watch                        *)
  Messages,    (* messages that may carry them                             *)
  NoMessage,   (* not a message                                            *)
  Carries,     (* the messages each label may come to carry                *)
  Initially,   (* the messages it carries to begin with                    *)
  MaxDocs,     (* bound: documents that exist at one time                  *)
  MaxChanges,  (* bound: changes at the server and by administrators       *)
  MaxFaults    (* bound: refused commands, failed fetches, failed ticks    *)

ASSUME BoundsAssumption ==
  /\ MaxDocs \in Nat
  /\ MaxChanges \in Nat
  /\ MaxFaults \in Nat
  /\ IsFiniteSet(Messages)
  /\ NoMessage \notin Messages
  /\ Carries \in [Labels -> SUBSET Messages]
  /\ Initially \in [Labels -> SUBSET Messages]
  /\ \A l \in Labels : Initially[l] \subseteq Carries[l]

VARIABLES
  box,       (* server: per label, each message's UID, 0 when not in it    *)
  nextUid,   (* server: UIDNEXT per label                                  *)
  validity,  (* server: UIDVALIDITY per label                              *)
  watched,   (* the labels that have a watched_labels row                  *)
  cursor,    (* watched_labels.uidvalidity (0 is NULL) and last_uid_seen   *)
  row,       (* watched_messages by label and Message-ID                   *)
  docs,      (* the email documents                                        *)
  tick,      (* per label: the tick in progress and its uncommitted work   *)
  purging,   (* the documents a purge_run has selected and will delete     *)
  changes, faults

server == <<box, nextUid, validity>>
stored == <<watched, cursor, row, docs>>
vars == <<server, stored, tick, purging, changes, faults>>

-----------------------------------------------------------------------------
DocIds == 1..MaxDocs

Cursor == [uidvalidity: Nat, last: Nat]

NoCursor == [uidvalidity |-> 0, last |-> 0]

(* A watched_messages row.  doc is email_doc_id (0 is NULL).  epoch is not a
   column: it is the UIDVALIDITY under which the row got its imap_uid.     *)
Row == [status: {"none", "active", "unlabeled"}, uid: Nat,
        doc: DocIds \union {0}, epoch: Nat]

NoRow == [status |-> "none", uid |-> 0, doc |-> 0, epoch |-> 0]

NewRow(uid, epoch) ==
  [NoRow EXCEPT !.status = "active", !.uid = uid, !.epoch = epoch]

(* A draft is a document its creator has not committed yet.  old says that
   updated_at, which the pipeline sets when it finishes and a deletion does not
   touch, is more than 60 days ago.                                        *)
Document == [status: {"none", "draft", "active", "deleted"},
             msg: Messages \union {NoMessage}, old: BOOLEAN]

NoDocument == [status |-> "none", msg |-> NoMessage, old |-> FALSE]

NewDocument(f) == [NoDocument EXCEPT !.status = "draft", !.msg = f]

WithStatus(doc, s) == [doc EXCEPT !.status = s]

(* A tick's transaction: rows is its label's rows as it sees them, columns the
   cursor columns it has updated (and so holds the label's row lock for), todo
   the messages ingest has still to try, made its drafts, and deleted and
   restored the documents whose status it has flushed.                     *)
Tick == [pc: {"idle", "sync", "detect", "ingest", "lifecycle", "commit"},
         cursor: Cursor, columns: SUBSET {"uidvalidity", "last"},
         rows: [Messages -> Row], todo: SUBSET Messages,
         made: SUBSET DocIds, deleted: SUBSET DocIds,
         restored: SUBSET DocIds]

Idle == [pc |-> "idle", cursor |-> NoCursor, columns |-> {},
         rows |-> [m \in Messages |-> NoRow], todo |-> {}, made |-> {},
         deleted |-> {}, restored |-> {}]

(* Any numbering of a label's messages with distinct UIDs, from 1.         *)
Numberings(present) ==
  {f \in [Messages -> 0..Cardinality(present)] :
     /\ \A m \in Messages : f[m] # 0 <=> m \in present
     /\ \A m, k \in present : f[m] = f[k] => m = k}

Init ==
  /\ box \in [Labels -> [Messages -> 0..Cardinality(Messages)]]
  /\ \A l \in Labels : box[l] \in Numberings(Initially[l])
  /\ nextUid = [l \in Labels |-> Cardinality(Initially[l]) + 1]
  /\ validity = [l \in Labels |-> 1]
  /\ watched = Labels
  /\ cursor = [l \in Labels |-> NoCursor]
  /\ row = [l \in Labels |-> [m \in Messages |-> NoRow]]
  /\ docs = [d \in DocIds |-> NoDocument]
  /\ tick = [l \in Labels |-> Idle]
  /\ purging = {}
  /\ changes = 0
  /\ faults = 0

Present(l) == {m \in Messages : box[l][m] # 0}

Uids(l) == {box[l][m] : m \in Present(l)}

Change == changes < MaxChanges /\ changes' = changes + 1

Fault == faults < MaxFaults /\ faults' = faults + 1

-----------------------------------------------------------------------------
(* One tick *)

Begin(l) ==
  /\ l \in watched
  /\ tick[l].pc = "idle"
  /\ tick' = [tick EXCEPT ![l] = [Idle EXCEPT !.pc = "sync",
                                              !.cursor = cursor[l],
                                              !.rows = row[l]]]
  /\ UNCHANGED <<server, stored, purging, changes, faults>>

(* What the sync loops do with one message the SEARCH named: an unknown
   Message-ID gets a row, an unlabeled one becomes active again and keeps its
   imap_uid.                                                               *)
Recorded(r, uid, epoch) ==
  CASE r.status = "none"      -> NewRow(uid, epoch)
    [] r.status = "unlabeled" -> [r EXCEPT !.status = "active"]
    [] OTHER                  -> r

Listed(l, rows, from) ==
  [m \in Messages |-> IF box[l][m] >= from /\ box[l][m] # 0
                      THEN Recorded(rows[m], box[l][m], validity[l])
                      ELSE rows[m]]

Found(l, from) == {u \in Uids(l) : u >= from}

(* write_cursor after a listing.  (UpToNextUid, a mutant, takes UIDNEXT for the
   highest UID seen.)                                                      *)
UpToNextUid(l, uids) ==
  [uidvalidity |-> validity[l], last |-> nextUid[l]]

CursorAfter(l, uids) ==
  [uidvalidity |-> validity[l],
   last |-> IF uids = {} THEN 0 ELSE Max(uids)]

(* The ORM's UPDATE holds the columns whose value differs from the loaded one. *)
Changed(c, d) == {k \in {"uidvalidity", "last"} : c[k] # d[k]}

(* sync_label_initial: every message of the label.  An empty label only sets
   the cursor.                                                             *)
Initial(l) ==
  /\ tick[l].cursor.uidvalidity = 0
  /\ tick' = [tick EXCEPT
       ![l].pc = "detect",
       ![l].rows = Listed(l, tick[l].rows, 1),
       ![l].cursor = CursorAfter(l, Uids(l)),
       ![l].columns = Changed(tick[l].cursor, CursorAfter(l, Uids(l)))]

(* sync_label_incremental: the UIDs above the cursor.                      *)
From(t) == t.cursor.last + 1

Incremental(l) ==
  LET t == tick[l]
      uids == Found(l, From(t))
  IN  /\ t.cursor.uidvalidity = validity[l]
      /\ tick' = IF uids = {} THEN [tick EXCEPT ![l].pc = "detect"]
                 ELSE [tick EXCEPT
                   ![l].pc = "detect",
                   ![l].rows = Listed(l, t.rows, From(t)),
                   ![l].cursor = CursorAfter(l, uids),
                   ![l].columns = Changed(t.cursor, CursorAfter(l, uids))]

(* handle_uidvalidity_change: drops the label's rows, resets the cursor and
   lists everything; the listing may be refused.                           *)
Dropped == [m \in Messages |-> NoRow]

StartOver(l, refused) ==
  /\ tick[l].cursor.uidvalidity \notin {0, validity[l]}
  /\ tick' = [tick EXCEPT
       ![l].pc = "detect",
       ![l].rows = IF refused THEN Dropped ELSE Listed(l, Dropped, 1),
       ![l].cursor = IF refused THEN NoCursor ELSE CursorAfter(l, Uids(l)),
       ![l].columns = {"uidvalidity", "last"}]

Sync(l) ==
  /\ tick[l].pc = "sync"
  /\ Initial(l) \/ Incremental(l) \/ StartOver(l, FALSE)
  /\ UNCHANGED <<server, stored, purging, changes, faults>>

(* A command that is answered NO leaves everything as it is.               *)
Refused(l) ==
  /\ Fault
  /\ tick[l].pc = "sync"
  /\ \/ StartOver(l, TRUE)
     \/ /\ tick[l].cursor.uidvalidity \in {0, validity[l]}
        /\ tick' = [tick EXCEPT ![l].pc = "detect"]
  /\ UNCHANGED <<server, stored, purging, changes>>

(* detect_unlabeled_messages compares the rows' UIDs with a second SEARCH.
   (Mutant: it writes the watcher's status for a file that is gone.)       *)
MarkedRemoved(l, rows) ==
  [m \in Messages |-> IF rows[m].status = "active" /\ rows[m].uid \notin Uids(l)
                      THEN [rows[m] EXCEPT !.status = "removed"]
                      ELSE rows[m]]

Unlabeled(l, rows) ==
  [m \in Messages |-> IF rows[m].status = "active" /\ rows[m].uid \notin Uids(l)
                      THEN [rows[m] EXCEPT !.status = "unlabeled"]
                      ELSE rows[m]]

Pending(rows) ==
  {m \in Messages : rows[m].status = "active" /\ rows[m].doc = 0}

ToIngest(l, rows) ==
  tick' = [tick EXCEPT ![l].pc = "ingest", ![l].rows = rows,
                       ![l].todo = Pending(rows)]

Detect(l) ==
  /\ tick[l].pc = "detect"
  /\ ToIngest(l, Unlabeled(l, tick[l].rows))
  /\ UNCHANGED <<server, stored, purging, changes, faults>>

DetectRefused(l) ==
  /\ Fault
  /\ tick[l].pc = "detect"
  /\ ToIngest(l, tick[l].rows)
  /\ UNCHANGED <<server, stored, purging, changes>>

(* ingest_pending_messages, one message: fetches what is now at the row's UID,
   links the document any row already has for the same bytes, or creates one
   inside a savepoint.  The server answers OK with no data for a UID that is
   gone, which fetch_eml_bytes takes for a message of no bytes: NoMessage.  *)
Fetched(l, m) ==
  LET at == {f \in Present(l) : box[l][f] = tick[l].rows[m].uid}
  IN  IF at = {} THEN NoMessage ELSE CHOOSE f \in at : TRUE

RowsSeen(l) ==
  {tick[l].rows[m] : m \in Messages}
    \union {row[k][m] : k \in Labels \ {l}, m \in Messages}

Linked(l) == {r.doc : r \in RowsSeen(l)} \ {0}

SameBytes(l, f) == {d \in Linked(l) : docs[d].msg = f}

Unused == {d \in DocIds : docs[d].status = "none"}

(* The creation: a draft the message's row points to.  A failure rolls back to
   the savepoint.  (Mutant: without the savepoint the draft stays.)        *)
GhostLeft(l, m, d) ==
  /\ docs' = [docs EXCEPT ![d] = NewDocument(Fetched(l, m))]
  /\ tick' = [tick EXCEPT ![l].todo = @ \ {m}, ![l].made = @ \union {d}]

RolledBack(l, m, d) == UNCHANGED docs /\ tick' = [tick EXCEPT ![l].todo = @ \ {m}]

Links(l, m) ==
  /\ \E d \in SameBytes(l, Fetched(l, m)) :
       tick' = [tick EXCEPT ![l].todo = @ \ {m}, ![l].rows[m].doc = d]
  /\ UNCHANGED docs

Creates(l, m) ==
  /\ SameBytes(l, Fetched(l, m)) = {}
  /\ Unused # {}
  /\ docs' = [docs EXCEPT ![Min(Unused)] = NewDocument(Fetched(l, m))]
  /\ tick' = [tick EXCEPT ![l].todo = @ \ {m}, ![l].rows[m].doc = Min(Unused),
                          ![l].made = @ \union {Min(Unused)}]

Ingest(l, m) ==
  /\ m \in tick[l].todo
  /\ Links(l, m) \/ Creates(l, m)
  /\ UNCHANGED <<server, watched, cursor, row, purging, changes, faults>>

(* The fetch fails, or the creation does.                                  *)
IngestFails(l, m) ==
  /\ Fault
  /\ m \in tick[l].todo
  /\ Unused # {}
  /\ RolledBack(l, m, Min(Unused))
  /\ UNCHANGED <<server, watched, cursor, row, purging, changes>>

(* soft_delete_documents_for_unlabeled spares what an active row of another
   label points to, and only of another label; restore_documents_for_relabeled
   runs after it.  (Mutant: a label does not look at the others.)          *)
PointedTo(rows, s) ==
  {rows[m].doc : m \in {k \in Messages : rows[k].status = s}} \ {0}

HeldByNobody(l) == {}

HeldElsewhere(l) ==
  UNION {PointedTo(row[k], "active") : k \in Labels \ {l}}

Gone(l) == PointedTo(tick[l].rows, "unlabeled") \ HeldElsewhere(l)

Back(l) == PointedTo(tick[l].rows, "active")

IsDeleted(d) == docs[d].status = "deleted"

Lifecycle(l) ==
  /\ tick[l].pc = "ingest"
  /\ tick[l].todo = {}
  /\ tick' = [tick EXCEPT
       ![l].pc = "commit",
       ![l].deleted = {d \in Gone(l) \ Back(l) : ~IsDeleted(d)},
       ![l].restored = {d \in Back(l) : IsDeleted(d) \/ d \in Gone(l)}]
  /\ UNCHANGED <<server, stored, purging, changes, faults>>

(* The commit at the end of on_tick: of the cursor, the columns the session
   changed.                                                                *)
CommittedCursor(t, c) ==
  [uidvalidity |-> IF "uidvalidity" \in t.columns THEN t.cursor.uidvalidity
                   ELSE c.uidvalidity,
   last |-> IF "last" \in t.columns THEN t.cursor.last ELSE c.last]

StatusAfter(t, d) ==
  CASE d \in t.deleted                   -> "deleted"
    [] d \in t.restored \union t.made    -> "active"
    [] OTHER                             -> docs[d].status

Commit(l) ==
  /\ tick[l].pc = "commit"
  /\ cursor' = [cursor EXCEPT ![l] = CommittedCursor(tick[l], cursor[l])]
  /\ row' = [row EXCEPT ![l] = tick[l].rows]
  /\ docs' = [d \in DocIds |-> WithStatus(docs[d], StatusAfter(tick[l], d))]
  /\ tick' = [tick EXCEPT ![l] = Idle]
  /\ UNCHANGED <<server, watched, purging, changes, faults>>

(* The rollback: an exception, a cancelled task, a killed process.         *)
Discarded(l) ==
  /\ tick' = [tick EXCEPT ![l] = Idle]
  /\ docs' = [d \in DocIds |-> IF d \in tick[l].made THEN NoDocument ELSE docs[d]]

TickFails(l) ==
  /\ Fault
  /\ tick[l].pc # "idle"
  /\ Discarded(l)
  /\ UNCHANGED <<server, watched, cursor, row, purging, changes>>

-----------------------------------------------------------------------------
(* The server *)

Arrive(l, m) ==
  /\ Change
  /\ m \in Carries[l]
  /\ box[l][m] = 0
  /\ box' = [box EXCEPT ![l][m] = nextUid[l]]
  /\ nextUid' = [nextUid EXCEPT ![l] = @ + 1]
  /\ UNCHANGED <<validity, stored, tick, purging, faults>>

Leave(l, m) ==
  /\ Change
  /\ box[l][m] # 0
  /\ box' = [box EXCEPT ![l][m] = 0]
  /\ UNCHANGED <<nextUid, validity, stored, tick, purging, faults>>

Renumber(l) ==
  /\ Change
  /\ validity' = [validity EXCEPT ![l] = @ + 1]
  /\ \E f \in Numberings(Present(l)) : box' = [box EXCEPT ![l] = f]
  /\ nextUid' = [nextUid EXCEPT ![l] = Cardinality(Present(l)) + 1]
  /\ UNCHANGED <<stored, tick, purging, faults>>

-----------------------------------------------------------------------------
(* Administrators *)

(* rescan_label waits while a tick holds the label's row.                  *)
Rescan(l) ==
  /\ Change
  /\ l \in watched
  /\ tick[l].columns = {}
  /\ cursor' = [cursor EXCEPT ![l] = NoCursor]
  /\ UNCHANGED <<server, watched, row, docs, tick, purging, faults>>

(* delete_watched_label: the rows go with the label, and a tick in progress
   cannot commit any more.                                                 *)
Unwatch(l) ==
  /\ Change
  /\ l \in watched
  /\ watched' = watched \ {l}
  /\ cursor' = [cursor EXCEPT ![l] = NoCursor]
  /\ row' = [row EXCEPT ![l] = Dropped]
  /\ Discarded(l)
  /\ UNCHANGED <<server, purging, faults>>

(* create_watched_label *)
Watch(l) ==
  /\ Change
  /\ l \notin watched
  /\ watched' = watched \union {l}
  /\ UNCHANGED <<server, cursor, row, docs, tick, purging, faults>>

(* delete_document of the API *)
DeleteDocument(d) ==
  /\ Change
  /\ docs[d].status = "active"
  /\ docs' = [docs EXCEPT ![d] = WithStatus(@, "deleted")]
  /\ UNCHANGED <<server, watched, cursor, row, tick, purging, faults>>

(* purge_run selects what is deleted and has an old updated_at, and then
   deletes each by its primary key, once no tick holds a lock on it; its rows'
   email_doc_id becomes NULL.                                              *)
Expired(d) == docs[d].status = "deleted" /\ docs[d].old

SelectExpired ==
  /\ purging = {}
  /\ purging' = {d \in DocIds : Expired(d)}
  /\ purging' # {}
  /\ UNCHANGED <<server, stored, tick, changes, faults>>

Holds(l) ==
  tick[l].deleted \union tick[l].restored \union
  {tick[l].rows[m].doc : m \in {k \in Messages :
                                  tick[l].rows[k].doc # row[l][k].doc}}

Unlinked(rows) ==
  [m \in Messages |-> IF rows[m].doc \in purging THEN [rows[m] EXCEPT !.doc = 0]
                      ELSE rows[m]]

Purge ==
  /\ purging # {}
  /\ \A l \in Labels : tick[l].pc # "idle" => Holds(l) \intersect purging = {}
  /\ docs' = [d \in DocIds |-> IF d \in purging THEN NoDocument ELSE docs[d]]
  /\ row' = [l \in Labels |-> Unlinked(row[l])]
  /\ tick' = [l \in Labels |-> [tick[l] EXCEPT !.rows = Unlinked(@)]]
  /\ purging' = {}
  /\ UNCHANGED <<server, watched, cursor, changes, faults>>

SixtyDays ==
  /\ Change
  /\ \A l \in Labels : tick[l].pc = "idle"
  /\ purging = {}
  /\ docs' = [d \in DocIds |-> IF docs[d].status = "none" THEN docs[d]
                                    ELSE [docs[d] EXCEPT !.old = TRUE]]
  /\ UNCHANGED <<server, watched, cursor, row, tick, purging, faults>>

-----------------------------------------------------------------------------
TickStep(l) ==
  \/ Begin(l) \/ Sync(l) \/ Detect(l) \/ Lifecycle(l) \/ Commit(l)
  \/ \E m \in Messages : Ingest(l, m)

FaultStep(l) ==
  \/ Refused(l) \/ DetectRefused(l) \/ TickFails(l)
  \/ \E m \in Messages : IngestFails(l, m)

ServerStep ==
  \E l \in Labels :
    \/ Renumber(l)
    \/ \E m \in Messages : Arrive(l, m) \/ Leave(l, m)

AdminStep ==
  \/ \E l \in Labels : Rescan(l) \/ Unwatch(l) \/ Watch(l)
  \/ \E d \in DocIds : DeleteDocument(d)
  \/ SelectExpired \/ Purge \/ SixtyDays

Next ==
  \/ \E l \in Labels : TickStep(l) \/ FaultStep(l)
  \/ ServerStep
  \/ AdminStep

Spec == Init /\ [][Next]_vars

(* poll_or_idle_loop calls on_tick again at the latest after its poll interval
   or IDLE timeout, and the supervisor respawns a label's task that ended.
   Faults, the server and administrators owe nothing.                      *)
Fairness == \A l \in Labels : WF_vars(TickStep(l))

FairSpec == Spec /\ Fairness

-----------------------------------------------------------------------------
TypeOK ==
  /\ box \in [Labels -> [Messages -> Nat]]
  /\ nextUid \in [Labels -> Nat]
  /\ validity \in [Labels -> Nat]
  /\ watched \subseteq Labels
  /\ cursor \in [Labels -> Cursor]
  /\ row \in [Labels -> [Messages -> Row]]
  /\ docs \in [DocIds -> Document]
  /\ tick \in [Labels -> Tick]
  /\ purging \subseteq DocIds
  /\ changes \in 0..MaxChanges
  /\ faults \in 0..MaxFaults

(* The cursor never passes a message that has no row: an incremental sync only
   asks for the UIDs above last_uid_seen, so such a message would not be seen
   again before a rescan.  sync.py's listings and refusals, write_cursor, the
   one commit of on_tick.                                                  *)
CursorCoversRows ==
  \A l \in Labels, m \in Messages :
    /\ cursor[l].uidvalidity = validity[l]
    /\ box[l][m] # 0
    /\ box[l][m] <= cursor[l].last
    => row[l][m].status # "none"

(* A document is committed together with a row that points to it: neither a
   failed message nor a failed tick leaves a document nobody will ever delete
   or dedup against.  The savepoint of ingest_pending_messages.            *)
Visible(d) == docs[d].status \in {"active", "deleted"}

NoGhostDocuments ==
  [][\A d \in DocIds :
       (Visible(d))' /\ ~Visible(d)
         => \E l \in Labels, m \in Messages : row'[l][m].doc = d]_vars

(* Once the mailboxes and the administrators are quiet and faults have ceased,
   the rows come to agree with the mailboxes, and the documents with the rows
   of all labels together, whatever the ticks of two labels that share a
   message read of each other on the way.  Rows whose imap_uid is not their
   message's are left out: see MessagesAreLive.                            *)
OwnUid(l, m) ==
  row[l][m].epoch = validity[l] /\ box[l][m] \in {0, row[l][m].uid}

RowsAgree ==
  \A l \in watched, m \in Messages :
    /\ box[l][m] # 0 => row[l][m].status # "none"
    /\ OwnUid(l, m) /\ box[l][m] # 0
         => row[l][m].status = "active" /\ row[l][m].doc # 0
    /\ OwnUid(l, m) /\ box[l][m] = 0 => row[l][m].status # "active"

RowsOf(d) == {r \in {row[l][m] : l \in Labels, m \in Messages} : r.doc = d}

DocumentsAgree ==
  \A d \in DocIds : RowsOf(d) # {} =>
    (docs[d].status = "active" <=> \E r \in RowsOf(d) : r.status = "active")

Converges == <>[](RowsAgree /\ DocumentsAgree)

(* sync.py:144-149: the flip back to active lets a message that was labelled
   again have its documents back.                                          *)
MessagesAreLive ==
  <>[](\A l \in watched, m \in Messages :
         box[l][m] # 0 => \E d \in DocIds : row[l][m].doc = d
                                           /\ docs[d].status = "active")
=============================================================================
