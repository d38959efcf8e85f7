--------------------------- MODULE WatchedFolder ---------------------------
(***************************************************************************)
(* One watched folder: watcher/events.py, relocate.py, visibility.py, the  *)
(* reconciliation pass of watcher/main.py, the delivery of watcher/        *)
(* observer.py; the extract stage that reads a watched file in place; and  *)
(* the deletion, the purge and the reaping of watched documents by the API.*)
(*                                                                         *)
(* The user changes files at any time.  Each change leaves hints, which    *)
(* arrive in any order, late, twice or not at all.  A hint, and each file a*)
(* pass dispatches, is handled in a transaction of its own under the       *)
(* folder's lock; a pass is otherwise interleaved with everything else.    *)
(*                                                                         *)
(* The files are one directory's, of one type, without metadata sidecars,  *)
(* and their names differ by more than case.  A document's source_path and *)
(* sha256 are its row's path and sha256: the code sets them together.      *)
(***************************************************************************)
EXTENDS Naturals, FiniteSets, Sequences

CONSTANTS
  Paths,      (* the relative paths of files the watcher indexes           *)
  Aside,      (* names it ignores, an editor's temporary file's            *)
  Contents,   (* the contents of files                                     *)
  Empty,      (* the content of a file of no bytes                         *)
  Initially,  (* the folder's files to begin with, by name                 *)
  Returns,    (* whether a path may come to have, again, the stat under
                 which a pass last saw it, after having had another        *)
  MaxChanges, (* bound: what users and administrators do, and the reaper   *)
  MaxFaults   (* bound: lost and repeated hints, ended passes, restarts    *)

Names == Paths \union Aside

(* stat is what _stat_key returns: every write makes a new one, a rename
   keeps it.  0 is the stat of no file.                                    *)
File == [stat: Nat, sha: Contents \union {Empty}]

NoFile == [stat |-> 0, sha |-> Empty]

ASSUME FolderAssumption ==
  /\ Paths \intersect Aside = {}
  /\ Empty \notin Contents
  /\ IsFiniteSet(Names)
  /\ Initially \in [Names -> File]
  /\ \A n \in Names : Initially[n].stat <= Cardinality(Names)
  /\ Returns \in BOOLEAN
  /\ MaxChanges \in Nat
  /\ MaxFaults \in Nat

VARIABLES
  disk,     (* the file each name has                                      *)
  mounted,  (* whether the folder's root is there                          *)
  hints,    (* file-system events not yet delivered                        *)
  rows,     (* watched_files by relative_path                              *)
  docs,     (* the documents of watched files, by age                      *)
  recent,   (* 1 for the latest row removed within ADOPT_WINDOW_SECS, 2 for
               the one before, ..., 0 for the others: removed_at's order   *)
  seen,     (* _seen_stats: the stat of each path when last compared       *)
  pass,     (* the reconciliation pass in progress                         *)
  reaping,  (* documents whose expired rows the reaper will delete         *)
  changes, faults

stored == <<rows, docs, recent>>
vars == <<disk, mounted, hints, stored, seen, pass, reaping,
          changes, faults>>

-----------------------------------------------------------------------------
(* A watched_files row.  doc is an index of docs; 0 is NULL.               *)
Row == [status: {"none", "active", "removed"},
        sha: Contents \union {Empty}, doc: Nat]

NoRow == [status |-> "none", sha |-> Empty, doc |-> 0]

(* failed is that its last extract found no file to read: pipeline_status and
   error.  Otherwise it is queued, under way or done; a client may queue it
   again at any time.  One deleted from the database is "gone".            *)
Document == [status: {"active", "removed", "deleted", "gone"}, failed: BOOLEAN]

NewDocument == [status |-> "active", failed |-> FALSE]

GoneDocument == [status |-> "gone", failed |-> FALSE]

(* from = to stands for a created, modified or deleted event: the handler goes
   by what is on disk, whichever it is.                                    *)
Hint == [from: Names, to: Names]

Touched(n) == [from |-> n, to |-> n]

(* A pass: the active rows it started from, the paths of its listing still to
   visit, the new paths with their stats, the rows without a file, the content
   hashes it computed and the moves it found.                              *)
Pass == [pc: {"idle", "list", "visit", "change"}, active: SUBSET Paths,
         todo: SUBSET Paths, fresh: SUBSET Paths, stats: [Paths -> Nat],
         missing: SUBSET Paths,
         shas: [Paths -> SUBSET (Contents \union {Empty})],
         pairs: SUBSET (Paths \X Paths)]

Unseen == [p \in Paths |-> 0]

Unhashed == [p \in Paths |-> {}]

NoPass == [pc |-> "idle", active |-> {}, todo |-> {}, fresh |-> {},
           stats |-> Unseen, missing |-> {}, shas |-> Unhashed, pairs |-> {}]

Init ==
  /\ disk = Initially
  /\ mounted = TRUE
  /\ hints = {}
  /\ rows = [p \in Paths |-> NoRow]
  /\ docs = <<>>
  /\ recent = [p \in Paths |-> 0]
  /\ seen = Unseen
  /\ pass = NoPass
  /\ reaping = {}
  /\ changes = 0
  /\ faults = 0

There(n) == mounted /\ disk[n].stat # 0

-----------------------------------------------------------------------------
(* What a transaction of handle_event does to the tables.                  *)

Db == [rows |-> rows, docs |-> docs, recent |-> recent, raised |-> FALSE]

Forgotten(order, gone) ==
  [p \in Paths |->
     IF p \in gone \/ order[p] = 0 THEN 0
     ELSE Cardinality({q \in Paths \ gone : order[q] \in 1..order[p]})]

Latest(order, p) ==
  LET others == Forgotten(order, {p})
  IN  [q \in Paths |-> IF q = p THEN 1
                       ELSE IF others[q] = 0 THEN 0 ELSE others[q] + 1]

Hidden(ds, d) ==
  IF d # 0 /\ ds[d].status = "active"
    THEN [ds EXCEPT ![d].status = "removed"] ELSE ds

(* Mutant of Unhidden: an administrator's deletion is undone too.          *)
Revived(ds, d) ==
  IF d # 0 /\ ds[d].status # "gone"
    THEN [ds EXCEPT ![d].status = "active"] ELSE ds

Unhidden(ds, d) ==
  IF d # 0 /\ ds[d].status = "removed"
    THEN [ds EXCEPT ![d].status = "active"] ELSE ds

Retired(db, p) ==
  [db EXCEPT !.rows[p].status = "removed",
             !.docs = Hidden(@, db.rows[p].doc),
             !.recent = Latest(@, p)]

(* Mutant of Restored: the row is still among the recent removals.         *)
RestoredOnly(db, p) ==
  [db EXCEPT !.rows[p].status = "active",
             !.docs = Unhidden(@, db.rows[p].doc)]

(* Mutant of Restored: the document stays hidden.                          *)
RowRestored(db, p) ==
  [db EXCEPT !.rows[p].status = "active", !.recent = Forgotten(@, {p})]

Restored(db, p) ==
  [db EXCEPT !.rows[p].status = "active",
             !.docs = Unhidden(@, db.rows[p].doc),
             !.recent = Forgotten(@, {p})]

Queued(db, d) == [db EXCEPT !.docs[d].failed = FALSE]

BroughtUpToDate(db, p) ==
  LET d == db.rows[p].doc
  IN  IF d # 0 /\ db.docs[d].failed THEN Queued(db, d) ELSE db

(* Mutant of Reprocessed: the row keeps the hash it had.                    *)
KeepsSha(db, p, sha) ==
  IF db.rows[p].doc = 0 THEN [db EXCEPT !.raised = TRUE]
  ELSE Queued(db, db.rows[p].doc)

(* A row whose document was purged has none to reprocess: an exception.    *)
Reprocessed(db, p, sha) ==
  IF db.rows[p].doc = 0 THEN [db EXCEPT !.raised = TRUE]
  ELSE [Queued(db, db.rows[p].doc) EXCEPT !.rows[p].sha = sha]

Created(db, p, sha) ==
  [db EXCEPT !.docs = Append(@, NewDocument),
             !.rows[p] = [status |-> "active", sha |-> sha,
                          doc |-> Len(db.docs) + 1]]

Relocated(db, p, q) ==
  [db EXCEPT !.rows = [@ EXCEPT ![q] = db.rows[p], ![p] = NoRow],
             !.recent = [@ EXCEPT ![q] = db.recent[p], ![p] = 0]]

(* The rows a new file of this content may be the moved file of.           *)
Adoptable(db, p, sha) ==
  {r \in Paths \ {p} : db.recent[r] # 0 /\ db.rows[r].sha = sha /\ ~There(r)}

Newest(db, adoptable) ==
  CHOOSE r \in adoptable : \A o \in adoptable : db.recent[r] <= db.recent[o]

Compared(db, p, sha) ==
  CASE db.rows[p].status = "none" /\ Adoptable(db, p, sha) # {} ->
         Restored(Relocated(db, Newest(db, Adoptable(db, p, sha)), p), p)
    [] db.rows[p].status = "none" /\ Adoptable(db, p, sha) = {} ->
         Created(db, p, sha)
    [] db.rows[p].status # "none" /\ db.rows[p].sha = sha ->
         BroughtUpToDate(Restored(db, p), p)
    [] OTHER -> Restored(Reprocessed(db, p, sha), p)

(* sha is the content's hash, computed now or by the pass before.          *)
HandledAs(db, n, sha) ==
  CASE n \in Aside -> db
    [] n \in Paths /\ ~There(n) ->
         IF db.rows[n].status = "active" THEN Retired(db, n) ELSE db
    [] n \in Paths /\ There(n) ->
         IF Empty \in {disk[n].sha, sha} THEN db ELSE Compared(db, n, sha)

Handled(db, n) == HandledAs(db, n, disk[n].sha)

(* Mutant of Followed: the hint is believed although the file is there.    *)
FollowedUnchecked(db, n, m) ==
  /\ {n, m} \subseteq Paths
  /\ db.rows[n].status # "none"
  /\ db.rows[m].status = "none"

(* The row follows its file only when the file left its old path, and the new
   one is a path the index does not know.                                  *)
Followed(db, n, m) ==
  /\ {n, m} \subseteq Paths
  /\ ~There(n)
  /\ db.rows[n].status # "none"
  /\ db.rows[m].status = "none"

MovedAs(db, n, m, sha) ==
  CASE ~Followed(db, n, m) -> HandledAs(Handled(db, n), m, sha)
    [] Followed(db, n, m) /\ ~There(m) -> Retired(Relocated(db, n, m), m)
    [] Followed(db, n, m) /\ There(m) -> HandledAs(Relocated(db, n, m), m, sha)

(* Commit, or roll back what raised.                                       *)
Commit(db) ==
  IF db.raised THEN UNCHANGED stored
  ELSE /\ rows' = db.rows
       /\ docs' = db.docs
       /\ recent' = db.recent

-----------------------------------------------------------------------------
(* The observer's thread.                                                  *)

(* An event is dropped while the root is not the directory attached to.    *)
HandleHint ==
  \E h \in hints :
    /\ hints' = hints \ {h}
    /\ IF ~mounted THEN UNCHANGED stored
       ELSE Commit(IF h.from = h.to THEN Handled(Db, h.from)
                   ELSE MovedAs(Db, h.from, h.to, disk[h.to].sha))
    /\ UNCHANGED <<disk, mounted, seen, pass, reaping, changes, faults>>

(* ADOPT_WINDOW_SECS pass since the oldest of the recent removals.         *)
WindowCloses ==
  /\ \E p \in Paths :
       /\ recent[p] # 0
       /\ \A q \in Paths : recent[q] <= recent[p]
       /\ recent' = [recent EXCEPT ![p] = 0]
  /\ UNCHANGED <<disk, mounted, hints, rows, docs, seen, pass,
                 reaping, changes, faults>>

-----------------------------------------------------------------------------
(* A reconciliation pass.                                                  *)

outside == <<disk, mounted, hints, reaping, changes, faults>>

ActivePaths == {p \in Paths : rows[p].status = "active"}

PassBegins ==
  /\ pass.pc = "idle"
  /\ mounted
  /\ pass' = [NoPass EXCEPT !.pc = "list", !.active = ActivePaths]
  /\ UNCHANGED <<outside, stored, seen>>

(* The walk lists the directory.  Nothing is removed when it holds no file, and
   a root that cannot be listed ends the pass.                             *)
Lists ==
  /\ pass.pc = "list"
  /\ LET present == {p \in Paths : There(p)}
     IN  pass' = IF ~mounted THEN NoPass
                 ELSE [pass EXCEPT !.pc = "visit", !.todo = present,
                                   !.missing = IF present = {} THEN {}
                                               ELSE pass.active \ present]
  /\ UNCHANGED <<outside, stored, seen>>

StatOf(p) == IF mounted THEN disk[p].stat ELSE 0

SeenAt(p, stat) == IF stat = 0 THEN seen ELSE [seen EXCEPT ![p] = stat]

Visits ==
  \E p \in pass.todo :
    /\ pass.pc = "visit"
    /\ \/ /\ p \in pass.active
          /\ StatOf(p) # 0 /\ seen[p] = StatOf(p)
          /\ pass' = [pass EXCEPT !.todo = @ \ {p}]
          /\ UNCHANGED <<stored, seen>>
       \/ /\ p \in pass.active
          /\ StatOf(p) = 0 \/ seen[p] # StatOf(p)
          /\ Commit(Handled(Db, p))
          /\ seen' = IF Handled(Db, p).raised THEN seen
                     ELSE SeenAt(p, StatOf(p))
          /\ pass' = [pass EXCEPT !.todo = @ \ {p}]
       \/ /\ p \notin pass.active
          /\ pass' = [pass EXCEPT !.todo = @ \ {p}, !.fresh = @ \union {p},
                                  !.stats[p] = StatOf(p)]
          /\ UNCHANGED <<stored, seen>>
    /\ UNCHANGED outside

(* A row without a file and a new file of its content are a move when there is
   no other of either.                                                     *)
Only(S, p) == \A q \in S : q = p

Pairs(hashed) ==
  LET known == {p \in pass.missing : rows[p].status # "none"}
      olds(c) == {p \in known : rows[p].sha = c}
      news(c) == {p \in hashed : disk[p].sha = c}
  IN  {pair \in known \X hashed :
         LET sha == disk[pair[2]].sha
         IN  /\ rows[pair[1]].sha = sha
             /\ Only(olds(sha), pair[1])
             /\ Only(news(sha), pair[2])}

Hashes ==
  /\ pass.pc = "visit"
  /\ pass.todo = {}
  /\ LET hashed == IF pass.missing = {} THEN {}
                   ELSE {p \in pass.fresh : There(p)}
     IN  pass' = [pass EXCEPT
                    !.pc = "change", !.active = {},
                    !.shas = [p \in Paths |-> IF p \in hashed
                                                THEN {disk[p].sha} ELSE {}],
                    !.pairs = Pairs(hashed)]
  /\ UNCHANGED <<outside, stored, seen>>

(* The hash the pass hands on: the one it computed, or one computed now.   *)
HashOf(p) ==
  IF pass.shas[p] = {} THEN disk[p].sha ELSE CHOOSE c \in pass.shas[p] : TRUE

(* The stat under which a path is remembered: as the walk found it.        *)
WalkedStat(p) == pass.stats[p]

(* A pair whose old path has its file back is left to the steps below.     *)
Moves ==
  /\ pass.pc = "change"
  /\ \E pair \in pass.pairs :
       LET o == pair[1]
           n == pair[2]
           db == MovedAs(Db, o, n, HashOf(n))
       IN  IF There(o) \/ db.raised
             THEN /\ pass' = [pass EXCEPT !.pairs = @ \ {pair}]
                  /\ UNCHANGED <<stored, seen>>
             ELSE /\ Commit(db)
                  /\ pass' = [pass EXCEPT !.pairs = @ \ {pair},
                                          !.missing = @ \ {o},
                                          !.fresh = @ \ {n}]
                  /\ seen' = [SeenAt(n, WalkedStat(n)) EXCEPT ![o] = 0]
  /\ UNCHANGED outside

Creates ==
  /\ pass.pc = "change"
  /\ pass.pairs = {}
  /\ \E p \in pass.fresh :
       LET db == HandledAs(Db, p, HashOf(p))
       IN  /\ Commit(db)
           /\ seen' = IF db.raised THEN seen ELSE SeenAt(p, WalkedStat(p))
           /\ pass' = [pass EXCEPT !.fresh = @ \ {p}]
  /\ UNCHANGED outside

Deletes ==
  /\ pass.pc = "change"
  /\ pass.pairs = {} /\ pass.fresh = {}
  /\ \E p \in pass.missing :
       /\ seen' = [seen EXCEPT ![p] = 0]
       /\ Commit(Handled(Db, p))
       /\ pass' = [pass EXCEPT !.missing = @ \ {p}]
  /\ UNCHANGED outside

PassEnds ==
  /\ pass.pc = "change"
  /\ pass.pairs = {} /\ pass.fresh = {} /\ pass.missing = {}
  /\ pass' = NoPass
  /\ UNCHANGED <<outside, stored, seen>>

PassStep ==
  PassBegins \/ Lists \/ Visits \/ Hashes \/ Moves \/ Creates \/ Deletes
  \/ PassEnds

-----------------------------------------------------------------------------
(* The worker's extract stage: it reads the file its document's active row
   names, in place, and leaves hidden documents alone.                     *)
Readable(d) ==
  \E p \in Paths : rows[p].doc = d /\ rows[p].status = "active" /\ There(p)

ExtractFails ==
  \E d \in DOMAIN docs :
    /\ docs[d].status = "active"
    /\ ~docs[d].failed
    /\ ~Readable(d)
    /\ docs' = [docs EXCEPT ![d].failed = TRUE]
    /\ UNCHANGED <<disk, mounted, hints, rows, recent, seen, pass, reaping,
                   changes, faults>>

-----------------------------------------------------------------------------
(* The API.                                                                *)

Change == changes < MaxChanges /\ changes' = changes + 1

DeleteDocument ==
  /\ Change
  /\ \E d \in DOMAIN docs :
       /\ docs[d].status \in {"active", "removed"}
       /\ docs' = [docs EXCEPT ![d].status = "deleted"]
  /\ UNCHANGED <<disk, mounted, hints, rows, recent, seen, pass,
                 reaping, faults>>

(* The row of a purged document stays, with its doc_id set to NULL.        *)
Purge ==
  /\ \E d \in DOMAIN docs :
       /\ docs[d].status = "deleted"
       /\ docs' = [docs EXCEPT ![d] = GoneDocument]
       /\ rows' = [p \in Paths |-> IF rows[p].doc = d
                                     THEN [rows[p] EXCEPT !.doc = 0]
                                     ELSE rows[p]]
  /\ UNCHANGED <<disk, mounted, hints, recent, seen, pass, reaping, changes,
                 faults>>

Expired ==
  {p \in Paths : /\ rows[p].status = "removed"
                 /\ recent[p] = 0
                 /\ rows[p].doc # 0}

(* The session reaper selects the rows removed more than 30 days ago ...   *)
ReaperSelects ==
  /\ Change
  /\ reaping = {}
  /\ reaping' = {rows[p].doc : p \in Expired}
  /\ reaping' # {}
  /\ UNCHANGED <<disk, mounted, hints, stored, seen, pass, faults>>

(* ... and deletes them and their documents, whatever became of them since.
   A document that is gone already makes it roll back.                     *)
ReaperDeletes ==
  /\ reaping # {}
  /\ reaping' = {}
  /\ IF \E d \in reaping : docs[d].status = "gone" THEN UNCHANGED stored
     ELSE LET reaped == {p \in Paths : rows[p].doc \in reaping}
          IN  /\ docs' = [d \in DOMAIN docs |->
                            IF d \in reaping THEN GoneDocument
                            ELSE docs[d]]
              /\ rows' = [p \in Paths |-> IF p \in reaped THEN NoRow
                                          ELSE rows[p]]
              /\ recent' = Forgotten(recent, reaped)
  /\ UNCHANGED <<disk, mounted, hints, seen, pass, changes,
                 faults>>

-----------------------------------------------------------------------------
(* The user.                                                               *)

outsideDisk == <<mounted, stored, seen, pass, reaping, faults>>

NewFile(c) == [stat |-> Cardinality(Names) + changes + 1, sha |-> c]

Write ==
  /\ Change
  /\ mounted
  /\ \E n \in Names, c \in Contents \union {Empty} :
       /\ disk' = [disk EXCEPT ![n] = NewFile(c)]
       /\ hints' = hints \union {Touched(n)}
  /\ UNCHANGED outsideDisk

Unlink ==
  /\ Change
  /\ mounted
  /\ \E n \in Names :
       /\ disk[n].stat # 0
       /\ disk' = [disk EXCEPT ![n] = NoFile]
       /\ hints' = hints \union {Touched(n)}
  /\ UNCHANGED outsideDisk

Targets(n) ==
  {m \in Names \ {n} :
     m \in Paths => Returns \/ seen[m] # disk[n].stat}

(* Reported as a move, or as its two halves.                               *)
Rename ==
  /\ Change
  /\ mounted
  /\ \E n \in Names : \E m \in Targets(n) :
       /\ disk[n].stat # 0
       /\ disk' = [disk EXCEPT ![m] = disk[n], ![n] = NoFile]
       /\ \/ hints' = hints \union {[from |-> n, to |-> m]}
          \/ hints' = hints \union {Touched(n), Touched(m)}
  /\ UNCHANGED outsideDisk

(* The volume goes away, or the root is moved aside ...                    *)
Unmount ==
  /\ Change
  /\ mounted
  /\ mounted' = FALSE
  /\ UNCHANGED <<disk, hints, stored, seen, pass, reaping,
                 faults>>

(* ... and returns.  The observer is attached again, which forgets the stats,
   unless it was still alive and watching the same directory.              *)
Mount ==
  /\ ~mounted
  /\ mounted' = TRUE
  /\ seen' \in {Unseen} \union (IF Returns THEN {seen} ELSE {})
  /\ UNCHANGED <<disk, hints, stored, pass, reaping, changes,
                 faults>>

-----------------------------------------------------------------------------
(* What goes wrong.                                                        *)

Fault == faults < MaxFaults /\ faults' = faults + 1

(* The system coalesces or drops an event, or the database is unreachable. *)
LoseHint ==
  /\ Fault
  /\ \E h \in hints : hints' = hints \ {h}
  /\ UNCHANGED <<disk, mounted, stored, seen, pass, reaping,
                 changes>>

RepeatHint ==
  /\ Fault
  /\ \E h \in hints, n \in Names :
       /\ n \in {h.from, h.to}
       /\ Touched(n) \notin hints
       /\ hints' = hints \union {Touched(n)}
  /\ UNCHANGED <<disk, mounted, stored, seen, pass, reaping,
                 changes>>

(* The database is unreachable: the pass ends where it is.                 *)
PassAborts ==
  /\ Fault
  /\ pass # NoPass
  /\ pass' = NoPass
  /\ UNCHANGED <<disk, mounted, hints, stored, seen, reaping,
                 changes>>

(* The watcher process restarts; what happened meanwhile was not reported. *)
Restart ==
  /\ Fault
  /\ hints' = {}
  /\ seen' = Unseen
  /\ pass' = NoPass
  /\ UNCHANGED <<disk, mounted, stored, reaping, changes>>

-----------------------------------------------------------------------------
Next ==
  \/ HandleHint \/ WindowCloses \/ PassStep \/ ExtractFails
  \/ DeleteDocument \/ Purge \/ ReaperSelects \/ ReaperDeletes
  \/ Write \/ Unlink \/ Rename \/ Unmount \/ Mount
  \/ LoseHint \/ RepeatHint \/ PassAborts \/ Restart

Spec == Init /\ [][Next]_vars

(* Hints are delivered and handled, and passes recur: the periodic rescan, the
   catch-up pass after an outage, the retries of a pass that ended early.  *)
Fairness ==
  /\ WF_vars(HandleHint)
  /\ WF_vars(PassStep)

FairSpec == Spec /\ Fairness

-----------------------------------------------------------------------------
TypeOK ==
  /\ disk \in [Names -> File]
  /\ mounted \in BOOLEAN
  /\ hints \subseteq Hint
  /\ rows \in [Paths -> Row]
  /\ docs \in Seq(Document)
  /\ recent \in [Paths -> Nat]
  /\ \A p \in Paths : recent[p] # 0 => rows[p].status = "removed"
  /\ seen \in [Paths -> Nat]
  /\ pass \in Pass
  /\ reaping \subseteq DOMAIN docs
  /\ changes \in 0..MaxChanges
  /\ faults \in 0..MaxFaults

(* A document that no administrator deleted has exactly one row, and is in
   search exactly while that row is active: neither a phantom of a file that
   is gone nor a file that nobody can find, in whatever order the halves of a
   rename, the passes, the reaper and the purge meet.  visibility.py.      *)
RowsOf(d) == {p \in Paths : rows[p].doc = d}

DocumentsFollowRows ==
  \A d \in DOMAIN docs :
    /\ docs[d].status = "gone" <=> RowsOf(d) = {}
    /\ docs[d].status \in {"active", "removed"}
         => \E p \in Paths : RowsOf(d) = {p} /\ rows[p].status = docs[d].status

(* Nothing on disk, no pass and no reaper revives a document that an
   administrator deleted (_unhide_document, restore_document).             *)
DeletedStaysDeleted ==
  [][\A d \in DOMAIN docs :
       docs[d].status \in {"deleted", "gone"}
         => docs'[d].status \in {docs[d].status, "gone"}]_vars

(* A document leaves its path for another only when its file did: a copy, or a
   file put back since the hint or the pass's listing, keeps its document at
   its path (_adopt_recently_retired, _handle_moved, _pair_moves_while_down). *)
CopiesAreNotMoves ==
  [][\A p, q \in Paths :
       p # q /\ rows[p].doc # 0 /\ rows'[q].doc = rows[p].doc => ~There(p)]_vars

(* Once users are quiet and the folder is there, the index comes to agree with
   the disk, whatever was lost, repeated or reordered.  Left out: a folder
   with no file, from which a pass removes nothing, and a row whose document
   was purged.                                                             *)
Agree(p) ==
  IF rows[p].status # "none" /\ rows[p].doc = 0 THEN TRUE
  ELSE IF disk[p].stat = 0
    THEN rows[p].status = "active" => \A q \in Paths : disk[q].stat = 0
    ELSE disk[p].sha # Empty
           => rows[p].status = "active" /\ rows[p].sha = disk[p].sha

RowsFollowDisk == <>[](mounted => \A p \in Paths : Agree(p))
=============================================================================
