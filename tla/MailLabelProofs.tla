-------------------------- MODULE MailLabelProofs --------------------------
(***************************************************************************)
(* Proofs about MailLabel, for any labels, messages and bounds, with every *)
(* fault and every change the model has:                                   *)
(*   TypeCorrect      the type invariant;                                  *)
(*   CursorIsSound    CursorCoversRows;                                    *)
(*   NoGhosts         NoGhostDocuments.                                    *)
(* The type invariant is proved together with what the mailboxes keep, for *)
(* the highest UID of a listing must exist.                                *)
(***************************************************************************)
EXTENDS MailLabel, Extrema, FiniteSetTheorems, TLAPS

-----------------------------------------------------------------------------
(* Invariants *)

(* A UID is below UIDNEXT, and no UIDVALIDITY is 0, which stands for NULL.  *)
ServerSound ==
  \A l \in Labels : /\ validity[l] >= 1 /\ nextUid[l] >= 1
                    /\ \A m \in Messages : box[l][m] < nextUid[l]

TInv == TypeOK /\ ServerSound

(* A cursor and rows that go together: a cursor of the present epoch is below
   UIDNEXT, so what arrives is above it, and what it has passed has a row.  *)
Covers(l, c, rows) ==
  c.uidvalidity = validity[l] =>
    /\ c.last < nextUid[l]
    /\ \A m \in Messages : box[l][m] # 0 /\ box[l][m] <= c.last
                             => rows[m].status # "none"

(* No cursor is of an epoch to come.                                       *)
NotAhead(l, c) == c.uidvalidity <= validity[l]

(* A tick that has not updated a column still finds what it loaded in it, or
   what a rescan has put there since.                                      *)
NotOvertaken(l) ==
  /\ tick[l].pc = "sync" => tick[l].columns = {}
  /\ "uidvalidity" \notin tick[l].columns
       => cursor[l].uidvalidity \in {0, tick[l].cursor.uidvalidity}
  /\ "last" \notin tick[l].columns
       => cursor[l].last \in {0, tick[l].cursor.last}

CursorSound(l) ==
  /\ NotAhead(l, cursor[l])
  /\ Covers(l, cursor[l], row[l])
  /\ tick[l].pc # "idle" =>
       /\ NotAhead(l, tick[l].cursor)
       /\ Covers(l, tick[l].cursor, tick[l].rows)
       /\ NotOvertaken(l)

CInv == TInv /\ \A l \in Labels : CursorSound(l)

(* The documents: what a tick made are drafts of its own, what rows point to
   is committed or its own tick's draft, and whatever a tick is about to commit
   has a row.                                                              *)
Touched(t) == t.made \union t.deleted \union t.restored

Early == {"idle", "sync", "detect"}

Fits(t) ==
  /\ t.pc \in Early => Touched(t) = {} /\ t.todo = {}
  /\ \A d \in t.made : docs[d].status = "draft"
  /\ \A d \in Touched(t) : \E m \in Messages : t.rows[m].doc = d
  /\ \A m \in t.todo : t.rows[m].doc = 0
  /\ \A m \in Messages : t.rows[m].doc # 0
       => t.rows[m].doc \in t.made \/ Visible(t.rows[m].doc)

DraftsApart ==
  \A k, l \in Labels : k # l => tick[k].made \intersect tick[l].made = {}

RowsSound ==
  \A l \in Labels, m \in Messages : row[l][m].doc # 0 => Visible(row[l][m].doc)

DInv ==
  /\ TInv
  /\ \A l \in Labels : Fits(tick[l])
  /\ DraftsApart
  /\ RowsSound
  /\ \A d \in purging : Visible(d)
-----------------------------------------------------------------------------
(* Types *)

LEMMA ConstantsAreTyped ==
  /\ NoRow \in Row /\ NoDocument \in Document /\ NoCursor \in Cursor
  /\ Idle \in Tick
  /\ Dropped \in [Messages -> Row]
<1>1. NoRow \in Row /\ NoDocument \in Document /\ NoCursor \in Cursor
  BY DEF NoRow, Row, NoDocument, Document, NoCursor, Cursor
<1>2. [m \in Messages |-> NoRow] \in [Messages -> Row]
  BY <1>1
<1>3. Idle \in Tick
  BY <1>1, <1>2 DEF Idle, Tick
<1> QED
  BY <1>1, <1>2, <1>3 DEF Dropped

LEMMA RowMoves ==
  ASSUME NEW r \in Row
  PROVE  /\ \A s \in {"none", "active", "unlabeled"} : [r EXCEPT !.status = s] \in Row
         /\ \A d \in DocIds \union {0} : [r EXCEPT !.doc = d] \in Row
  BY DEF Row

LEMMA NewRowType ==
  ASSUME NEW uid \in Nat, NEW epoch \in Nat
  PROVE  /\ NewRow(uid, epoch) \in Row
         /\ NewRow(uid, epoch).status = "active"
         /\ NewRow(uid, epoch).doc = 0
  BY DEF NewRow, NoRow, Row

LEMMA DocumentMoves ==
  ASSUME NEW doc \in Document
  PROVE  /\ \A s \in {"none", "draft", "active", "deleted"} : WithStatus(doc, s) \in Document
         /\ [doc EXCEPT !.old = TRUE] \in Document
  BY DEF Document, WithStatus

LEMMA RecordedRow ==
  ASSUME NEW r \in Row, NEW uid \in Nat, NEW epoch \in Nat
  PROVE  /\ Recorded(r, uid, epoch) \in Row
         /\ Recorded(r, uid, epoch).status # "none"
         /\ Recorded(r, uid, epoch).doc \in {0, r.doc}
<1>1. CASE r.status = "none"
  BY <1>1, NewRowType DEF Recorded
<1>2. CASE r.status = "unlabeled"
  <2>1. Recorded(r, uid, epoch) = [r EXCEPT !.status = "active"]
    BY <1>2 DEF Recorded
  <2> QED
    BY <2>1 DEF Row
<1>3. CASE r.status = "active"
  <2>1. Recorded(r, uid, epoch) = r
    BY <1>3 DEF Recorded
  <2> QED
    BY <2>1, <1>3 DEF Row
<1> QED
  BY <1>1, <1>2, <1>3 DEF Row

(* A listing records what it sees and leaves no row it finds without one.   *)
LEMMA ListedRows ==
  ASSUME TypeOK, NEW l \in Labels, NEW rows \in [Messages -> Row], NEW from \in Nat
  PROVE  /\ Listed(l, rows, from) \in [Messages -> Row]
         /\ \A m \in Messages :
              /\ box[l][m] # 0 /\ box[l][m] >= from
                   => Listed(l, rows, from)[m].status # "none"
              /\ rows[m].status # "none" => Listed(l, rows, from)[m].status # "none"
              /\ Listed(l, rows, from)[m].doc \in {0, rows[m].doc}
<1>1. \A m \in Messages : box[l][m] \in Nat /\ validity[l] \in Nat
  BY DEF TypeOK
<1>2. \A m \in Messages : Listed(l, rows, from)[m]
        = IF box[l][m] >= from /\ box[l][m] # 0
          THEN Recorded(rows[m], box[l][m], validity[l]) ELSE rows[m]
  BY DEF Listed
<1>3. \A m \in Messages : rows[m] \in Row
  OBVIOUS
<1>4. \A m \in Messages : Listed(l, rows, from)[m] \in Row
  BY <1>1, <1>2, <1>3, RecordedRow
<1> QED
  BY <1>1, <1>2, <1>3, <1>4, RecordedRow DEF Listed

(* The cursor after a listing is at the highest of the UIDs it named.       *)
LEMMA UidsAreBounded ==
  ASSUME TInv, NEW l \in Labels
  PROVE  /\ Uids(l) \in SUBSET Nat
         /\ \A u \in Uids(l) : u < nextUid[l]
         /\ \A m \in Messages : box[l][m] # 0 => box[l][m] \in Uids(l)
  BY DEF TInv, TypeOK, ServerSound, Uids, Present

LEMMA CursorAfterType ==
  ASSUME TInv, NEW l \in Labels, NEW uids \in SUBSET Uids(l)
  PROVE  /\ CursorAfter(l, uids) \in Cursor
         /\ CursorAfter(l, uids).uidvalidity = validity[l]
         /\ \A u \in uids : u <= CursorAfter(l, uids).last
         /\ uids # {} => CursorAfter(l, uids).last \in uids
         /\ uids = {} => CursorAfter(l, uids).last = 0
<1>1. nextUid[l] \in Nat /\ validity[l] \in Nat
  BY DEF TInv, TypeOK
<1>2. uids \in SUBSET Nat /\ \A u \in uids : u <= nextUid[l]
  BY <1>1, UidsAreBounded
<1>3. CASE uids = {}
  BY <1>1, <1>3 DEF CursorAfter, Cursor
<1>4. CASE uids # {}
  <2>1. Max(uids) \in uids /\ \A u \in uids : u <= Max(uids)
    BY <1>1, <1>2, <1>4, MaxIsGreatest
  <2>2. CursorAfter(l, uids) = [uidvalidity |-> validity[l], last |-> Max(uids)]
    BY <1>4 DEF CursorAfter
  <2>3. Max(uids) \in Nat
    BY <1>2, <2>1
  <2>4. /\ CursorAfter(l, uids) \in Cursor
        /\ CursorAfter(l, uids).uidvalidity = validity[l]
        /\ CursorAfter(l, uids).last = Max(uids)
    BY <1>1, <2>2, <2>3 DEF Cursor
  <2> QED
    BY <1>4, <2>1, <2>4
<1> QED
  BY <1>3, <1>4

-----------------------------------------------------------------------------
(* What each step makes of the tick it takes *)

Synced(t, rows, c, columns) ==
  [t EXCEPT !.pc = "detect", !.rows = rows, !.cursor = c, !.columns = columns]

InitialMade(l) ==
  Synced(tick[l], Listed(l, tick[l].rows, 1), CursorAfter(l, Uids(l)),
         Changed(tick[l].cursor, CursorAfter(l, Uids(l))))

FoundAfter(l) == CursorAfter(l, Found(l, From(tick[l])))

IncrementalMade(l) ==
  Synced(tick[l], Listed(l, tick[l].rows, From(tick[l])), FoundAfter(l),
         Changed(tick[l].cursor, FoundAfter(l)))

StartOverMade(l, refused) ==
  Synced(tick[l], IF refused THEN Dropped ELSE Listed(l, Dropped, 1),
         IF refused THEN NoCursor ELSE CursorAfter(l, Uids(l)),
         {"uidvalidity", "last"})

LEMMA ColumnsAreTyped ==
  /\ \A c, d \in Cursor : Changed(c, d) \in SUBSET {"uidvalidity", "last"}
  /\ \A c, d \in Cursor : "uidvalidity" \in Changed(c, d) <=> c.uidvalidity # d.uidvalidity
  /\ \A c, d \in Cursor : "last" \in Changed(c, d) <=> c.last # d.last
  BY DEF Changed, Cursor

LEMMA TickMoves ==
  ASSUME NEW t \in Tick
  PROVE  /\ [t EXCEPT !.pc = "detect"] \in Tick
         /\ \A rows \in [Messages -> Row], c \in Cursor,
               columns \in SUBSET {"uidvalidity", "last"} :
              Synced(t, rows, c, columns) \in Tick
         /\ \A rows \in [Messages -> Row], todo \in SUBSET Messages :
              [t EXCEPT !.pc = "ingest", !.rows = rows, !.todo = todo] \in Tick
         /\ \A m \in Messages : [t EXCEPT !.todo = @ \ {m}] \in Tick
         /\ \A m \in Messages, d \in DocIds :
              /\ [t EXCEPT !.todo = @ \ {m}, !.rows[m].doc = d] \in Tick
              /\ [t EXCEPT !.todo = @ \ {m}, !.rows[m].doc = d,
                           !.made = @ \union {d}] \in Tick
         /\ \A deleted, restored \in SUBSET DocIds :
              [t EXCEPT !.pc = "commit", !.deleted = deleted, !.restored = restored] \in Tick
         /\ \A rows \in [Messages -> Row] : [t EXCEPT !.rows = rows] \in Tick
<1>1. [t EXCEPT !.pc = "detect"] \in Tick
  BY DEF Tick
<1>2. ASSUME NEW rows \in [Messages -> Row], NEW c \in Cursor,
             NEW columns \in SUBSET {"uidvalidity", "last"}
      PROVE  Synced(t, rows, c, columns) \in Tick
  BY DEF Tick, Synced
<1>3. ASSUME NEW rows \in [Messages -> Row], NEW todo \in SUBSET Messages
      PROVE  [t EXCEPT !.pc = "ingest", !.rows = rows, !.todo = todo] \in Tick
  BY DEF Tick
<1>4. \A m \in Messages : [t EXCEPT !.todo = @ \ {m}] \in Tick
  BY DEF Tick
<1>5. ASSUME NEW m \in Messages, NEW d \in DocIds
      PROVE  /\ [t EXCEPT !.todo = @ \ {m}, !.rows[m].doc = d] \in Tick
             /\ [t EXCEPT !.todo = @ \ {m}, !.rows[m].doc = d,
                          !.made = @ \union {d}] \in Tick
  <2>1. t.rows \in [Messages -> Row] /\ t.todo \ {m} \in SUBSET Messages
        /\ t.made \union {d} \in SUBSET DocIds
    BY DEF Tick
  <2>2. [t.rows[m] EXCEPT !.doc = d] \in Row
    BY <2>1, RowMoves
  <2>3. [t.rows EXCEPT ![m].doc = d] \in [Messages -> Row]
    BY <2>1, <2>2
  <2> QED
    BY <2>1, <2>3 DEF Tick
<1>6. ASSUME NEW deleted \in SUBSET DocIds, NEW restored \in SUBSET DocIds
      PROVE  [t EXCEPT !.pc = "commit", !.deleted = deleted, !.restored = restored] \in Tick
  BY DEF Tick
<1>7. \A rows \in [Messages -> Row] : [t EXCEPT !.rows = rows] \in Tick
  BY DEF Tick
<1> QED
  BY <1>1, <1>2, <1>3, <1>4, <1>5, <1>6, <1>7

LEMMA SyncMakes ==
  ASSUME TypeOK, NEW l \in Labels, NEW refused \in BOOLEAN
  PROVE  /\ Initial(l) => tick' = [tick EXCEPT ![l] = InitialMade(l)]
         /\ Incremental(l) =>
              \/ tick' = [tick EXCEPT ![l] = [tick[l] EXCEPT !.pc = "detect"]]
              \/ /\ Found(l, From(tick[l])) # {}
                 /\ tick' = [tick EXCEPT ![l] = IncrementalMade(l)]
         /\ StartOver(l, refused) =>
              tick' = [tick EXCEPT ![l] = StartOverMade(l, refused)]
  BY DEF Initial, Incremental, StartOver, InitialMade, IncrementalMade, FoundAfter,
         StartOverMade, Synced, TypeOK, Tick

Ingesting(l, rows) ==
  [tick[l] EXCEPT !.pc = "ingest", !.rows = rows, !.todo = Pending(rows)]

LinkMade(l, m, d) == [tick[l] EXCEPT !.todo = @ \ {m}, !.rows[m].doc = d]

CreationMade(l, m, d) ==
  [tick[l] EXCEPT !.todo = @ \ {m}, !.rows[m].doc = d, !.made = @ \union {d}]

LifecycleMade(l) ==
  [tick[l] EXCEPT !.pc = "commit",
                  !.deleted = {d \in Gone(l) \ Back(l) : ~IsDeleted(d)},
                  !.restored = {d \in Back(l) : IsDeleted(d) \/ d \in Gone(l)}]

LEMMA IngestMakes ==
  ASSUME TypeOK, NEW l \in Labels, NEW m \in Messages
  PROVE  /\ \A rows \in [Messages -> Row] :
              ToIngest(l, rows) => tick' = [tick EXCEPT ![l] = Ingesting(l, rows)]
         /\ Links(l, m) => \E d \in SameBytes(l, Fetched(l, m)) :
              tick' = [tick EXCEPT ![l] = LinkMade(l, m, d)]
         /\ Creates(l, m) => tick' = [tick EXCEPT ![l] = CreationMade(l, m, Min(Unused))]
         /\ Lifecycle(l) => tick' = [tick EXCEPT ![l] = LifecycleMade(l)]
<1>1. \A rows \in [Messages -> Row] :
        ToIngest(l, rows) => tick' = [tick EXCEPT ![l] = Ingesting(l, rows)]
  BY DEF ToIngest, Ingesting, TypeOK, Tick
<1>2. Links(l, m) => \E d \in SameBytes(l, Fetched(l, m)) :
        tick' = [tick EXCEPT ![l] = LinkMade(l, m, d)]
  <2> SUFFICES ASSUME NEW d \in SameBytes(l, Fetched(l, m)),
                      tick' = [tick EXCEPT ![l].todo = @ \ {m}, ![l].rows[m].doc = d]
               PROVE  tick' = [tick EXCEPT ![l] = LinkMade(l, m, d)]
    BY DEF Links
  <2> QED
    BY DEF LinkMade, TypeOK, Tick
<1>3. Creates(l, m) => tick' = [tick EXCEPT ![l] = CreationMade(l, m, Min(Unused))]
  BY DEF Creates, CreationMade, TypeOK, Tick
<1>4. Lifecycle(l) => tick' = [tick EXCEPT ![l] = LifecycleMade(l)]
  BY DEF Lifecycle, LifecycleMade, TypeOK, Tick
<1> QED
  BY <1>1, <1>2, <1>3, <1>4

-----------------------------------------------------------------------------
(* The type invariant *)

LEMMA NumberingsAreTyped ==
  ASSUME NEW present \in SUBSET Messages
  PROVE  /\ Cardinality(present) \in Nat
         /\ \A f \in Numberings(present) :
              /\ f \in [Messages -> Nat]
              /\ \A m \in Messages : f[m] < Cardinality(present) + 1
<1>1. Cardinality(present) \in Nat
  BY BoundsAssumption, FS_Subset, FS_CardinalityType
<1>2. \A i \in 0..Cardinality(present) : i \in Nat /\ i < Cardinality(present) + 1
  BY <1>1
<1> QED
  BY <1>1, <1>2 DEF Numberings

LEMMA InitType == Init => TInv
<1> SUFFICES ASSUME Init PROVE TInv
  OBVIOUS
<1>1. \A l \in Labels : Initially[l] \in SUBSET Messages
  BY BoundsAssumption
<1>2. \A l \in Labels :
        /\ Cardinality(Initially[l]) \in Nat
        /\ box[l] \in [Messages -> Nat]
        /\ \A m \in Messages : box[l][m] < nextUid[l]
  BY <1>1, NumberingsAreTyped DEF Init
<1>3. box \in [Labels -> [Messages -> Nat]]
  BY <1>2 DEF Init
<1>4. nextUid \in [Labels -> Nat] /\ validity \in [Labels -> Nat]
  BY <1>2 DEF Init
<1>5. /\ cursor \in [Labels -> Cursor]
      /\ row \in [Labels -> [Messages -> Row]]
      /\ docs \in [DocIds -> Document]
      /\ tick \in [Labels -> Tick]
  BY ConstantsAreTyped DEF Init
<1>6. changes \in 0..MaxChanges /\ faults \in 0..MaxFaults
  BY BoundsAssumption DEF Init
<1>7. ServerSound
  BY <1>2 DEF Init, ServerSound
<1> QED
  BY <1>3, <1>4, <1>5, <1>6, <1>7 DEF TInv, TypeOK, Init

(* The step of one tick puts another there.                                *)
LEMMA TickPut ==
  ASSUME TypeOK, NEW l \in Labels, NEW t \in Tick, tick' = [tick EXCEPT ![l] = t]
  PROVE  /\ tick' \in [Labels -> Tick]
         /\ tick'[l] = t
         /\ \A k \in Labels : k # l => tick'[k] = tick[k]
  BY DEF TypeOK

(* What an idle label's tick and one under way are made of.                 *)
LEMMA TickType ==
  ASSUME TypeOK, NEW l \in Labels
  PROVE  /\ tick[l] \in Tick
         /\ tick[l].cursor \in Cursor
         /\ tick[l].columns \in SUBSET {"uidvalidity", "last"}
         /\ tick[l].rows \in [Messages -> Row]
         /\ tick[l].todo \in SUBSET Messages
         /\ tick[l].made \in SUBSET DocIds
         /\ tick[l].deleted \in SUBSET DocIds
         /\ tick[l].restored \in SUBSET DocIds
         /\ cursor[l] \in Cursor
         /\ row[l] \in [Messages -> Row]
         /\ validity[l] \in Nat /\ nextUid[l] \in Nat
         /\ box[l] \in [Messages -> Nat]
  BY DEF TypeOK, Tick

LEMMA FromType == ASSUME TypeOK, NEW l \in Labels PROVE From(tick[l]) \in Nat
  BY TickType DEF From, Cursor

LEMMA FoundIsListed == \A l \in Labels, n \in Nat : Found(l, n) \in SUBSET Uids(l)
  BY DEF Found

LEMMA SyncMadeType ==
  ASSUME TInv, NEW l \in Labels, NEW refused \in BOOLEAN
  PROVE  /\ InitialMade(l) \in Tick
         /\ IncrementalMade(l) \in Tick
         /\ StartOverMade(l, refused) \in Tick
<1> USE DEF TInv
<1>1. /\ CursorAfter(l, Uids(l)) \in Cursor /\ FoundAfter(l) \in Cursor
      /\ NoCursor \in Cursor
  BY CursorAfterType, FoundIsListed, FromType, ConstantsAreTyped DEF FoundAfter
<1>2. /\ Listed(l, tick[l].rows, 1) \in [Messages -> Row]
      /\ Listed(l, tick[l].rows, From(tick[l])) \in [Messages -> Row]
      /\ Listed(l, Dropped, 1) \in [Messages -> Row]
      /\ Dropped \in [Messages -> Row]
  BY ListedRows, TickType, FromType, ConstantsAreTyped
<1>3. InitialMade(l) \in Tick
  BY <1>1, <1>2, TickType, TickMoves, ColumnsAreTyped DEF InitialMade
<1>4. IncrementalMade(l) \in Tick
  BY <1>1, <1>2, TickType, TickMoves, ColumnsAreTyped DEF IncrementalMade
<1>5. StartOverMade(l, refused) \in Tick
  BY <1>1, <1>2, TickType, TickMoves DEF StartOverMade
<1> QED
  BY <1>3, <1>4, <1>5

LEMMA UnlabeledRows ==
  ASSUME TypeOK, NEW l \in Labels
  PROVE  /\ Unlabeled(l, tick[l].rows) \in [Messages -> Row]
         /\ \A m \in Messages :
              /\ Unlabeled(l, tick[l].rows)[m].doc = tick[l].rows[m].doc
              /\ tick[l].rows[m].status # "none"
                   => Unlabeled(l, tick[l].rows)[m].status # "none"
<1> DEFINE rows == tick[l].rows
<1>1. \A m \in Messages : rows[m] \in Row
  BY TickType
<1>2. \A m \in Messages :
        Unlabeled(l, rows)[m] \in {rows[m], [rows[m] EXCEPT !.status = "unlabeled"]}
  BY DEF Unlabeled
<1>3. \A m \in Messages :
        LET r == [rows[m] EXCEPT !.status = "unlabeled"]
        IN  r \in Row /\ r.doc = rows[m].doc /\ r.status # "none"
  BY <1>1 DEF Row
<1> QED
  BY <1>1, <1>2, <1>3 DEF Unlabeled

LEMMA UnlinkedRows ==
  ASSUME NEW rows \in [Messages -> Row]
  PROVE  /\ Unlinked(rows) \in [Messages -> Row]
         /\ \A m \in Messages :
              /\ Unlinked(rows)[m].status = rows[m].status
              /\ rows[m].doc \notin purging => Unlinked(rows)[m] = rows[m]
              /\ rows[m].doc \in purging => Unlinked(rows)[m].doc = 0
<1>1. \A m \in Messages :
        LET r == [rows[m] EXCEPT !.doc = 0]
        IN  r \in Row /\ r.doc = 0 /\ r.status = rows[m].status
  BY DEF Row
<1> QED
  BY <1>1 DEF Unlinked

LEMMA UnusedLeast == Unused # {} => Min(Unused) \in DocIds /\ docs[Min(Unused)].status = "none"
<1>1. Unused \in SUBSET Nat
  BY BoundsAssumption DEF Unused, DocIds
<1> QED
  BY <1>1, MinIsLeast DEF Unused

LEMMA FetchedType ==
  ASSUME NEW l \in Labels, NEW m \in Messages
  PROVE  Fetched(l, m) \in Messages \union {NoMessage}
<1> DEFINE at == {f \in Present(l) : box[l][f] = tick[l].rows[m].uid}
<1>1. CASE at = {}
  BY <1>1 DEF Fetched
<1>2. CASE at # {}
  <2>1. Fetched(l, m) = CHOOSE f \in at : TRUE
    BY <1>2 DEF Fetched
  <2>2. (CHOOSE f \in at : TRUE) \in at
    BY <1>2
  <2> QED
    BY <2>1, <2>2 DEF Present
<1> QED
  BY <1>1, <1>2

(* What a message can be linked to is the document of some row.             *)
LEMMA SameBytesAreLinked ==
  ASSUME TypeOK, NEW l \in Labels, NEW f, NEW d \in SameBytes(l, f)
  PROVE  /\ d \in DocIds /\ d # 0
         /\ \/ \E m \in Messages : tick[l].rows[m].doc = d
            \/ \E k \in Labels, m \in Messages : row[k][m].doc = d
<1>1. PICK r \in RowsSeen(l) : r.doc = d /\ d # 0
  BY DEF SameBytes, Linked
<1>2. \/ \E m \in Messages : tick[l].rows[m] = r
      \/ \E k \in Labels, m \in Messages : row[k][m] = r
  BY <1>1 DEF RowsSeen
<1>3. r \in Row
  BY <1>2, TickType
<1> QED
  BY <1>1, <1>2, <1>3 DEF Row

LEMMA PendingType ==
  ASSUME NEW rows
  PROVE  Pending(rows) \in SUBSET Messages
  BY DEF Pending

LEMMA LifecycleSets ==
  ASSUME TypeOK, NEW l \in Labels
  PROVE  /\ Gone(l) \in SUBSET DocIds /\ Back(l) \in SUBSET DocIds
         /\ \A d \in Gone(l) \union Back(l) : \E m \in Messages : tick[l].rows[m].doc = d
<1>1. \A m \in Messages : tick[l].rows[m].doc \in DocIds \union {0}
  BY TickType DEF Row
<1> QED
  BY <1>1 DEF Gone, Back, PointedTo

LEMMA DiscardedType ==
  ASSUME TypeOK, NEW l \in Labels, Discarded(l)
  PROVE  tick' \in [Labels -> Tick] /\ docs' \in [DocIds -> Document]
  BY ConstantsAreTyped DEF Discarded, TypeOK

LEMMA CountersAreBounded ==
  ASSUME TypeOK
  PROVE  /\ Change => changes' \in 0..MaxChanges
         /\ Fault => faults' \in 0..MaxFaults
  BY BoundsAssumption DEF TypeOK, Change, Fault

LEMMA StepType == TInv /\ [Next]_vars => TInv'
<1> SUFFICES ASSUME TInv, [Next]_vars PROVE TInv'
  OBVIOUS
<1> USE DEF TInv
<1>1. ASSUME NEW l \in Labels, Begin(l) PROVE TInv'
  <2>1. [Idle EXCEPT !.pc = "sync", !.cursor = cursor[l], !.rows = row[l]] \in Tick
    BY ConstantsAreTyped, TickType DEF Tick
  <2>2. tick' \in [Labels -> Tick]
    BY <1>1, <2>1 DEF Begin, TypeOK
  <2> QED
    BY <1>1, <2>2 DEF Begin, TypeOK, ServerSound, server, stored
<1>2. ASSUME NEW l \in Labels, Sync(l) PROVE TInv'
  <2>1. [tick[l] EXCEPT !.pc = "detect"] \in Tick
    BY TickType, TickMoves
  <2>2. tick' \in [Labels -> Tick]
    BY <1>2, <2>1, SyncMakes, SyncMadeType, TickPut DEF Sync
  <2> QED
    BY <1>2, <2>2 DEF Sync, TypeOK, ServerSound, server, stored
<1>3. ASSUME NEW l \in Labels, Refused(l) PROVE TInv'
  <2>1. [tick[l] EXCEPT !.pc = "detect"] \in Tick
    BY TickType, TickMoves
  <2>2. tick' \in [Labels -> Tick]
    <3>1. CASE StartOver(l, TRUE)
      BY <3>1, SyncMakes, SyncMadeType, TickPut
    <3>2. CASE tick' = [tick EXCEPT ![l].pc = "detect"]
      BY <2>1, <3>2 DEF TypeOK
    <3> QED
      BY <1>3, <3>1, <3>2 DEF Refused
  <2> QED
    BY <1>3, <2>2, CountersAreBounded DEF Refused, TypeOK, ServerSound, server, stored
<1>4. ASSUME NEW l \in Labels, NEW rows \in [Messages -> Row], ToIngest(l, rows)
      PROVE  tick' \in [Labels -> Tick]
  <2>1. Ingesting(l, rows) \in Tick
    BY TickType, TickMoves, PendingType DEF Ingesting
  <2> QED
    BY <1>4, <2>1, IngestMakes DEF TypeOK, ToIngest, Ingesting, Tick
<1>5. ASSUME NEW l \in Labels, Detect(l) PROVE TInv'
  <2>1. tick' \in [Labels -> Tick]
    BY <1>4, <1>5, UnlabeledRows DEF Detect
  <2> QED
    BY <1>5, <2>1 DEF Detect, TypeOK, ServerSound, server, stored
<1>6. ASSUME NEW l \in Labels, DetectRefused(l) PROVE TInv'
  <2>1. tick' \in [Labels -> Tick]
    BY <1>4, <1>6, TickType DEF DetectRefused
  <2> QED
    BY <1>6, <2>1, CountersAreBounded DEF DetectRefused, TypeOK, ServerSound, server, stored
<1>7. ASSUME NEW l \in Labels, NEW m \in Messages, Ingest(l, m) PROVE TInv'
  <2>1. tick' \in [Labels -> Tick] /\ docs' \in [DocIds -> Document]
    <3>1. CASE Links(l, m)
      <4>1. \A d \in SameBytes(l, Fetched(l, m)) : LinkMade(l, m, d) \in Tick
        BY SameBytesAreLinked, TickType, TickMoves DEF LinkMade
      <4>2. docs' = docs
        BY <3>1 DEF Links
      <4> QED
        BY <3>1, <4>1, <4>2, IngestMakes, TickPut DEF TypeOK
    <3>2. CASE Creates(l, m)
      <4>1. Min(Unused) \in DocIds
        BY <3>2, UnusedLeast DEF Creates
      <4>2. CreationMade(l, m, Min(Unused)) \in Tick
        BY <4>1, TickType, TickMoves DEF CreationMade
      <4>3. NewDocument(Fetched(l, m)) \in Document
        BY FetchedType DEF NewDocument, NoDocument, Document
      <4>4. docs' \in [DocIds -> Document]
        BY <3>2, <4>1, <4>3 DEF TypeOK, Creates
      <4> QED
        BY <3>2, <4>2, <4>4, IngestMakes, TickPut
    <3> QED
      BY <1>7, <3>1, <3>2 DEF Ingest
  <2> QED
    BY <1>7, <2>1 DEF Ingest, TypeOK, ServerSound, server
<1>8. ASSUME NEW l \in Labels, NEW m \in Messages, IngestFails(l, m) PROVE TInv'
  <2>1. [tick[l] EXCEPT !.todo = @ \ {m}] \in Tick
    BY TickType, TickMoves
  <2>2. tick' \in [Labels -> Tick] /\ docs' = docs
    BY <1>8, <2>1 DEF IngestFails, RolledBack, TypeOK
  <2> QED
    BY <1>8, <2>2, CountersAreBounded DEF IngestFails, TypeOK, ServerSound, server
<1>9. ASSUME NEW l \in Labels, Lifecycle(l) PROVE TInv'
  <2>1. LifecycleMade(l) \in Tick
    BY TickType, TickMoves, LifecycleSets DEF LifecycleMade
  <2>2. tick' = [tick EXCEPT ![l] = LifecycleMade(l)]
    BY <1>9 DEF Lifecycle, LifecycleMade, TypeOK, Tick
  <2>3. tick' \in [Labels -> Tick]
    BY <2>1, <2>2, TickPut
  <2> QED
    BY <1>9, <2>3 DEF Lifecycle, TypeOK, ServerSound, server, stored
<1>10. ASSUME NEW l \in Labels, Commit(l) PROVE TInv'
  <2>1. CommittedCursor(tick[l], cursor[l]) \in Cursor
    BY TickType DEF CommittedCursor, Cursor
  <2>2. \A d \in DocIds : WithStatus(docs[d], StatusAfter(tick[l], d)) \in Document
    <3>1. \A d \in DocIds : docs[d] \in Document
      BY DEF TypeOK
    <3>2. \A d \in DocIds : StatusAfter(tick[l], d) \in {"none", "draft", "active", "deleted"}
      BY <3>1 DEF StatusAfter, Document
    <3> QED
      BY <3>1, <3>2, DocumentMoves
  <2>3. docs' \in [DocIds -> Document]
    BY <1>10, <2>2 DEF Commit
  <2>4. cursor' \in [Labels -> Cursor] /\ row' \in [Labels -> [Messages -> Row]]
        /\ tick' \in [Labels -> Tick]
    BY <1>10, <2>1, TickType, ConstantsAreTyped DEF Commit, TypeOK
  <2> QED
    BY <1>10, <2>3, <2>4 DEF Commit, TypeOK, ServerSound, server
<1>11. ASSUME NEW l \in Labels, TickFails(l) PROVE TInv'
  BY <1>11, DiscardedType, CountersAreBounded DEF TickFails, TypeOK, ServerSound, server
<1>12. ASSUME NEW l \in Labels, NEW m \in Messages, Arrive(l, m) PROVE TInv'
  <2>1. /\ nextUid' \in [Labels -> Nat]
        /\ box' \in [Labels -> [Messages -> Nat]]
        /\ ServerSound'
    BY <1>12 DEF Arrive, TypeOK, ServerSound
  <2> QED
    BY <1>12, <2>1, CountersAreBounded DEF Arrive, TypeOK, stored
<1>13. ASSUME NEW l \in Labels, NEW m \in Messages, Leave(l, m) PROVE TInv'
  <2>1. /\ box' \in [Labels -> [Messages -> Nat]]
        /\ ServerSound'
    BY <1>13 DEF Leave, TypeOK, ServerSound
  <2> QED
    BY <1>13, <2>1, CountersAreBounded DEF Leave, TypeOK, stored
<1>14. ASSUME NEW l \in Labels, Renumber(l) PROVE TInv'
  <2>1. PICK f \in Numberings(Present(l)) : box' = [box EXCEPT ![l] = f]
    BY <1>14 DEF Renumber
  <2>2. /\ Cardinality(Present(l)) \in Nat
        /\ f \in [Messages -> Nat]
        /\ \A m \in Messages : f[m] < Cardinality(Present(l)) + 1
    BY NumberingsAreTyped DEF Present
  <2>3. /\ box' \in [Labels -> [Messages -> Nat]]
        /\ validity' \in [Labels -> Nat]
        /\ nextUid' \in [Labels -> Nat]
    BY <1>14, <2>1, <2>2 DEF Renumber, TypeOK
  <2>4. ServerSound'
    BY <1>14, <2>1, <2>2 DEF Renumber, TypeOK, ServerSound
  <2> QED
    BY <1>14, <2>3, <2>4, CountersAreBounded DEF Renumber, TypeOK, stored
<1>15. ASSUME NEW l \in Labels, Rescan(l) PROVE TInv'
  BY <1>15, ConstantsAreTyped, CountersAreBounded DEF Rescan, TypeOK, ServerSound, server
<1>16. ASSUME NEW l \in Labels, Unwatch(l) PROVE TInv'
  BY <1>16, ConstantsAreTyped, DiscardedType, CountersAreBounded
  DEF Unwatch, TypeOK, ServerSound, server
<1>17. ASSUME NEW l \in Labels, Watch(l) PROVE TInv'
  BY <1>17, CountersAreBounded DEF Watch, TypeOK, ServerSound, server
<1>18. ASSUME NEW d \in DocIds, DeleteDocument(d) PROVE TInv'
  <2>1. docs' \in [DocIds -> Document]
    BY <1>18, DocumentMoves DEF DeleteDocument, TypeOK
  <2> QED
    BY <1>18, <2>1, CountersAreBounded DEF DeleteDocument, TypeOK, ServerSound, server
<1>19. CASE SelectExpired
  BY <1>19 DEF SelectExpired, TypeOK, ServerSound, server, stored
<1>20. CASE Purge
  <2>1. \A l \in Labels : [tick[l] EXCEPT !.rows = Unlinked(@)] \in Tick
    BY TickType, UnlinkedRows, TickMoves
  <2>2. tick' \in [Labels -> Tick] /\ row' \in [Labels -> [Messages -> Row]]
    BY <1>20, <2>1, TickType, UnlinkedRows DEF Purge
  <2>3. docs' \in [DocIds -> Document]
    BY <1>20, ConstantsAreTyped DEF Purge, TypeOK
  <2> QED
    BY <1>20, <2>2, <2>3 DEF Purge, TypeOK, ServerSound, server
<1>21. CASE SixtyDays
  <2>1. docs' \in [DocIds -> Document]
    BY <1>21, DocumentMoves DEF SixtyDays, TypeOK
  <2> QED
    BY <1>21, <2>1, CountersAreBounded DEF SixtyDays, TypeOK, ServerSound, server
<1>22. CASE UNCHANGED vars
  BY <1>22 DEF vars, server, stored, TypeOK, ServerSound
<1> QED
  BY <1>1, <1>2, <1>3, <1>5, <1>6, <1>7, <1>8, <1>9, <1>10, <1>11, <1>12, <1>13,
     <1>14, <1>15, <1>16, <1>17, <1>18, <1>19, <1>20, <1>21, <1>22
  DEF Next, TickStep, FaultStep, ServerStep, AdminStep

(* The variables hold what the columns and the transactions of the mail tables
   hold, after any step.                                                   *)
THEOREM TypeCorrect == Spec => []TypeOK
<1>1. TInv => TypeOK
  BY DEF TInv
<1> QED
  BY <1>1, InitType, StepType, PTL DEF Spec

-----------------------------------------------------------------------------
(* The documents *)

LEMMA IdleHasNothing ==
  /\ Idle.pc = "idle" /\ Touched(Idle) = {} /\ Idle.made = {} /\ Idle.todo = {}
  /\ \A m \in Messages : Idle.rows[m].doc = 0
  BY DEF Idle, Touched, NoRow

LEMMA InitDocuments == Init => DInv
<1> SUFFICES ASSUME Init PROVE DInv
  OBVIOUS
<1>1. \A l \in Labels : tick[l] = Idle
  BY DEF Init
<1>2. Fits(Idle)
  BY IdleHasNothing DEF Fits
<1>3. RowsSound
  BY DEF Init, RowsSound, NoRow
<1>4. DraftsApart
  BY <1>1, IdleHasNothing DEF DraftsApart
<1> QED
  BY <1>1, <1>2, <1>3, <1>4, InitType DEF DInv, Init

LEMMA RowsStill ==
  ASSUME TypeOK, RowsSound, UNCHANGED row,
         \A d \in DocIds : Visible(d) => Visible(d)'
  PROVE  RowsSound'
<1>1. \A l \in Labels, m \in Messages : row[l][m].doc \in DocIds \union {0}
  BY DEF TypeOK, Row
<1> QED
  BY <1>1 DEF RowsSound

(* A step of one tick that changes no document and makes no draft.          *)
LEMMA TickPutFits ==
  ASSUME DInv, TInv', NEW l \in Labels, NEW t, tick' = [tick EXCEPT ![l] = t],
         t.made = tick[l].made, Fits(t), UNCHANGED <<docs, row, purging>>
  PROVE  DInv'
<1>1. TypeOK
  BY DEF DInv, TInv
<1>2. /\ tick'[l] = t
      /\ \A k \in Labels : tick'[k].made = tick[k].made
      /\ \A k \in Labels : k # l => tick'[k] = tick[k]
  BY <1>1 DEF TypeOK
<1>3. \A k \in Labels : Fits(tick[k])'
  BY <1>2 DEF DInv, Fits, Visible
<1>4. DraftsApart'
  BY <1>2 DEF DInv, DraftsApart
<1>5. RowsSound' /\ (\A d \in purging : Visible(d))'
  BY DEF DInv, RowsSound, Visible
<1> QED
  BY <1>3, <1>4, <1>5 DEF DInv

LEMMA StatusWritten ==
  ASSUME NEW doc \in Document, NEW s
  PROVE  WithStatus(doc, s).status = s
  BY DEF WithStatus, Document

(* The rollback drops the tick's own drafts, which nobody else points to.    *)
LEMMA DiscardedFits ==
  ASSUME DInv, TInv', NEW l \in Labels, Discarded(l), UNCHANGED purging,
         \A k \in Labels, m \in Messages : row'[k][m].doc \in {0, row[k][m].doc}
  PROVE  /\ DInv'
         /\ \A d \in DocIds : Visible(d)' => Visible(d)
<1>1. TInv /\ TypeOK
  BY DEF DInv, TInv
<1>2. /\ tick'[l] = Idle
      /\ \A k \in Labels : k # l => tick'[k] = tick[k]
  BY <1>1 DEF Discarded, TypeOK
<1>3. \A d \in tick[l].made : docs[d].status = "draft"
  BY DEF DInv, Fits
<1>4. \A d \in DocIds : /\ d \in tick[l].made => docs'[d].status = "none"
                        /\ d \notin tick[l].made => docs'[d] = docs[d]
  BY DEF Discarded, NoDocument
<1>5. \A d \in DocIds : Visible(d) => Visible(d)'
  BY <1>3, <1>4 DEF Visible
<1>6. \A k \in Labels : Fits(tick[k])'
  <2> SUFFICES ASSUME NEW k \in Labels PROVE Fits(tick[k])'
    OBVIOUS
  <2>1. CASE k = l
    BY <1>2, <2>1, IdleHasNothing DEF Fits
  <2>2. CASE k # l
    <3>1. /\ tick[k] \in Tick /\ Fits(tick[k]) /\ tick'[k] = tick[k]
          /\ tick[k].made \in SUBSET DocIds
      BY <1>1, <1>2, <2>2, TickType DEF DInv
    <3>2. tick[k].made \intersect tick[l].made = {}
      BY <2>2 DEF DInv, DraftsApart
    <3>3. \A d \in tick[k].made : docs'[d].status = "draft"
      BY <1>4, <3>1, <3>2 DEF Fits
    <3>4. \A m \in Messages : tick[k].rows[m].doc \in DocIds \union {0}
      BY <3>1 DEF Tick, Row
    <3> QED
      BY <1>5, <3>1, <3>3, <3>4 DEF Fits
  <2> QED
    BY <2>1, <2>2
<1>7. DraftsApart'
  BY <1>2 DEF DInv, DraftsApart, Idle
<1>8. RowsSound'
  <2>1. \A k \in Labels, m \in Messages : row[k][m].doc \in DocIds \union {0}
    BY <1>1 DEF TypeOK, Row
  <2> QED
    BY <1>5, <2>1 DEF DInv, RowsSound
<1>9. \A d \in purging' : Visible(d)'
  <2>1. purging' = purging /\ purging \subseteq DocIds
    BY <1>1 DEF TypeOK
  <2>2. \A d \in purging : Visible(d)
    BY DEF DInv
  <2> QED
    BY <1>5, <2>1, <2>2 DEF Visible
<1>10. \A d \in DocIds : Visible(d)' => Visible(d)
  BY <1>4 DEF Visible
<1> QED
  BY <1>6, <1>7, <1>8, <1>9, <1>10 DEF DInv

LEMMA StatusAfterCommit ==
  ASSUME TypeOK, NEW l \in Labels, Commit(l), NEW d \in DocIds
  PROVE  docs'[d].status = StatusAfter(tick[l], d)
<1>1. docs[d] \in Document
  BY DEF TypeOK
<1> QED
  BY <1>1, StatusWritten DEF Commit

(* The commit: what it makes visible has one of the committed rows.         *)
LEMMA CommitFits ==
  ASSUME DInv, TInv', NEW l \in Labels, Commit(l)
  PROVE  /\ DInv'
         /\ \A d \in DocIds : Visible(d)' /\ ~Visible(d)
              => \E m \in Messages : row'[l][m].doc = d
<1> DEFINE t == tick[l]
<1>1. TypeOK /\ Fits(t) /\ t \in Tick
  BY TickType DEF DInv, TInv
<1>2. /\ tick'[l] = Idle /\ row'[l] = t.rows /\ purging' = purging
      /\ \A k \in Labels : k # l => tick'[k] = tick[k] /\ row'[k] = row[k]
  BY <1>1 DEF Commit, TypeOK
<1>3. \A d \in DocIds : docs'[d].status = StatusAfter(t, d)
  BY <1>1, StatusAfterCommit
<1> HIDE DEF t
<1>4. /\ \A d \in DocIds : Visible(d) \/ d \in Touched(t) => Visible(d)'
      /\ \A d \in DocIds : d \notin Touched(t) => docs'[d].status = docs[d].status
  BY <1>3 DEF StatusAfter, Visible, Touched
<1>5. \A m \in Messages : t.rows[m].doc \in DocIds \union {0}
  BY <1>1 DEF Tick, Row
<1>6. \A k \in Labels : Fits(tick[k])'
  <2> SUFFICES ASSUME NEW k \in Labels PROVE Fits(tick[k])'
    OBVIOUS
  <2>1. CASE k = l
    BY <1>2, <2>1, IdleHasNothing DEF Fits
  <2>2. CASE k # l
    <3>1. /\ tick[k] \in Tick /\ Fits(tick[k]) /\ tick'[k] = tick[k]
          /\ tick[k].made \in SUBSET DocIds
      BY <1>1, <1>2, <2>2, TickType DEF DInv
    <3>2. \A d \in tick[k].made : d \notin t.made
      BY <2>2 DEF DInv, DraftsApart, t
    <3>3. ASSUME NEW d \in tick[k].made PROVE d \notin Touched(t)
      <4>1. docs[d].status = "draft" /\ d \in DocIds /\ d \notin t.made
        BY <3>1, <3>2 DEF Fits
      <4>2. SUFFICES ASSUME d \in Touched(t) PROVE FALSE
        OBVIOUS
      <4>3. PICK m \in Messages : t.rows[m].doc = d
        BY <1>1, <4>2 DEF Fits
      <4>4. d # 0
        BY <4>1, BoundsAssumption DEF DocIds
      <4>5. Visible(d)
        BY <1>1, <4>1, <4>3, <4>4 DEF Fits
      <4> QED
        BY <4>1, <4>5 DEF Visible
    <3>4. \A d \in tick[k].made : docs'[d].status = "draft"
      BY <1>4, <3>1, <3>3 DEF Fits
    <3>5. \A m \in Messages : tick[k].rows[m].doc \in DocIds \union {0}
      BY <3>1 DEF Tick, Row
    <3> QED
      BY <1>4, <3>1, <3>4, <3>5 DEF Fits
  <2> QED
    BY <2>1, <2>2
<1>7. DraftsApart'
  BY <1>2, IdleHasNothing DEF DInv, DraftsApart
<1>8. RowsSound'
  <2> SUFFICES ASSUME NEW k \in Labels, NEW m \in Messages, row'[k][m].doc # 0
               PROVE  docs'[row'[k][m].doc].status \in {"active", "deleted"}
    BY DEF RowsSound, Visible
  <2>1. CASE k = l
    <3>1. row'[k][m] = t.rows[m] /\ t.rows[m].doc \in DocIds
      BY <1>2, <1>5, <2>1
    <3>2. t.rows[m].doc \in t.made \/ Visible(t.rows[m].doc)
      BY <1>1, <2>1, <3>1 DEF Fits
    <3> QED
      BY <1>4, <3>1, <3>2 DEF Touched, Visible
  <2>2. CASE k # l
    <3>1. row'[k][m] = row[k][m] /\ row[k][m].doc \in DocIds \union {0}
      BY <1>1, <1>2, <2>2 DEF TypeOK, Row
    <3>2. Visible(row[k][m].doc)
      BY <3>1 DEF DInv, RowsSound
    <3> QED
      BY <1>4, <3>1, <3>2 DEF Visible
  <2> QED
    BY <2>1, <2>2
<1>9. \A d \in purging' : Visible(d)'
  <2>1. purging \subseteq DocIds /\ \A d \in purging : Visible(d)
    BY <1>1 DEF DInv, TypeOK
  <2> QED
    BY <1>2, <1>4, <2>1
<1>10. ASSUME NEW d \in DocIds, Visible(d)', ~Visible(d)
       PROVE  \E m \in Messages : row'[l][m].doc = d
  <2>1. d \in Touched(t)
    BY <1>4, <1>10 DEF Visible
  <2> QED
    BY <1>1, <1>2, <2>1 DEF Fits
<1> QED
  BY <1>6, <1>7, <1>8, <1>9, <1>10 DEF DInv

(* A sync changes no document and makes none; a row it leaves has the document
   it had or none.                                                         *)
LEMMA SyncedFits ==
  ASSUME DInv, NEW l \in Labels, tick[l].pc \in Early, NEW t \in Tick,
         t.made = {}, Touched(t) = {}, t.pc \in Early => t.todo = {},
         \A m \in t.todo : t.rows[m].doc = 0,
         \A m \in Messages : t.rows[m].doc \in {0, tick[l].rows[m].doc}
  PROVE  Fits(t) /\ tick[l].made = {}
<1>1. Fits(tick[l]) /\ TypeOK
  BY DEF DInv, TInv
<1>2. tick[l].made = {}
  BY <1>1 DEF Fits, Touched
<1>3. \A m \in Messages : t.rows[m].doc # 0 => Visible(t.rows[m].doc)
  BY <1>1, <1>2 DEF Fits
<1> QED
  BY <1>2, <1>3 DEF Fits

LEMMA SyncKeepsDocuments ==
  ASSUME DInv, NEW l \in Labels, tick[l].pc = "sync", NEW refused \in BOOLEAN
  PROVE  /\ Fits(InitialMade(l)) /\ InitialMade(l).made = tick[l].made
         /\ Fits(IncrementalMade(l)) /\ IncrementalMade(l).made = tick[l].made
         /\ Fits(StartOverMade(l, refused)) /\ StartOverMade(l, refused).made = tick[l].made
         /\ Fits([tick[l] EXCEPT !.pc = "detect"])
<1>1. TInv /\ TypeOK /\ Fits(tick[l])
  BY DEF DInv, TInv
<1>2. tick[l].rows \in [Messages -> Row] /\ tick[l] \in Tick /\ From(tick[l]) \in Nat
  BY <1>1, TickType, FromType
<1>3. /\ tick[l].pc \in Early /\ Touched(tick[l]) = {} /\ tick[l].made = {}
      /\ tick[l].todo = {}
  BY <1>1 DEF Fits, Early, Touched
<1>4. ASSUME NEW t \in Tick, NEW rows, NEW c, NEW columns,
             t = Synced(tick[l], rows, c, columns),
             \A m \in Messages : rows[m].doc \in {0, tick[l].rows[m].doc}
      PROVE  Fits(t) /\ t.made = tick[l].made
  <2>1. /\ t.rows = rows /\ t.pc = "detect" /\ t.made = {} /\ t.todo = {}
        /\ t.deleted = tick[l].deleted /\ t.restored = tick[l].restored
    BY <1>2, <1>3, <1>4 DEF Synced, Tick
  <2>2. Touched(t) = {}
    BY <1>3, <2>1 DEF Touched
  <2> QED
    BY <1>3, <1>4, <2>1, <2>2, SyncedFits
<1>5. Dropped \in [Messages -> Row] /\ \A m \in Messages : Dropped[m].doc = 0
  BY ConstantsAreTyped DEF Dropped, NoRow
<1>6. /\ InitialMade(l) \in Tick /\ IncrementalMade(l) \in Tick
      /\ StartOverMade(l, refused) \in Tick
  BY <1>1, SyncMadeType
<1>7. Fits(InitialMade(l)) /\ InitialMade(l).made = tick[l].made
  <2>1. \A m \in Messages : Listed(l, tick[l].rows, 1)[m].doc \in {0, tick[l].rows[m].doc}
    BY <1>1, <1>2, ListedRows
  <2> QED
    BY <1>4, <1>6, <2>1 DEF InitialMade
<1>8. Fits(IncrementalMade(l)) /\ IncrementalMade(l).made = tick[l].made
  <2>1. \A m \in Messages :
          Listed(l, tick[l].rows, From(tick[l]))[m].doc \in {0, tick[l].rows[m].doc}
    BY <1>1, <1>2, ListedRows
  <2> QED
    BY <1>4, <1>6, <2>1 DEF IncrementalMade
<1>9. Fits(StartOverMade(l, refused)) /\ StartOverMade(l, refused).made = tick[l].made
  <2>1. \A m \in Messages : /\ Listed(l, Dropped, 1)[m].doc \in {0, tick[l].rows[m].doc}
                            /\ Dropped[m].doc \in {0, tick[l].rows[m].doc}
    BY <1>1, <1>5, ListedRows
  <2> QED
    BY <1>4, <1>6, <2>1 DEF StartOverMade
<1>10. Fits([tick[l] EXCEPT !.pc = "detect"])
  <2> DEFINE t == [tick[l] EXCEPT !.pc = "detect"]
  <2>1. /\ t \in Tick /\ t.pc = "detect" /\ t.made = {} /\ t.todo = {}
        /\ t.rows = tick[l].rows
        /\ t.deleted = tick[l].deleted /\ t.restored = tick[l].restored
    BY <1>2, <1>3 DEF Tick
  <2> HIDE DEF t
  <2>2. Touched(t) = {}
    BY <1>3, <2>1 DEF Touched
  <2> QED
    BY <1>3, <2>1, <2>2, SyncedFits DEF t
<1> QED
  BY <1>7, <1>8, <1>9, <1>10

LEMMA IngestingFits ==
  ASSUME DInv, NEW l \in Labels, tick[l].pc = "detect", NEW rows \in [Messages -> Row],
         \A m \in Messages : rows[m].doc = tick[l].rows[m].doc
  PROVE  Fits(Ingesting(l, rows)) /\ Ingesting(l, rows).made = tick[l].made
<1> DEFINE t == Ingesting(l, rows)
<1>1. TypeOK /\ Fits(tick[l]) /\ tick[l] \in Tick
  BY TickType DEF DInv, TInv
<1>2. /\ tick[l].pc \in Early /\ Touched(tick[l]) = {} /\ tick[l].made = {}
  BY <1>1 DEF Fits, Early, Touched
<1>3. /\ t \in Tick /\ t.pc = "ingest" /\ t.rows = rows /\ t.todo = Pending(rows)
      /\ t.made = {} /\ t.deleted = tick[l].deleted /\ t.restored = tick[l].restored
  <2>1. t \in Tick
    BY <1>1, TickMoves, PendingType DEF Ingesting
  <2> QED
    BY <1>1, <1>2, <2>1 DEF Ingesting, Tick
<1> HIDE DEF t
<1>4. Touched(t) = {}
  BY <1>2, <1>3 DEF Touched
<1>5. \A m \in t.todo : t.rows[m].doc = 0
  BY <1>3 DEF Pending
<1>6. t.pc \notin Early
  BY <1>3 DEF Early
<1>7. Fits(t) /\ tick[l].made = {}
  BY <1>2, <1>3, <1>4, <1>5, <1>6, SyncedFits
<1> QED
  BY <1>3, <1>7 DEF t

(* One message: it had no document, so the row's gets one and nothing else
   loses its row.                                                          *)
LEMMA IngestedFields ==
  ASSUME TypeOK, NEW l \in Labels, NEW m \in Messages, NEW d \in DocIds
  PROVE  LET t == LinkMade(l, m, d)
             c == CreationMade(l, m, d)
         IN  /\ t \in Tick /\ t.pc = tick[l].pc /\ t.todo = tick[l].todo \ {m}
             /\ t.made = tick[l].made /\ Touched(t) = Touched(tick[l])
             /\ t.rows[m].doc = d
             /\ \A k \in Messages : k # m => t.rows[k] = tick[l].rows[k]
             /\ c \in Tick /\ c.pc = tick[l].pc /\ c.todo = tick[l].todo \ {m}
             /\ c.made = tick[l].made \union {d}
             /\ Touched(c) = Touched(tick[l]) \union {d}
             /\ c.rows[m].doc = d
             /\ \A k \in Messages : k # m => c.rows[k] = tick[l].rows[k]
<1> DEFINE t == LinkMade(l, m, d)
           c == CreationMade(l, m, d)
<1>1. /\ tick[l] \in Tick /\ tick[l].rows \in [Messages -> Row] /\ t \in Tick /\ c \in Tick
  BY TickType, TickMoves DEF LinkMade, CreationMade
<1>2. /\ t.pc = tick[l].pc /\ t.todo = tick[l].todo \ {m} /\ t.made = tick[l].made
      /\ t.deleted = tick[l].deleted /\ t.restored = tick[l].restored
      /\ t.rows = [tick[l].rows EXCEPT ![m].doc = d]
  BY <1>1 DEF LinkMade, Tick
<1>3. /\ c.pc = tick[l].pc /\ c.todo = tick[l].todo \ {m} /\ c.made = tick[l].made \union {d}
      /\ c.deleted = tick[l].deleted /\ c.restored = tick[l].restored
      /\ c.rows = [tick[l].rows EXCEPT ![m].doc = d]
  BY <1>1 DEF CreationMade, Tick
<1>4. LET rows == [tick[l].rows EXCEPT ![m].doc = d]
      IN  rows[m].doc = d /\ \A k \in Messages : k # m => rows[k] = tick[l].rows[k]
  BY <1>1 DEF Row
<1> HIDE DEF t, c
<1>5. Touched(t) = Touched(tick[l]) /\ Touched(c) = Touched(tick[l]) \union {d}
  BY <1>2, <1>3 DEF Touched
<1> QED
  BY <1>1, <1>2, <1>3, <1>4, <1>5 DEF t, c

LEMMA LinkFits ==
  ASSUME DInv, NEW l \in Labels, NEW m \in tick[l].todo,
         NEW d \in SameBytes(l, Fetched(l, m))
  PROVE  Fits(LinkMade(l, m, d)) /\ LinkMade(l, m, d).made = tick[l].made
<1> DEFINE t == LinkMade(l, m, d)
<1>1. TypeOK /\ Fits(tick[l]) /\ tick[l] \in Tick /\ m \in Messages
  BY TickType DEF DInv, TInv
<1>2. d \in DocIds /\ d # 0 /\ (d \in tick[l].made \/ Visible(d))
  BY <1>1, SameBytesAreLinked DEF DInv, Fits, RowsSound
<1>3. tick[l].pc \notin Early /\ tick[l].rows[m].doc = 0
  BY <1>1 DEF Fits
<1>4. /\ t.pc = tick[l].pc /\ t.todo = tick[l].todo \ {m}
      /\ t.made = tick[l].made /\ Touched(t) = Touched(tick[l]) /\ t.rows[m].doc = d
      /\ \A k \in Messages : k # m => t.rows[k] = tick[l].rows[k]
  BY <1>1, <1>2, IngestedFields
<1>5. \A e \in Touched(tick[l]) : e # 0
  BY <1>1, BoundsAssumption DEF Touched, Tick, DocIds
<1> HIDE DEF t
<1>6. \A e \in Touched(t) : \E k \in Messages : t.rows[k].doc = e
  <2> SUFFICES ASSUME NEW e \in Touched(t) PROVE \E k \in Messages : t.rows[k].doc = e
    OBVIOUS
  <2>1. PICK k \in Messages : tick[l].rows[k].doc = e
    BY <1>1, <1>4 DEF Fits
  <2>2. k # m
    BY <1>3, <1>4, <1>5, <2>1
  <2> QED
    BY <1>4, <2>1, <2>2
<1>7. \A k \in Messages : t.rows[k].doc # 0 => t.rows[k].doc \in t.made \/ Visible(t.rows[k].doc)
  <2> SUFFICES ASSUME NEW k \in Messages, t.rows[k].doc # 0
               PROVE  t.rows[k].doc \in t.made \/ Visible(t.rows[k].doc)
    OBVIOUS
  <2>1. CASE k = m
    BY <1>2, <1>4, <2>1
  <2>2. CASE k # m
    BY <1>1, <1>4, <2>2 DEF Fits
  <2> QED
    BY <2>1, <2>2
<1>8. \A k \in t.todo : t.rows[k].doc = 0
  BY <1>1, <1>4 DEF Fits, Tick
<1>9. \A e \in t.made : docs[e].status = "draft"
  BY <1>1, <1>4 DEF Fits
<1> QED
  BY <1>3, <1>4, <1>6, <1>7, <1>8, <1>9 DEF Fits, t

LEMMA CreationFits ==
  ASSUME DInv, TInv', NEW l \in Labels, NEW m \in tick[l].todo, Creates(l, m),
         UNCHANGED <<row, purging>>
  PROVE  /\ DInv'
         /\ \A e \in DocIds : Visible(e)' => Visible(e)
<1> DEFINE d == Min(Unused)
           t == CreationMade(l, m, d)
<1>1. TypeOK /\ Fits(tick[l]) /\ tick[l] \in Tick /\ m \in Messages
  BY TickType DEF DInv, TInv
<1>2. d \in DocIds /\ docs[d].status = "none"
  BY UnusedLeast DEF Creates
<1>3. tick[l].pc \notin Early /\ tick[l].rows[m].doc = 0
  BY <1>1 DEF Fits
<1>4. /\ t.pc = tick[l].pc /\ t.todo = tick[l].todo \ {m}
      /\ t.made = tick[l].made \union {d} /\ Touched(t) = Touched(tick[l]) \union {d}
      /\ t.rows[m].doc = d
      /\ \A k \in Messages : k # m => t.rows[k] = tick[l].rows[k]
  BY <1>1, <1>2, IngestedFields
<1>5. tick' = [tick EXCEPT ![l] = t]
  BY <1>1, IngestMakes
<1>6. /\ docs'[d].status = "draft"
      /\ \A e \in DocIds : e # d => docs'[e] = docs[e]
  BY <1>1, <1>2 DEF Creates, TypeOK, NewDocument, NoDocument
<1>7. \A e \in Touched(tick[l]) : e \in DocIds /\ e # 0
  BY <1>1, BoundsAssumption DEF Touched, Tick, DocIds
<1> HIDE DEF t, d
<1>8. tick'[l] = t /\ \A k \in Labels : k # l => tick'[k] = tick[k]
  BY <1>1, <1>5 DEF TypeOK
<1>9. /\ \A e \in DocIds : Visible(e) => Visible(e)'
      /\ \A e \in DocIds : Visible(e)' => Visible(e)
  BY <1>2, <1>6 DEF Visible
<1>10. \A k \in Labels : /\ tick[k].made \in SUBSET DocIds /\ d \notin tick[k].made
                         /\ \A e \in tick[k].made : docs'[e].status = "draft"
  <2>1. \A k \in Labels : tick[k].made \in SUBSET DocIds /\ Fits(tick[k])
    BY <1>1, TickType DEF DInv
  <2>2. \A k \in Labels : \A e \in tick[k].made : docs[e].status = "draft"
    BY <2>1 DEF Fits
  <2> QED
    BY <1>2, <1>6, <2>1, <2>2
<1>11. Fits(tick[l])'
  <2>1. \A e \in Touched(t) : \E k \in Messages : t.rows[k].doc = e
    <3> SUFFICES ASSUME NEW e \in Touched(t) PROVE \E k \in Messages : t.rows[k].doc = e
      OBVIOUS
    <3>1. CASE e = d
      BY <1>1, <1>4, <3>1
    <3>2. CASE e \in Touched(tick[l])
      <4>1. PICK k \in Messages : tick[l].rows[k].doc = e
        BY <1>1, <3>2 DEF Fits
      <4>2. k # m
        BY <1>3, <1>7, <3>2, <4>1
      <4> QED
        BY <1>4, <4>1, <4>2
    <3> QED
      BY <1>4, <3>1, <3>2
  <2>2. ASSUME NEW k \in Messages, t.rows[k].doc # 0
        PROVE  t.rows[k].doc \in t.made \/ docs'[t.rows[k].doc].status \in {"active", "deleted"}
    <3>1. CASE k = m
      BY <1>4, <3>1
    <3>2. CASE k # m
      <4>1. t.rows[k].doc = tick[l].rows[k].doc /\ t.rows[k].doc \in DocIds
        BY <1>1, <1>4, <2>2, <3>2 DEF Tick, Row
      <4>2. t.rows[k].doc \in tick[l].made \/ Visible(t.rows[k].doc)
        BY <1>1, <2>2, <4>1 DEF Fits
      <4> QED
        BY <1>4, <1>9, <4>1, <4>2 DEF Visible
    <3> QED
      BY <3>1, <3>2
  <2>3. \A k \in t.todo : t.rows[k].doc = 0
    BY <1>1, <1>4 DEF Fits, Tick
  <2>4. \A e \in t.made : docs'[e].status = "draft"
    BY <1>4, <1>6, <1>10
  <2> QED
    BY <1>3, <1>4, <1>8, <2>1, <2>2, <2>3, <2>4 DEF Fits, Visible
<1>12. \A k \in Labels : Fits(tick[k])'
  <2> SUFFICES ASSUME NEW k \in Labels PROVE Fits(tick[k])'
    OBVIOUS
  <2>1. CASE k = l
    BY <1>11, <2>1
  <2>2. CASE k # l
    <3>1. tick[k] \in Tick /\ Fits(tick[k])
      BY <1>1, TickType DEF DInv
    <3>2. \A i \in Messages : tick[k].rows[i].doc \in DocIds \union {0}
      BY <3>1 DEF Tick, Row
    <3> QED
      BY <1>8, <1>9, <1>10, <2>2, <3>1, <3>2 DEF Fits
  <2> QED
    BY <2>1, <2>2
<1>13. DraftsApart'
  <2>1. DraftsApart
    BY DEF DInv
  <2> QED
    BY <1>4, <1>8, <1>10, <2>1 DEF DraftsApart
<1>14. RowsSound'
  BY <1>1, <1>9, RowsStill DEF DInv
<1>15. \A e \in purging' : Visible(e)'
  BY <1>1, <1>9 DEF DInv, TypeOK
<1> QED
  BY <1>9, <1>12, <1>13, <1>14, <1>15 DEF DInv

LEMMA LifecycleFits ==
  ASSUME DInv, NEW l \in Labels, tick[l].pc = "ingest", tick[l].todo = {}
  PROVE  Fits(LifecycleMade(l)) /\ LifecycleMade(l).made = tick[l].made
<1> DEFINE t == LifecycleMade(l)
<1>1. TypeOK /\ Fits(tick[l]) /\ tick[l] \in Tick
  BY TickType DEF DInv, TInv
<1>2. /\ t.pc = "commit" /\ t.todo = {} /\ t.made = tick[l].made /\ t.rows = tick[l].rows
      /\ t.deleted \subseteq Gone(l) /\ t.restored \subseteq Back(l)
  BY <1>1 DEF LifecycleMade, Tick
<1> HIDE DEF t
<1>3. \A d \in Touched(t) : \E m \in Messages : t.rows[m].doc = d
  <2>1. \A d \in Touched(t) : d \in tick[l].made \/ d \in Gone(l) \union Back(l)
    BY <1>2 DEF Touched
  <2>2. \A d \in tick[l].made : \E m \in Messages : tick[l].rows[m].doc = d
    BY <1>1 DEF Fits, Touched
  <2> QED
    BY <1>1, <1>2, <2>1, <2>2, LifecycleSets
<1> QED
  BY <1>1, <1>2, <1>3 DEF Fits, Early, t

LEMMA PurgeFits ==
  ASSUME DInv, TInv', Purge
  PROVE  /\ DInv'
         /\ \A d \in DocIds : Visible(d)' => Visible(d)
<1>1. TypeOK /\ purging \subseteq DocIds /\ \A d \in purging : Visible(d)
  BY DEF DInv, TInv, TypeOK
<1>2. \A d \in DocIds : /\ d \in purging => docs'[d].status = "none"
                        /\ d \notin purging => docs'[d] = docs[d]
  BY DEF Purge, NoDocument
<1>3. purging' = {} /\ \A l \in Labels : row'[l] = Unlinked(row[l])
  BY DEF Purge
<1>4. ASSUME NEW l \in Labels
      PROVE  /\ tick'[l].rows = Unlinked(tick[l].rows)
             /\ tick'[l].pc = tick[l].pc /\ tick'[l].todo = tick[l].todo
             /\ tick'[l].made = tick[l].made /\ Touched(tick'[l]) = Touched(tick[l])
  <2>1. tick[l] \in Tick /\ tick'[l] = [tick[l] EXCEPT !.rows = Unlinked(@)]
    BY <1>1, TickType DEF Purge
  <2>2. /\ tick'[l].rows = Unlinked(tick[l].rows)
        /\ tick'[l].pc = tick[l].pc /\ tick'[l].todo = tick[l].todo
        /\ tick'[l].made = tick[l].made /\ tick'[l].deleted = tick[l].deleted
        /\ tick'[l].restored = tick[l].restored
    BY <2>1 DEF Tick
  <2> QED
    BY <2>2 DEF Touched
<1>5. \A d \in DocIds : Visible(d) /\ d \notin purging => Visible(d)'
  BY <1>2 DEF Visible
<1>6. ASSUME NEW l \in Labels PROVE Fits(tick[l])'
  <2>1. /\ tick[l] \in Tick /\ Fits(tick[l]) /\ tick[l].rows \in [Messages -> Row]
        /\ tick[l].made \in SUBSET DocIds
    BY <1>1, TickType DEF DInv
  <2>2. \A m \in Messages :
          /\ tick[l].rows[m].doc \in DocIds \union {0}
          /\ tick[l].rows[m].doc \notin purging => tick'[l].rows[m] = tick[l].rows[m]
          /\ tick[l].rows[m].doc \in purging => tick'[l].rows[m].doc = 0
    BY <1>4, <2>1, UnlinkedRows DEF Row
  <2>3. \A d \in tick[l].made : d \notin purging /\ docs'[d].status = "draft"
    BY <1>1, <1>2, <2>1 DEF Fits, Visible
  <2>4. ASSUME NEW d \in Touched(tick[l]) PROVE d \notin purging
    <3>1. CASE d \in tick[l].made
      BY <2>3, <3>1
    <3>2. CASE d \in tick[l].deleted \union tick[l].restored
      <4>1. tick[l].pc # "idle"
        BY <2>1, <2>4 DEF Fits, Early
      <4> QED
        BY <3>2, <4>1 DEF Purge, Holds
    <3> QED
      BY <2>4, <3>1, <3>2 DEF Touched
  <2>5. ASSUME NEW d \in Touched(tick[l]) PROVE \E m \in Messages : tick'[l].rows[m].doc = d
    <3>1. PICK m \in Messages : tick[l].rows[m].doc = d
      BY <2>1 DEF Fits
    <3> QED
      BY <2>2, <2>4, <3>1
  <2>6. ASSUME NEW m \in Messages, tick'[l].rows[m].doc # 0
        PROVE  tick'[l].rows[m].doc \in tick[l].made
                 \/ docs'[tick'[l].rows[m].doc].status \in {"active", "deleted"}
    <3>1. /\ tick[l].rows[m].doc \notin purging /\ tick'[l].rows[m] = tick[l].rows[m]
          /\ tick[l].rows[m].doc \in DocIds
      BY <2>2, <2>6
    <3>2. tick[l].rows[m].doc \in tick[l].made \/ Visible(tick[l].rows[m].doc)
      BY <2>1, <2>6, <3>1 DEF Fits
    <3> QED
      BY <1>5, <3>1, <3>2 DEF Visible
  <2>7. \A m \in tick[l].todo : tick'[l].rows[m].doc = 0
    BY <2>1, <2>2 DEF Fits, Tick
  <2> QED
    BY <1>4, <2>1, <2>3, <2>5, <2>6, <2>7 DEF Fits, Visible
<1>7. DraftsApart'
  BY <1>4 DEF DInv, DraftsApart
<1>8. RowsSound'
  <2> SUFFICES ASSUME NEW l \in Labels, NEW m \in Messages, row'[l][m].doc # 0
               PROVE  docs'[row'[l][m].doc].status \in {"active", "deleted"}
    BY DEF RowsSound, Visible
  <2>1. row[l] \in [Messages -> Row] /\ row[l][m].doc \in DocIds \union {0}
    BY <1>1, TickType DEF Row
  <2>2. row[l][m].doc \notin purging /\ row'[l][m] = row[l][m]
    BY <1>3, <2>1, UnlinkedRows
  <2>3. Visible(row[l][m].doc)
    BY <2>2 DEF DInv, RowsSound
  <2> QED
    BY <1>5, <2>1, <2>2, <2>3 DEF Visible
<1>9. \A d \in DocIds : Visible(d)' => Visible(d)
  BY <1>2 DEF Visible
<1> QED
  BY <1>3, <1>6, <1>7, <1>8, <1>9 DEF DInv

(* A step that neither hides a document nor touches a draft, a row or a tick. *)
LEMMA DocumentsStill ==
  ASSUME DInv, TInv', UNCHANGED <<row, tick>>,
         \A d \in DocIds : Visible(d) <=> Visible(d)',
         \A d \in DocIds : docs[d].status = "draft" => docs'[d].status = "draft",
         \A d \in purging' : Visible(d)
  PROVE  DInv'
<1>1. TypeOK /\ purging' \subseteq DocIds
  BY DEF DInv, TInv, TypeOK
<1>2. ASSUME NEW l \in Labels PROVE Fits(tick[l])'
  <2>1. tick[l] \in Tick /\ Fits(tick[l]) /\ tick[l].made \in SUBSET DocIds
    BY <1>1, TickType DEF DInv
  <2>2. \A m \in Messages : tick[l].rows[m].doc \in DocIds \union {0}
    BY <2>1 DEF Tick, Row
  <2>3. \A d \in tick[l].made : docs'[d].status = "draft"
    BY <2>1 DEF Fits
  <2> QED
    BY <2>1, <2>2, <2>3 DEF Fits
<1>3. RowsSound'
  BY <1>1, RowsStill DEF DInv
<1>4. DraftsApart'
  BY DEF DInv, DraftsApart
<1> QED
  BY <1>1, <1>2, <1>3, <1>4 DEF DInv

(* Every step keeps the documents in order, and shows none that it does not
   commit a row for.                                                       *)
NoGhostAppears ==
  \A d \in DocIds :
    (Visible(d))' /\ ~Visible(d) => \E l \in Labels, m \in Messages : row'[l][m].doc = d

LEMMA StepDocuments == DInv /\ [Next]_vars => DInv' /\ NoGhostAppears
<1> SUFFICES ASSUME DInv, [Next]_vars PROVE DInv' /\ NoGhostAppears
  OBVIOUS
<1> DEFINE Goal == DInv' /\ NoGhostAppears
<1>0. TInv /\ TypeOK /\ TInv' /\ \A l \in Labels : Fits(tick[l])
  BY StepType DEF DInv, TInv
<1>1. ASSUME \A d \in DocIds : Visible(d)' => Visible(d) PROVE NoGhostAppears
  BY <1>1 DEF NoGhostAppears
<1>2. ASSUME UNCHANGED docs PROVE NoGhostAppears
  BY <1>1, <1>2 DEF Visible
<1>3. ASSUME NEW l \in Labels, NEW t, tick' = [tick EXCEPT ![l] = t],
             t.made = tick[l].made, Fits(t), UNCHANGED <<docs, row, purging>>
      PROVE  Goal
  BY <1>0, <1>2, <1>3, TickPutFits
<1>4. ASSUME NEW l \in Labels, Begin(l) PROVE Goal
  <2> DEFINE t == [Idle EXCEPT !.pc = "sync", !.cursor = cursor[l], !.rows = row[l]]
  <2>1. /\ t \in Tick /\ t.rows = row[l] /\ t.pc = "sync"
        /\ t.made = {} /\ t.deleted = {} /\ t.restored = {} /\ t.todo = {}
    BY <1>0, ConstantsAreTyped, TickType DEF Tick, Idle
  <2>2. tick[l].made = {}
    BY <1>0, <1>4 DEF Begin, Fits, Early, Touched
  <2>3. tick' = [tick EXCEPT ![l] = t] /\ UNCHANGED <<docs, row, purging>>
    BY <1>4 DEF Begin, stored
  <2> HIDE DEF t
  <2>4. Fits(t)
    BY <2>1 DEF Fits, Touched, DInv, RowsSound
  <2> QED
    BY <1>3, <2>1, <2>2, <2>3, <2>4
<1>5. ASSUME NEW l \in Labels, tick[l].pc = "sync",
             tick' = [tick EXCEPT ![l].pc = "detect"], UNCHANGED <<docs, row, purging>>
      PROVE  Goal
  <2>1. /\ tick' = [tick EXCEPT ![l] = [tick[l] EXCEPT !.pc = "detect"]]
        /\ [tick[l] EXCEPT !.pc = "detect"].made = tick[l].made
    BY <1>0, <1>5, TickType DEF TypeOK, Tick
  <2> QED
    BY <1>3, <1>5, <2>1, SyncKeepsDocuments
<1>6. ASSUME NEW l \in Labels, Sync(l) PROVE Goal
  <2>1. tick[l].pc = "sync" /\ UNCHANGED <<docs, row, purging>>
    BY <1>6 DEF Sync, stored
  <2>2. CASE Initial(l)
    BY <1>0, <1>3, <2>1, <2>2, SyncMakes, SyncKeepsDocuments
  <2>3. CASE Incremental(l)
    <3>1. CASE tick' = [tick EXCEPT ![l] = [tick[l] EXCEPT !.pc = "detect"]]
      BY <1>5, <2>1, <3>1
    <3>2. CASE tick' = [tick EXCEPT ![l] = IncrementalMade(l)]
      BY <1>3, <2>1, <3>2, SyncKeepsDocuments
    <3> QED
      BY <1>0, <2>3, <3>1, <3>2, SyncMakes
  <2>4. CASE StartOver(l, FALSE)
    BY <1>0, <1>3, <2>1, <2>4, SyncMakes, SyncKeepsDocuments
  <2> QED
    BY <1>6, <2>2, <2>3, <2>4 DEF Sync
<1>7. ASSUME NEW l \in Labels, Refused(l) PROVE Goal
  <2>1. tick[l].pc = "sync" /\ UNCHANGED <<docs, row, purging>>
    BY <1>7 DEF Refused, stored
  <2>2. CASE StartOver(l, TRUE)
    BY <1>0, <1>3, <2>1, <2>2, SyncMakes, SyncKeepsDocuments
  <2>3. CASE tick' = [tick EXCEPT ![l].pc = "detect"]
    BY <1>5, <2>1, <2>3
  <2> QED
    BY <1>7, <2>2, <2>3 DEF Refused
<1>8. ASSUME NEW l \in Labels, NEW rows \in [Messages -> Row], ToIngest(l, rows),
             tick[l].pc = "detect", UNCHANGED <<docs, row, purging>>,
             \A m \in Messages : rows[m].doc = tick[l].rows[m].doc
      PROVE  Goal
  <2>1. tick' = [tick EXCEPT ![l] = Ingesting(l, rows)]
    BY <1>0, <1>8 DEF ToIngest, Ingesting, TypeOK, Tick
  <2> QED
    BY <1>3, <1>8, <2>1, IngestingFits
<1>9. ASSUME NEW l \in Labels, Detect(l) PROVE Goal
  BY <1>0, <1>8, <1>9, UnlabeledRows DEF Detect, stored
<1>10. ASSUME NEW l \in Labels, DetectRefused(l) PROVE Goal
  BY <1>0, <1>8, <1>10, TickType DEF DetectRefused, stored
<1>11. ASSUME NEW l \in Labels, NEW m \in Messages, Ingest(l, m) PROVE Goal
  <2>1. m \in tick[l].todo /\ UNCHANGED <<row, purging>>
    BY <1>11 DEF Ingest
  <2>2. CASE Links(l, m)
    <3>1. PICK d \in SameBytes(l, Fetched(l, m)) : tick' = [tick EXCEPT ![l] = LinkMade(l, m, d)]
      BY <1>0, <2>2, IngestMakes
    <3> QED
      BY <1>3, <2>1, <2>2, <3>1, LinkFits DEF Links
  <2>3. CASE Creates(l, m)
    BY <1>0, <1>1, <2>1, <2>3, CreationFits
  <2> QED
    BY <1>11, <2>2, <2>3 DEF Ingest
<1>12. ASSUME NEW l \in Labels, NEW m \in Messages, IngestFails(l, m) PROVE Goal
  <2> DEFINE t == [tick[l] EXCEPT !.todo = @ \ {m}]
  <2>1. /\ t.pc = tick[l].pc /\ t.rows = tick[l].rows /\ t.todo = tick[l].todo \ {m}
        /\ t.made = tick[l].made /\ t.deleted = tick[l].deleted
        /\ t.restored = tick[l].restored
    BY <1>0, TickType DEF Tick
  <2>2. tick' = [tick EXCEPT ![l] = t] /\ UNCHANGED <<docs, row, purging>>
    BY <1>0, <1>12 DEF IngestFails, RolledBack, TypeOK, Tick
  <2> HIDE DEF t
  <2>3. Touched(t) = Touched(tick[l])
    BY <2>1 DEF Touched
  <2>4. Fits(t)
    BY <1>0, <2>1, <2>3 DEF Fits
  <2> QED
    BY <1>3, <2>1, <2>2, <2>4
<1>13. ASSUME NEW l \in Labels, Lifecycle(l) PROVE Goal
  <2>1. tick' = [tick EXCEPT ![l] = LifecycleMade(l)]
    BY <1>0, <1>13 DEF Lifecycle, LifecycleMade, TypeOK, Tick
  <2> QED
    BY <1>3, <1>13, <2>1, LifecycleFits DEF Lifecycle, stored
<1>14. ASSUME NEW l \in Labels, Commit(l) PROVE Goal
  BY <1>0, <1>14, CommitFits DEF NoGhostAppears
<1>15. ASSUME NEW l \in Labels, Discarded(l), UNCHANGED purging,
             row' = row \/ row' = [row EXCEPT ![l] = Dropped]
      PROVE  Goal
  <2>1. \A k \in Labels, m \in Messages : row'[k][m].doc \in {0, row[k][m].doc}
    <3>1. \A m \in Messages : Dropped[m].doc = 0
      BY DEF Dropped, NoRow
    <3>2. CASE row' = row
      BY <3>2
    <3>3. CASE row' = [row EXCEPT ![l] = Dropped]
      BY <1>0, <3>1, <3>3 DEF TypeOK
    <3> QED
      BY <1>15, <3>2, <3>3
  <2> QED
    BY <1>0, <1>1, <1>15, <2>1, DiscardedFits
<1>16. ASSUME NEW l \in Labels, TickFails(l) PROVE Goal
  BY <1>15, <1>16 DEF TickFails
<1>17. ASSUME NEW l \in Labels, Unwatch(l) PROVE Goal
  BY <1>15, <1>17 DEF Unwatch
<1>18. ASSUME UNCHANGED <<docs, row, tick, purging>> PROVE Goal
  BY <1>0, <1>2, <1>18, DocumentsStill DEF DInv, Visible
<1>19. ASSUME NEW d \in DocIds, DeleteDocument(d) PROVE Goal
  <2>1. /\ docs[d].status = "active" /\ docs'[d].status = "deleted"
        /\ \A e \in DocIds : e # d => docs'[e] = docs[e]
        /\ UNCHANGED <<row, tick, purging>>
    BY <1>0, <1>19, StatusWritten DEF DeleteDocument, TypeOK
  <2>2. /\ \A e \in DocIds : Visible(e) <=> Visible(e)'
        /\ \A e \in DocIds : docs[e].status = "draft" => docs'[e].status = "draft"
    BY <2>1 DEF Visible
  <2> QED
    BY <1>0, <1>1, <2>1, <2>2, DocumentsStill DEF DInv
<1>20. CASE SelectExpired
  <2>1. \A d \in purging' : Visible(d)
    BY <1>20 DEF SelectExpired, Expired, Visible
  <2>2. UNCHANGED <<docs, row, tick>>
    BY <1>20 DEF SelectExpired, stored
  <2> QED
    BY <1>0, <1>2, <2>1, <2>2, DocumentsStill DEF Visible
<1>21. CASE Purge
  BY <1>0, <1>1, <1>21, PurgeFits
<1>22. CASE SixtyDays
  <2>1. /\ \A d \in DocIds : docs'[d].status = docs[d].status
        /\ UNCHANGED <<row, tick, purging>>
    <3>1. \A d \in DocIds : docs[d] \in Document
      BY <1>0 DEF TypeOK
    <3> QED
      BY <1>22, <3>1 DEF SixtyDays, Document
  <2>2. \A d \in DocIds : Visible(d) <=> Visible(d)'
    BY <2>1 DEF Visible
  <2> QED
    BY <1>0, <1>1, <2>1, <2>2, DocumentsStill DEF DInv
<1> QED
  BY <1>4, <1>6, <1>7, <1>9, <1>10, <1>11, <1>12, <1>13, <1>14, <1>16, <1>17, <1>18,
     <1>19, <1>20, <1>21, <1>22
  DEF Next, TickStep, FaultStep, ServerStep, AdminStep, Arrive, Leave, Renumber,
      Rescan, Watch, vars, stored

-----------------------------------------------------------------------------
(* The cursor *)

(* What a step leaves of one label's cursor, rows, tick and mailbox.         *)
Untouched(l) ==
  /\ validity'[l] = validity[l] /\ nextUid'[l] = nextUid[l] /\ box'[l] = box[l]
  /\ cursor'[l] = cursor[l] /\ row'[l] = row[l] /\ tick'[l] = tick[l]

LEMMA UntouchedIsSound ==
  ASSUME NEW l \in Labels, CursorSound(l), Untouched(l)
  PROVE  CursorSound(l)'
  BY DEF CursorSound, Untouched, NotAhead, Covers, NotOvertaken

LEMMA InitCursor == Init => CInv
<1> SUFFICES ASSUME Init PROVE \A l \in Labels : CursorSound(l)
  BY InitType DEF CInv
<1> SUFFICES ASSUME NEW l \in Labels PROVE CursorSound(l)
  OBVIOUS
<1>1. cursor[l].uidvalidity = 0 /\ validity[l] = 1 /\ tick[l].pc = "idle"
  BY DEF Init, NoCursor, Idle
<1> QED
  BY <1>1 DEF CursorSound, NotAhead, Covers

(* A tick that puts another in its place, and leaves the mailboxes and what is
   committed alone, has to be sound itself.                                *)
TickIsSound(l, t) ==
  /\ NotAhead(l, t.cursor)
  /\ Covers(l, t.cursor, t.rows)
  /\ t.pc = "sync" => t.columns = {}
  /\ "uidvalidity" \notin t.columns => cursor[l].uidvalidity \in {0, t.cursor.uidvalidity}
  /\ "last" \notin t.columns => cursor[l].last \in {0, t.cursor.last}

LEMMA TickPutIsSound ==
  ASSUME CInv, NEW l \in Labels, NEW t \in Tick, tick' = [tick EXCEPT ![l] = t],
         UNCHANGED <<server, cursor, row>>, TickIsSound(l, t)
  PROVE  \A k \in Labels : CursorSound(k)'
<1> SUFFICES ASSUME NEW k \in Labels PROVE CursorSound(k)'
  OBVIOUS
<1>1. TypeOK /\ CursorSound(k)
  BY DEF CInv, TInv
<1>2. CASE k # l
  <2>1. Untouched(k)
    BY <1>1, <1>2 DEF Untouched, server, TypeOK
  <2> QED
    BY <1>1, <2>1, UntouchedIsSound
<1>3. CASE k = l
  <2>1. tick'[k] = t
    BY <1>1, <1>3 DEF TypeOK
  <2>2. NotAhead(k, cursor[k])' /\ Covers(k, cursor[k], row[k])'
    BY <1>1 DEF CursorSound, NotAhead, Covers, server
  <2>3. NotAhead(k, tick[k].cursor)' /\ Covers(k, tick[k].cursor, tick[k].rows)'
    BY <1>3, <2>1 DEF TickIsSound, NotAhead, Covers, server
  <2>4. NotOvertaken(k)'
    BY <1>3, <2>1 DEF TickIsSound, NotOvertaken
  <2> QED
    BY <2>2, <2>3, <2>4 DEF CursorSound
<1> QED
  BY <1>2, <1>3

LEMMA TickWasSound ==
  ASSUME CInv, NEW l \in Labels, tick[l].pc # "idle"
  PROVE  TickIsSound(l, tick[l])
  BY DEF CInv, CursorSound, TickIsSound, NotOvertaken

(* So does one that only gives rows a status and keeps the cursor.          *)
LEMMA SameCursorIsSound ==
  ASSUME CInv, NEW l \in Labels, tick[l].pc # "idle", NEW t,
         t.pc # "sync", t.cursor = tick[l].cursor, t.columns = tick[l].columns,
         \A m \in Messages : tick[l].rows[m].status # "none" => t.rows[m].status # "none"
  PROVE  TickIsSound(l, t)
<1>1. TickIsSound(l, tick[l])
  BY TickWasSound
<1> QED
  BY <1>1 DEF TickIsSound, NotAhead, Covers

LEMMA IdleIsSound ==
  ASSUME CInv, NEW l \in Labels, tick' = [tick EXCEPT ![l] = Idle],
         UNCHANGED server,
         \A k \in Labels : k # l => cursor'[k] = cursor[k] /\ row'[k] = row[k],
         NotAhead(l, cursor'[l]), Covers(l, cursor'[l], row'[l])
  PROVE  \A k \in Labels : CursorSound(k)'
<1> SUFFICES ASSUME NEW k \in Labels PROVE CursorSound(k)'
  OBVIOUS
<1>1. TypeOK /\ CursorSound(k)
  BY DEF CInv, TInv
<1>2. CASE k # l
  <2>1. Untouched(k)
    BY <1>1, <1>2 DEF Untouched, server, TypeOK
  <2> QED
    BY <1>1, <2>1, UntouchedIsSound
<1>3. CASE k = l
  <2>1. tick'[k].pc = "idle"
    BY <1>1, <1>3 DEF TypeOK, Idle
  <2> QED
    BY <1>3, <2>1 DEF CursorSound, NotAhead, Covers, server
<1> QED
  BY <1>2, <1>3

LEMMA SynchedFields ==
  ASSUME NEW t \in Tick, NEW rows, NEW c, NEW columns
  PROVE  /\ Synced(t, rows, c, columns).cursor = c
         /\ Synced(t, rows, c, columns).columns = columns
         /\ Synced(t, rows, c, columns).rows = rows
         /\ Synced(t, rows, c, columns).pc = "detect"
  BY DEF Synced, Tick

(* A first listing names every message there is.                            *)
LEMMA FullListingCovers ==
  ASSUME TInv, NEW l \in Labels, NEW rows \in [Messages -> Row]
  PROVE  /\ NotAhead(l, CursorAfter(l, Uids(l)))
         /\ Covers(l, CursorAfter(l, Uids(l)), Listed(l, rows, 1))
<1> DEFINE c == CursorAfter(l, Uids(l))
<1>1. TypeOK /\ ServerSound
  BY DEF TInv
<1>2. /\ c \in Cursor /\ c.uidvalidity = validity[l]
      /\ Uids(l) # {} => c.last \in Uids(l)
      /\ Uids(l) = {} => c.last = 0
  BY CursorAfterType
<1>3. \A m \in Messages : box[l][m] \in Nat /\ box[l][m] < nextUid[l]
  BY <1>1 DEF TypeOK, ServerSound
<1>4. validity[l] \in Nat /\ nextUid[l] \in Nat /\ 0 < nextUid[l]
  BY <1>1 DEF TypeOK, ServerSound
<1>5. \A m \in Messages : box[l][m] # 0 => Listed(l, rows, 1)[m].status # "none"
  BY <1>1, <1>3, ListedRows
<1>6. Uids(l) # {} => c.last < nextUid[l]
  BY <1>2, UidsAreBounded
<1> HIDE DEF c
<1>7. Covers(l, c, Listed(l, rows, 1))
  <2>1. CASE Uids(l) = {}
    <3>1. \A m \in Messages : box[l][m] = 0
      BY <2>1, UidsAreBounded
    <3> QED
      BY <1>2, <1>4, <2>1, <3>1 DEF Covers
  <2>2. CASE Uids(l) # {}
    BY <1>5, <1>6, <2>2 DEF Covers
  <2> QED
    BY <2>1, <2>2
<1>8. NotAhead(l, c)
  BY <1>2, <1>4 DEF NotAhead
<1> QED
  BY <1>7, <1>8 DEF c

LEMMA InitialIsSound ==
  ASSUME CInv, NEW l \in Labels, tick[l].pc = "sync", Initial(l)
  PROVE  TickIsSound(l, InitialMade(l))
<1> DEFINE c == CursorAfter(l, Uids(l))
<1>1. TInv /\ TypeOK /\ ServerSound
  BY DEF CInv, TInv
<1>2. /\ tick[l] \in Tick /\ tick[l].cursor \in Cursor /\ tick[l].rows \in [Messages -> Row]
      /\ validity[l] \in Nat /\ validity[l] >= 1
  BY <1>1, TickType DEF ServerSound
<1>3. c \in Cursor /\ c.uidvalidity = validity[l]
  BY <1>1, CursorAfterType
<1>4. NotAhead(l, c) /\ Covers(l, c, Listed(l, tick[l].rows, 1))
  BY <1>1, <1>2, FullListingCovers
<1>5. TickIsSound(l, tick[l])
  BY TickWasSound
<1>6. /\ InitialMade(l).cursor = c
      /\ InitialMade(l).columns = Changed(tick[l].cursor, c)
      /\ InitialMade(l).rows = Listed(l, tick[l].rows, 1)
      /\ InitialMade(l).pc = "detect"
  BY <1>2, SynchedFields DEF InitialMade
<1> HIDE DEF c
<1>7. "uidvalidity" \in Changed(tick[l].cursor, c)
  BY <1>2, <1>3, ColumnsAreTyped DEF Initial
<1>8. "last" \notin Changed(tick[l].cursor, c)
        => "last" \notin tick[l].columns /\ c.last = tick[l].cursor.last
  <2>1. tick[l].columns = {}
    BY <1>5 DEF TickIsSound
  <2> QED
    BY <1>2, <1>3, <2>1, ColumnsAreTyped
<1> QED
  BY <1>4, <1>5, <1>6, <1>7, <1>8 DEF TickIsSound

LEMMA IncrementalIsSound ==
  ASSUME CInv, NEW l \in Labels, tick[l].pc = "sync", Incremental(l),
         Found(l, From(tick[l])) # {}
  PROVE  TickIsSound(l, IncrementalMade(l))
<1> DEFINE t == tick[l]
           c == FoundAfter(l)
           uids == Found(l, From(t))
<1>1. TInv /\ TypeOK /\ ServerSound
  BY DEF CInv, TInv
<1>2. /\ t \in Tick /\ t.cursor \in Cursor /\ t.rows \in [Messages -> Row]
      /\ validity[l] \in Nat /\ nextUid[l] \in Nat
      /\ t.cursor.uidvalidity \in Nat /\ t.cursor.last \in Nat
  BY <1>1, TickType DEF Cursor
<1>3. From(t) = t.cursor.last + 1 /\ From(t) \in Nat
  BY <1>2 DEF From
<1>4. uids \in SUBSET Uids(l) /\ \A u \in uids : u >= From(t)
  BY DEF Found
<1>5. /\ c \in Cursor /\ c.uidvalidity = validity[l] /\ c.last \in uids
      /\ \A u \in uids : u <= c.last
  BY <1>1, <1>4, CursorAfterType DEF FoundAfter
<1>6. c.last \in Nat /\ c.last < nextUid[l] /\ c.last > t.cursor.last
  BY <1>1, <1>2, <1>3, <1>4, <1>5, UidsAreBounded
<1>7. TickIsSound(l, t) /\ t.cursor.uidvalidity = validity[l]
  BY TickWasSound DEF Incremental
<1>8. /\ IncrementalMade(l).cursor = c
      /\ IncrementalMade(l).columns = Changed(t.cursor, c)
      /\ IncrementalMade(l).rows = Listed(l, t.rows, From(t))
      /\ IncrementalMade(l).pc = "detect"
  BY <1>2, SynchedFields DEF IncrementalMade
<1>9. Covers(l, c, Listed(l, t.rows, From(t)))
  <2>1. SUFFICES ASSUME NEW m \in Messages, box[l][m] # 0, box[l][m] <= c.last
                 PROVE  Listed(l, t.rows, From(t))[m].status # "none"
    BY <1>6 DEF Covers
  <2>2. box[l][m] \in Nat
    BY <1>1, TickType
  <2>3. CASE box[l][m] >= From(t)
    BY <1>1, <1>2, <1>3, <2>1, <2>3, ListedRows
  <2>4. CASE box[l][m] <= t.cursor.last
    <3>1. t.rows[m].status # "none"
      BY <1>7, <2>1, <2>4 DEF TickIsSound, Covers
    <3> QED
      BY <1>1, <1>2, <1>3, <3>1, ListedRows
  <2> QED
    BY <1>2, <1>3, <2>2, <2>3, <2>4
<1>10. NotAhead(l, c)
  BY <1>2, <1>5 DEF NotAhead
<1>11. "last" \in Changed(t.cursor, c)
  BY <1>2, <1>5, <1>6, ColumnsAreTyped
<1>12. cursor[l].uidvalidity \in {0, c.uidvalidity}
  BY <1>5, <1>7 DEF TickIsSound
<1> HIDE DEF c, t
<1> QED
  BY <1>8, <1>9, <1>10, <1>11, <1>12 DEF TickIsSound

LEMMA StartOverIsSound ==
  ASSUME CInv, NEW l \in Labels, NEW refused \in BOOLEAN
  PROVE  TickIsSound(l, StartOverMade(l, refused))
<1>1. TInv /\ TypeOK /\ ServerSound
  BY DEF CInv, TInv
<1>2. /\ tick[l] \in Tick /\ validity[l] \in Nat /\ validity[l] >= 1
      /\ Dropped \in [Messages -> Row]
  BY <1>1, TickType, ConstantsAreTyped DEF ServerSound
<1>3. /\ StartOverMade(l, refused).columns = {"uidvalidity", "last"}
      /\ StartOverMade(l, refused).pc = "detect"
  BY <1>2, SynchedFields DEF StartOverMade
<1>4. CASE refused
  <2>1. StartOverMade(l, refused).cursor = NoCursor
    BY <1>2, <1>4, SynchedFields DEF StartOverMade
  <2> QED
    BY <1>2, <1>3, <2>1 DEF TickIsSound, NotAhead, Covers, NoCursor
<1>5. CASE ~refused
  <2>1. /\ StartOverMade(l, refused).cursor = CursorAfter(l, Uids(l))
        /\ StartOverMade(l, refused).rows = Listed(l, Dropped, 1)
    BY <1>2, <1>5, SynchedFields DEF StartOverMade
  <2> QED
    BY <1>1, <1>2, <1>3, <2>1, FullListingCovers DEF TickIsSound
<1> QED
  BY <1>4, <1>5

(* The commit writes the columns the tick has updated; the others hold what it
   loaded or a rescan's reset, and either goes with its rows.               *)
LEMMA CommitIsSound ==
  ASSUME CInv, NEW l \in Labels, tick[l].pc # "idle"
  PROVE  LET c == CommittedCursor(tick[l], cursor[l])
         IN  NotAhead(l, c) /\ Covers(l, c, tick[l].rows)
<1> DEFINE t == tick[l]
           c == CommittedCursor(t, cursor[l])
<1>1. TypeOK /\ ServerSound
  BY DEF CInv, TInv
<1>2. TickIsSound(l, t)
  BY TickWasSound
<1>3. /\ validity[l] \in Nat /\ validity[l] >= 1 /\ nextUid[l] \in Nat
      /\ 0 < nextUid[l] /\ t.cursor \in Cursor /\ box[l] \in [Messages -> Nat]
  BY <1>1, TickType DEF ServerSound
<1>4. c.uidvalidity \in {0, t.cursor.uidvalidity} /\ c.last \in {0, t.cursor.last}
  BY <1>2 DEF CommittedCursor, TickIsSound
<1> HIDE DEF t, c
<1>5. NotAhead(l, c)
  BY <1>2, <1>3, <1>4 DEF NotAhead, TickIsSound
<1>6. Covers(l, c, t.rows)
  <2>1. SUFFICES ASSUME c.uidvalidity = validity[l]
                 PROVE  /\ c.last < nextUid[l]
                        /\ \A m \in Messages : box[l][m] # 0 /\ box[l][m] <= c.last
                                                 => t.rows[m].status # "none"
    BY DEF Covers
  <2>2. t.cursor.uidvalidity = validity[l]
    BY <1>3, <1>4, <2>1
  <2>3. Covers(l, t.cursor, t.rows)
    BY <1>2 DEF TickIsSound
  <2>4. CASE c.last = t.cursor.last
    BY <2>2, <2>3, <2>4 DEF Covers
  <2>5. CASE c.last = 0
    BY <1>3, <2>5
  <2> QED
    BY <1>4, <2>4, <2>5
<1> QED
  BY <1>5, <1>6 DEF c, t

LEMMA StepCursor == CInv /\ DInv /\ [Next]_vars => CInv'
<1> SUFFICES ASSUME CInv, DInv, [Next]_vars PROVE \A l \in Labels : CursorSound(l)'
  BY StepType DEF CInv
<1> DEFINE Goal == \A l \in Labels : CursorSound(l)'
<1>0. TInv /\ TypeOK /\ ServerSound /\ \A l \in Labels : CursorSound(l)
  BY DEF CInv, TInv
<1>1. ASSUME NEW l \in Labels, Begin(l) PROVE Goal
  <2> DEFINE t == [Idle EXCEPT !.pc = "sync", !.cursor = cursor[l], !.rows = row[l]]
  <2>1. /\ t \in Tick /\ t.cursor = cursor[l] /\ t.rows = row[l]
        /\ t.columns = {}
    BY <1>0, ConstantsAreTyped, TickType DEF Tick, Idle
  <2>2. TickIsSound(l, t)
    BY <1>0, <2>1 DEF TickIsSound, CursorSound
  <2> QED
    BY <1>1, <2>1, <2>2, TickPutIsSound DEF Begin, stored
<1>2. ASSUME NEW l \in Labels, tick[l].pc = "sync",
             tick' = [tick EXCEPT ![l].pc = "detect"], UNCHANGED <<server, stored>>
      PROVE  Goal
  <2> DEFINE t == [tick[l] EXCEPT !.pc = "detect"]
  <2>1. /\ t \in Tick /\ t.pc = "detect" /\ t.cursor = tick[l].cursor
        /\ t.columns = tick[l].columns /\ t.rows = tick[l].rows
    BY <1>0, TickType DEF Tick
  <2>2. tick' = [tick EXCEPT ![l] = t]
    BY <1>0, <1>2 DEF TypeOK, Tick
  <2> HIDE DEF t
  <2>3. TickIsSound(l, t)
    BY <1>2, <2>1, SameCursorIsSound
  <2> QED
    BY <1>2, <2>1, <2>2, <2>3, TickPutIsSound DEF stored
<1>3. ASSUME NEW l \in Labels, Sync(l) PROVE Goal
  <2>1. CASE Initial(l)
    BY <1>0, <1>3, <2>1, SyncMakes, SyncMadeType, InitialIsSound, TickPutIsSound
    DEF Sync, stored
  <2>2. CASE Incremental(l)
    <3>1. CASE tick' = [tick EXCEPT ![l] = [tick[l] EXCEPT !.pc = "detect"]]
      BY <1>2, <1>3, <3>1 DEF Sync
    <3>2. CASE /\ Found(l, From(tick[l])) # {}
               /\ tick' = [tick EXCEPT ![l] = IncrementalMade(l)]
      BY <1>0, <1>3, <2>2, <3>2, SyncMadeType, IncrementalIsSound, TickPutIsSound
      DEF Sync, stored
    <3> QED
      BY <1>0, <2>2, <3>1, <3>2, SyncMakes
  <2>3. CASE StartOver(l, FALSE)
    BY <1>0, <1>3, <2>3, SyncMakes, SyncMadeType, StartOverIsSound, TickPutIsSound
    DEF Sync, stored
  <2> QED
    BY <1>3, <2>1, <2>2, <2>3 DEF Sync
<1>4. ASSUME NEW l \in Labels, Refused(l) PROVE Goal
  <2>1. CASE StartOver(l, TRUE)
    BY <1>0, <1>4, <2>1, SyncMakes, SyncMadeType, StartOverIsSound, TickPutIsSound
    DEF Refused, stored
  <2>2. CASE tick' = [tick EXCEPT ![l].pc = "detect"]
    BY <1>2, <1>4, <2>2 DEF Refused
  <2> QED
    BY <1>4, <2>1, <2>2 DEF Refused
<1>5. ASSUME NEW l \in Labels, NEW rows \in [Messages -> Row], ToIngest(l, rows),
             tick[l].pc = "detect", UNCHANGED <<server, stored>>,
             \A m \in Messages : tick[l].rows[m].status # "none" => rows[m].status # "none"
      PROVE  Goal
  <2>1. /\ Ingesting(l, rows) \in Tick /\ Ingesting(l, rows).pc = "ingest"
        /\ Ingesting(l, rows).cursor = tick[l].cursor
        /\ Ingesting(l, rows).columns = tick[l].columns
        /\ Ingesting(l, rows).rows = rows
    BY <1>0, TickType, PendingType DEF Ingesting, Tick
  <2>2. tick' = [tick EXCEPT ![l] = Ingesting(l, rows)]
    BY <1>0, <1>5 DEF ToIngest, Ingesting, TypeOK, Tick
  <2> QED
    <3>1. TickIsSound(l, Ingesting(l, rows))
      <4> HIDE DEF Ingesting
      <4> QED
        BY <1>5, <2>1, SameCursorIsSound
    <3> QED
      BY <1>5, <2>1, <2>2, <3>1, TickPutIsSound DEF stored
<1>6. ASSUME NEW l \in Labels, Detect(l) PROVE Goal
  BY <1>0, <1>5, <1>6, UnlabeledRows DEF Detect
<1>7. ASSUME NEW l \in Labels, DetectRefused(l) PROVE Goal
  BY <1>0, <1>5, <1>7, TickType DEF DetectRefused
<1> DEFINE Keeps(l, t) ==
             /\ t \in Tick /\ tick' = [tick EXCEPT ![l] = t] /\ t.pc # "sync"
             /\ t.cursor = tick[l].cursor /\ t.columns = tick[l].columns
             /\ \A m \in Messages : t.rows[m].status = tick[l].rows[m].status
<1>8. ASSUME NEW l \in Labels, NEW t, Keeps(l, t), tick[l].pc # "idle",
             UNCHANGED <<server, cursor, row>>
      PROVE  Goal
  <2>1. TickIsSound(l, t)
    BY <1>8, SameCursorIsSound
  <2> QED
    BY <1>8, <2>1, TickPutIsSound
<1>9. ASSUME NEW l \in Labels, NEW m \in Messages, NEW d \in DocIds
      PROVE  LET t == LinkMade(l, m, d)
                 c == CreationMade(l, m, d)
             IN  /\ t \in Tick /\ t.pc = tick[l].pc /\ t.cursor = tick[l].cursor
                 /\ t.columns = tick[l].columns
                 /\ \A k \in Messages : t.rows[k].status = tick[l].rows[k].status
                 /\ c \in Tick /\ c.pc = tick[l].pc /\ c.cursor = tick[l].cursor
                 /\ c.columns = tick[l].columns
                 /\ \A k \in Messages : c.rows[k].status = tick[l].rows[k].status
  <2>1. /\ tick[l] \in Tick /\ tick[l].rows \in [Messages -> Row]
        /\ LinkMade(l, m, d) \in Tick /\ CreationMade(l, m, d) \in Tick
    BY <1>0, TickType, TickMoves DEF LinkMade, CreationMade
  <2>2. /\ LinkMade(l, m, d).cursor = tick[l].cursor
        /\ LinkMade(l, m, d).columns = tick[l].columns
        /\ LinkMade(l, m, d).rows = [tick[l].rows EXCEPT ![m].doc = d]
    BY <2>1 DEF LinkMade, Tick
  <2>3. /\ CreationMade(l, m, d).cursor = tick[l].cursor
        /\ CreationMade(l, m, d).columns = tick[l].columns
        /\ CreationMade(l, m, d).rows = [tick[l].rows EXCEPT ![m].doc = d]
    BY <2>1 DEF CreationMade, Tick
  <2>4. \A k \in Messages :
          [tick[l].rows EXCEPT ![m].doc = d][k].status = tick[l].rows[k].status
    BY <2>1 DEF Row
  <2> QED
    BY <1>0, <2>1, <2>2, <2>3, <2>4, IngestedFields
<1>10. ASSUME NEW l \in Labels, NEW m \in Messages, m \in tick[l].todo
       PROVE  tick[l].pc \notin {"idle", "sync"}
  BY <1>10 DEF DInv, Fits, Early
<1>11. ASSUME NEW l \in Labels, NEW m \in Messages, Ingest(l, m) PROVE Goal
  <2>1. CASE Links(l, m)
    BY <1>0, <1>8, <1>9, <1>10, <1>11, <2>1, IngestMakes, SameBytesAreLinked DEF Ingest
  <2>2. CASE Creates(l, m)
    <3>1. Min(Unused) \in DocIds
      BY <2>2, UnusedLeast DEF Creates
    <3>2. Keeps(l, CreationMade(l, m, Min(Unused)))
      BY <1>0, <1>9, <1>10, <1>11, <2>2, <3>1, IngestMakes DEF Ingest
    <3> QED
      BY <1>8, <1>10, <1>11, <3>2 DEF Ingest
  <2> QED
    BY <1>11, <2>1, <2>2 DEF Ingest
<1>12. ASSUME NEW l \in Labels, NEW m \in Messages, IngestFails(l, m) PROVE Goal
  <2> DEFINE t == [tick[l] EXCEPT !.todo = @ \ {m}]
  <2>1. /\ t \in Tick /\ t.pc = tick[l].pc /\ t.cursor = tick[l].cursor
        /\ t.columns = tick[l].columns /\ t.rows = tick[l].rows
    BY <1>0, TickType DEF Tick
  <2>2. tick' = [tick EXCEPT ![l] = t]
    BY <1>0, <1>12 DEF IngestFails, RolledBack, TypeOK, Tick
  <2> HIDE DEF t
  <2> QED
    BY <1>8, <1>10, <1>12, <2>1, <2>2 DEF IngestFails
<1>13. ASSUME NEW l \in Labels, Lifecycle(l) PROVE Goal
  <2> DEFINE t == LifecycleMade(l)
  <2>1. /\ t \in Tick /\ t.pc = "commit" /\ t.cursor = tick[l].cursor
        /\ t.columns = tick[l].columns /\ t.rows = tick[l].rows
    <3>1. tick[l] \in Tick /\ t \in Tick
      BY <1>0, TickType, TickMoves, LifecycleSets DEF LifecycleMade
    <3> QED
      BY <3>1 DEF LifecycleMade, Tick
  <2>2. tick' = [tick EXCEPT ![l] = t]
    BY <1>0, <1>13 DEF Lifecycle, LifecycleMade, TypeOK, Tick
  <2> HIDE DEF t
  <2> QED
    BY <1>8, <1>13, <2>1, <2>2 DEF Lifecycle, stored
<1>14. ASSUME NEW l \in Labels, Commit(l) PROVE Goal
  <2>1. /\ tick' = [tick EXCEPT ![l] = Idle] /\ UNCHANGED server
        /\ cursor'[l] = CommittedCursor(tick[l], cursor[l]) /\ row'[l] = tick[l].rows
        /\ \A k \in Labels : k # l => cursor'[k] = cursor[k] /\ row'[k] = row[k]
    BY <1>0, <1>14 DEF Commit, TypeOK
  <2>2. tick[l].pc # "idle"
    BY <1>14 DEF Commit
  <2>3. NotAhead(l, cursor'[l]) /\ Covers(l, cursor'[l], row'[l])
    BY <2>1, <2>2, CommitIsSound
  <2> QED
    BY <2>1, <2>3, IdleIsSound
<1>15. ASSUME NEW l \in Labels, TickFails(l) PROVE Goal
  <2>1. NotAhead(l, cursor'[l]) /\ Covers(l, cursor'[l], row'[l])
    BY <1>0, <1>15 DEF TickFails, CursorSound
  <2> QED
    BY <1>15, <2>1, IdleIsSound DEF TickFails, Discarded
<1>16. ASSUME NEW l \in Labels, NEW m \in Messages, Arrive(l, m) PROVE Goal
  <2> SUFFICES ASSUME NEW k \in Labels PROVE CursorSound(k)'
    OBVIOUS
  <2>1. CASE k # l
    <3>1. Untouched(k)
      BY <1>0, <1>16, <2>1 DEF Arrive, Untouched, stored, TypeOK
    <3> QED
      BY <1>0, <3>1, UntouchedIsSound
  <2>2. CASE k = l
    <3>1. /\ box'[l] = [box[l] EXCEPT ![m] = nextUid[l]] /\ nextUid'[l] = nextUid[l] + 1
          /\ UNCHANGED <<validity, cursor, row, tick>>
      BY <1>0, <1>16 DEF Arrive, stored, TypeOK
    <3>2. /\ nextUid[l] \in Nat /\ box[l] \in [Messages -> Nat]
          /\ cursor[l].last \in Nat /\ tick[l].cursor.last \in Nat
      BY <1>0, TickType DEF Cursor
    <3>3. \A c, rows : c.last \in Nat /\ Covers(l, c, rows) =>
            (c.uidvalidity = validity'[l] =>
               /\ c.last < nextUid'[l]
               /\ \A i \in Messages : box'[l][i] # 0 /\ box'[l][i] <= c.last
                                        => rows[i].status # "none")
      BY <3>1, <3>2 DEF Covers
    <3>4. Covers(l, cursor[l], row[l])'
      BY <1>0, <3>1, <3>2, <3>3 DEF CursorSound, Covers
    <3>5. tick[l].pc # "idle" => Covers(l, tick[l].cursor, tick[l].rows)'
      BY <1>0, <3>1, <3>2, <3>3 DEF CursorSound, Covers
    <3> QED
      BY <1>0, <2>2, <3>1, <3>4, <3>5 DEF CursorSound, NotAhead, NotOvertaken
  <2> QED
    BY <2>1, <2>2
<1>17. ASSUME NEW l \in Labels, NEW m \in Messages, Leave(l, m) PROVE Goal
  <2> SUFFICES ASSUME NEW k \in Labels PROVE CursorSound(k)'
    OBVIOUS
  <2>1. /\ UNCHANGED <<nextUid, validity, cursor, row, tick>>
        /\ \A i \in Messages : box'[k][i] \in {0, box[k][i]}
    BY <1>0, <1>17 DEF Leave, stored, TypeOK
  <2>2. \A c, rows : Covers(k, c, rows) =>
          (c.uidvalidity = validity'[k] =>
             /\ c.last < nextUid'[k]
             /\ \A i \in Messages : box'[k][i] # 0 /\ box'[k][i] <= c.last
                                      => rows[i].status # "none")
    BY <2>1 DEF Covers
  <2>3. Covers(k, cursor[k], row[k])'
    BY <1>0, <2>1, <2>2 DEF CursorSound, Covers
  <2>4. tick[k].pc # "idle" => Covers(k, tick[k].cursor, tick[k].rows)'
    BY <1>0, <2>1, <2>2 DEF CursorSound, Covers
  <2> QED
    BY <1>0, <2>1, <2>3, <2>4 DEF CursorSound, NotAhead, NotOvertaken
<1>18. ASSUME NEW l \in Labels, Renumber(l) PROVE Goal
  <2> SUFFICES ASSUME NEW k \in Labels PROVE CursorSound(k)'
    OBVIOUS
  <2>1. CASE k # l
    <3>1. Untouched(k)
      BY <1>0, <1>18, <2>1 DEF Renumber, Untouched, stored, TypeOK
    <3> QED
      BY <1>0, <3>1, UntouchedIsSound
  <2>2. CASE k = l
    <3>1. validity'[l] = validity[l] + 1 /\ UNCHANGED <<cursor, row, tick>>
      BY <1>0, <1>18 DEF Renumber, stored, TypeOK
    <3>2. /\ validity[l] \in Nat /\ cursor[l].uidvalidity \in Nat
          /\ tick[l].cursor.uidvalidity \in Nat
      BY <1>0, TickType DEF Cursor
    <3> QED
      BY <1>0, <2>2, <3>1, <3>2 DEF CursorSound, NotAhead, Covers, NotOvertaken
  <2> QED
    BY <2>1, <2>2
<1>19. ASSUME NEW l \in Labels, Rescan(l) PROVE Goal
  <2> SUFFICES ASSUME NEW k \in Labels PROVE CursorSound(k)'
    OBVIOUS
  <2>1. CASE k # l
    <3>1. Untouched(k)
      BY <1>0, <1>19, <2>1 DEF Rescan, Untouched, server, TypeOK
    <3> QED
      BY <1>0, <3>1, UntouchedIsSound
  <2>2. CASE k = l
    <3>1. /\ cursor'[l] = NoCursor /\ UNCHANGED <<server, row, tick>>
          /\ tick[l].columns = {}
      BY <1>0, <1>19 DEF Rescan, TypeOK
    <3>2. /\ validity[l] \in Nat /\ validity[l] >= 1
          /\ NoCursor.uidvalidity = 0 /\ NoCursor.last = 0
      BY <1>0, TickType DEF ServerSound, NoCursor
    <3>3. NotAhead(l, cursor[l])' /\ Covers(l, cursor[l], row[l])'
      BY <3>1, <3>2 DEF NotAhead, Covers, server
    <3>4. tick[l].pc # "idle" =>
            NotAhead(l, tick[l].cursor)' /\ Covers(l, tick[l].cursor, tick[l].rows)'
      BY <1>0, <3>1 DEF CursorSound, NotAhead, Covers, server
    <3>5. NotOvertaken(l)'
      BY <3>1, <3>2 DEF NotOvertaken
    <3> QED
      BY <2>2, <3>1, <3>3, <3>4, <3>5 DEF CursorSound
  <2> QED
    BY <2>1, <2>2
<1>20. ASSUME NEW l \in Labels, Unwatch(l) PROVE Goal
  <2>1. /\ cursor'[l] = NoCursor /\ tick' = [tick EXCEPT ![l] = Idle] /\ UNCHANGED server
        /\ \A k \in Labels : k # l => cursor'[k] = cursor[k] /\ row'[k] = row[k]
    BY <1>0, <1>20 DEF Unwatch, Discarded, TypeOK
  <2>2. validity[l] \in Nat /\ validity[l] >= 1 /\ NoCursor.uidvalidity = 0
    BY <1>0, TickType DEF ServerSound, NoCursor
  <2>3. NotAhead(l, cursor'[l]) /\ Covers(l, cursor'[l], row'[l])
    BY <2>1, <2>2 DEF NotAhead, Covers
  <2> QED
    BY <2>1, <2>3, IdleIsSound
<1>21. ASSUME UNCHANGED <<server, cursor, row, tick>> PROVE Goal
  BY <1>0, <1>21, UntouchedIsSound DEF Untouched, server
<1>22. CASE Purge
  <2> SUFFICES ASSUME NEW k \in Labels PROVE CursorSound(k)'
    OBVIOUS
  <2>1. /\ tick[k] \in Tick /\ tick[k].rows \in [Messages -> Row]
        /\ row[k] \in [Messages -> Row]
    BY <1>0, TickType
  <2>2. /\ row'[k] = Unlinked(row[k]) /\ tick'[k] = [tick[k] EXCEPT !.rows = Unlinked(@)]
        /\ UNCHANGED <<server, cursor>>
    BY <1>22 DEF Purge
  <2>3. /\ tick'[k].rows = Unlinked(tick[k].rows) /\ tick'[k].pc = tick[k].pc
        /\ tick'[k].cursor = tick[k].cursor /\ tick'[k].columns = tick[k].columns
    BY <2>1, <2>2 DEF Tick
  <2>4. \A m \in Messages : /\ Unlinked(row[k])[m].status = row[k][m].status
                            /\ Unlinked(tick[k].rows)[m].status = tick[k].rows[m].status
    BY <2>1, UnlinkedRows
  <2>5. NotAhead(k, cursor[k])' /\ Covers(k, cursor[k], row[k])'
    BY <1>0, <2>2, <2>4 DEF CursorSound, NotAhead, Covers, server
  <2>6. tick'[k].pc # "idle" =>
          NotAhead(k, tick[k].cursor)' /\ Covers(k, tick[k].cursor, tick[k].rows)'
    BY <1>0, <2>2, <2>3, <2>4 DEF CursorSound, NotAhead, Covers, server
  <2>7. tick'[k].pc # "idle" => NotOvertaken(k)'
    BY <1>0, <2>2, <2>3 DEF CursorSound, NotOvertaken
  <2> QED
    BY <2>5, <2>6, <2>7 DEF CursorSound
<1> QED
  BY <1>1, <1>3, <1>4, <1>6, <1>7, <1>11, <1>12, <1>13, <1>14, <1>15, <1>16, <1>17,
     <1>18, <1>19, <1>20, <1>21, <1>22
  DEF Next, TickStep, FaultStep, ServerStep, AdminStep, Watch, DeleteDocument,
      SelectExpired, SixtyDays, vars, stored

-----------------------------------------------------------------------------
(* sync.py, cursor.py and on_tick: in whatever order listings, refusals, a new
   UIDVALIDITY, a rescan and the one commit come, the committed cursor never
   passes a message that has no row.                                       *)
THEOREM CursorIsSound == Spec => []CursorCoversRows
<1>1. CInv => CursorCoversRows
  BY DEF CInv, CursorSound, Covers, CursorCoversRows
<1> QED
  BY <1>1, InitCursor, StepCursor, InitDocuments, StepDocuments, PTL DEF Spec

(* ingest_pending_messages' savepoint and on_tick's commit: no step shows a
   document unless it commits a row that points to it.                     *)
THEOREM NoGhosts == Spec => NoGhostDocuments
<1>1. DInv /\ [Next]_vars => [NoGhostAppears]_vars
  BY StepDocuments
<1>2. ASSUME [NoGhostAppears]_vars
      PROVE  [\A d \in DocIds : (Visible(d))' /\ ~Visible(d)
                => \E l \in Labels, m \in Messages : row'[l][m].doc = d]_vars
  BY <1>2 DEF NoGhostAppears
<1> QED
  BY <1>1, <1>2, InitDocuments, StepDocuments, PTL DEF Spec, NoGhostDocuments
=============================================================================
