------------------------ MODULE WatchedFolderProofs ------------------------
(***************************************************************************)
(* Proofs about WatchedFolder, for any names, contents and bounds, with    *)
(* every fault the model has:                                              *)
(*   TypeCorrect          the type invariant;                              *)
(*   FollowRows           DocumentsFollowRows;                             *)
(*   DeletedForGood       DeletedStaysDeleted;                             *)
(*   OnlyFilesMove        CopiesAreNotMoves.                               *)
(* A handler is a composition of the operators on the tables, so each of   *)
(* these is shown to keep the tables in order and to change documents only *)
(* as Keeps allows, and so is what is composed of them.                    *)
(***************************************************************************)
EXTENDS WatchedFolder, Extrema, SequenceTheorems, FiniteSetTheorems, TLAPS

-----------------------------------------------------------------------------
(* The tables as a transaction sees them                                   *)

Tables == [rows: [Paths -> Row], docs: Seq(Document), recent: [Paths -> Nat],
           raised: BOOLEAN]

(* The rows and the documents fit: a row's document exists and is hidden
   exactly when the row is, unless an administrator deleted it; no two rows
   share one, and only what is gone has no row.                            *)
Fits(db) ==
  /\ \A p \in Paths : db.rows[p].doc \in 0..Len(db.docs)
  /\ \A p \in Paths : db.rows[p].status = "none" => db.rows[p].doc = 0
  /\ \A p, q \in Paths : db.rows[p].doc = db.rows[q].doc /\ db.rows[p].doc # 0 => p = q
  /\ \A p \in Paths : db.rows[p].doc # 0 =>
       db.docs[db.rows[p].doc].status \in {"deleted", db.rows[p].status}
  /\ \A d \in 1..Len(db.docs) : db.docs[d].status # "gone"
       => \E p \in Paths : db.rows[p].doc = d
  /\ \A p \in Paths : db.recent[p] # 0 => db.rows[p].status = "removed"

Good(db) == db \in Tables /\ Fits(db)

(* What a handler does to documents: none is dropped, none that is deleted or
   gone is shown, and one leaves its path only when the file there is gone.  *)
Keeps(db, after) ==
  /\ Len(db.docs) <= Len(after.docs)
  /\ \A d \in 1..Len(db.docs) :
       \/ after.docs[d].status = db.docs[d].status
       \/ /\ db.docs[d].status \in {"active", "removed"}
          /\ after.docs[d].status \in {"active", "removed"}
  /\ \A p, q \in Paths :
       p # q /\ db.rows[p].doc # 0 /\ after.rows[q].doc = db.rows[p].doc => ~There(p)

Sound == Good(Db)

-----------------------------------------------------------------------------
(* Documents by age, and the order of removal                              *)

LEMMA DocumentMoves ==
  ASSUME NEW doc \in Document
  PROVE  /\ \A s \in {"active", "removed", "deleted", "gone"} :
              /\ [doc EXCEPT !.status = s] \in Document
              /\ [doc EXCEPT !.status = s].status = s
         /\ \A b \in BOOLEAN : /\ [doc EXCEPT !.failed = b] \in Document
                               /\ [doc EXCEPT !.failed = b].status = doc.status
         /\ NewDocument \in Document /\ GoneDocument \in Document
<1>1. \A s \in {"active", "removed", "deleted", "gone"} :
        /\ [doc EXCEPT !.status = s] \in Document
        /\ [doc EXCEPT !.status = s].status = s
  BY DEF Document
<1>2. \A b \in BOOLEAN : /\ [doc EXCEPT !.failed = b] \in Document
                         /\ [doc EXCEPT !.failed = b].status = doc.status
  BY DEF Document
<1>3. NewDocument \in Document /\ GoneDocument \in Document
  BY DEF Document, NewDocument, GoneDocument
<1> QED
  BY <1>1, <1>2, <1>3

LEMMA DocumentsType ==
  ASSUME NEW ds \in Seq(Document)
  PROVE  /\ Len(ds) \in Nat /\ DOMAIN ds = 1..Len(ds)
         /\ \A d \in 1..Len(ds) : ds[d] \in Document
  BY LenProperties, ElementOfSeq

(* One document given another status, or queued.                           *)
LEMMA DocumentPut ==
  ASSUME NEW ds \in Seq(Document), NEW d \in 1..Len(ds), NEW doc \in Document
  PROVE  /\ [ds EXCEPT ![d] = doc] \in Seq(Document)
         /\ Len([ds EXCEPT ![d] = doc]) = Len(ds)
         /\ [ds EXCEPT ![d] = doc][d] = doc
         /\ \A i \in 1..Len(ds) : i # d => [ds EXCEPT ![d] = doc][i] = ds[i]
  BY ExceptSeq

LEMMA HiddenDocuments ==
  ASSUME NEW ds \in Seq(Document), NEW d \in 0..Len(ds)
  PROVE  /\ Hidden(ds, d) \in Seq(Document) /\ Len(Hidden(ds, d)) = Len(ds)
         /\ \A i \in 1..Len(ds) : i # d => Hidden(ds, d)[i] = ds[i]
         /\ d # 0 => Hidden(ds, d)[d].status =
              IF ds[d].status = "active" THEN "removed" ELSE ds[d].status
<1>1. CASE d # 0 /\ ds[d].status = "active"
  <2>1. d \in 1..Len(ds) /\ ds[d] \in Document
    BY <1>1, DocumentsType
  <2>2. Hidden(ds, d) = [ds EXCEPT ![d] = [ds[d] EXCEPT !.status = "removed"]]
    BY <1>1 DEF Hidden
  <2>3. /\ [ds[d] EXCEPT !.status = "removed"] \in Document
        /\ [ds[d] EXCEPT !.status = "removed"].status = "removed"
    BY <2>1, DocumentMoves
  <2> QED
    BY <1>1, <2>1, <2>2, <2>3, DocumentPut
<1>2. CASE ~(d # 0 /\ ds[d].status = "active")
  BY <1>2 DEF Hidden
<1> QED
  BY <1>1, <1>2

LEMMA UnhiddenDocuments ==
  ASSUME NEW ds \in Seq(Document), NEW d \in 0..Len(ds)
  PROVE  /\ Unhidden(ds, d) \in Seq(Document) /\ Len(Unhidden(ds, d)) = Len(ds)
         /\ \A i \in 1..Len(ds) : i # d => Unhidden(ds, d)[i] = ds[i]
         /\ d # 0 => Unhidden(ds, d)[d].status =
              IF ds[d].status = "removed" THEN "active" ELSE ds[d].status
<1>1. CASE d # 0 /\ ds[d].status = "removed"
  <2>1. d \in 1..Len(ds) /\ ds[d] \in Document
    BY <1>1, DocumentsType
  <2>2. Unhidden(ds, d) = [ds EXCEPT ![d] = [ds[d] EXCEPT !.status = "active"]]
    BY <1>1 DEF Unhidden
  <2>3. /\ [ds[d] EXCEPT !.status = "active"] \in Document
        /\ [ds[d] EXCEPT !.status = "active"].status = "active"
    BY <2>1, DocumentMoves
  <2> QED
    BY <1>1, <2>1, <2>2, <2>3, DocumentPut
<1>2. CASE ~(d # 0 /\ ds[d].status = "removed")
  BY <1>2 DEF Unhidden
<1> QED
  BY <1>1, <1>2

LEMMA ForgottenOrder ==
  ASSUME NEW order \in [Paths -> Nat], NEW gone
  PROVE  /\ Forgotten(order, gone) \in [Paths -> Nat]
         /\ \A p \in Paths : Forgotten(order, gone)[p] # 0 => order[p] # 0 /\ p \notin gone
<1>1. ASSUME NEW p \in Paths
      PROVE  /\ Forgotten(order, gone)[p] \in Nat
             /\ Forgotten(order, gone)[p] # 0 => order[p] # 0 /\ p \notin gone
  <2> DEFINE before == {q \in Paths \ gone : order[q] \in 1..order[p]}
  <2>1. IsFiniteSet(Names) /\ before \subseteq Names
    BY FolderAssumption DEF Names
  <2>2. Cardinality(before) \in Nat
    BY <2>1, FS_Subset, FS_CardinalityType
  <2>3. Forgotten(order, gone)[p]
          = IF p \in gone \/ order[p] = 0 THEN 0 ELSE Cardinality(before)
    BY DEF Forgotten
  <2> HIDE DEF before
  <2> QED
    BY <2>2, <2>3
<1> QED
  BY <1>1 DEF Forgotten

LEMMA LatestOrder ==
  ASSUME NEW order \in [Paths -> Nat], NEW p \in Paths
  PROVE  /\ Latest(order, p) \in [Paths -> Nat]
         /\ \A q \in Paths : Latest(order, p)[q] # 0 => q = p \/ order[q] # 0
<1> DEFINE others == Forgotten(order, {p})
<1>1. /\ others \in [Paths -> Nat]
      /\ \A q \in Paths : others[q] # 0 => order[q] # 0
  BY ForgottenOrder
<1>2. Latest(order, p) = [q \in Paths |-> IF q = p THEN 1
                                         ELSE IF others[q] = 0 THEN 0 ELSE others[q] + 1]
  BY DEF Latest
<1> HIDE DEF others
<1> QED
  BY <1>1, <1>2

-----------------------------------------------------------------------------
(* What a composition keeps                                                *)

LEMMA GoodDb ==
  ASSUME NEW db, Good(db)
  PROVE  /\ db \in Tables /\ db.rows \in [Paths -> Row] /\ db.docs \in Seq(Document)
         /\ db.recent \in [Paths -> Nat] /\ db.raised \in BOOLEAN
         /\ Len(db.docs) \in Nat
         /\ \A p \in Paths : db.rows[p] \in Row /\ db.rows[p].doc \in 0..Len(db.docs)
  BY DocumentsType DEF Good, Fits, Tables

LEMMA KeepsItself ==
  ASSUME NEW db, Good(db)
  PROVE  Keeps(db, db)
  BY GoodDb DEF Good, Fits, Keeps

(* The rows point where they pointed.                                      *)
LEMMA KeepsInPlace ==
  ASSUME NEW db, Good(db), NEW after, Len(db.docs) <= Len(after.docs),
         \A p \in Paths : after.rows[p].doc = db.rows[p].doc,
         \A d \in 1..Len(db.docs) :
           \/ after.docs[d].status = db.docs[d].status
           \/ /\ db.docs[d].status \in {"active", "removed"}
              /\ after.docs[d].status \in {"active", "removed"}
  PROVE  Keeps(db, after)
  BY DEF Good, Fits, Keeps

LEMMA KeepsOn ==
  ASSUME NEW db, NEW mid, NEW after, Good(db), Good(mid), Keeps(db, mid), Keeps(mid, after),
         Len(after.docs) \in Nat
  PROVE  Keeps(db, after)
<1>1. Len(db.docs) \in Nat /\ Len(mid.docs) \in Nat
  BY GoodDb
<1>2. Len(db.docs) <= Len(mid.docs) /\ Len(mid.docs) <= Len(after.docs)
  BY DEF Keeps
<1>3. Len(db.docs) <= Len(after.docs) /\ \A d \in 1..Len(db.docs) : d \in 1..Len(mid.docs)
  BY <1>1, <1>2
<1>4. ASSUME NEW d \in 1..Len(db.docs)
      PROVE  \/ after.docs[d].status = db.docs[d].status
             \/ /\ db.docs[d].status \in {"active", "removed"}
                /\ after.docs[d].status \in {"active", "removed"}
  BY <1>3 DEF Keeps
<1>5. ASSUME NEW p \in Paths, NEW q \in Paths, p # q, db.rows[p].doc # 0,
             after.rows[q].doc = db.rows[p].doc
      PROVE  ~There(p)
  <2> DEFINE d == db.rows[p].doc
  <2>1. d \in 1..Len(db.docs) /\ db.docs[d].status \in {"deleted", db.rows[p].status}
    BY <1>1, <1>5, GoodDb DEF Good, Fits
  <2>2. db.rows[p].status \in {"none", "active", "removed"}
    BY GoodDb DEF Row
  <2>3. mid.docs[d].status # "gone"
    BY <2>1, <2>2 DEF Keeps
  <2>4. PICK r \in Paths : mid.rows[r].doc = d
    BY <1>3, <2>1, <2>3 DEF Good, Fits
  <2> QED
    BY <1>5, <2>4 DEF Keeps
<1> QED
  BY <1>3, <1>4, <1>5 DEF Keeps

(* A transaction's step from tables in order.                              *)
Steps(db, after) == Good(after) /\ Keeps(db, after)

LEMMA StepsOn ==
  ASSUME NEW db, NEW mid, NEW after, Good(db), Steps(db, mid), Steps(mid, after)
  PROVE  Steps(db, after)
  BY KeepsOn, GoodDb DEF Steps

-----------------------------------------------------------------------------
(* What each operator does                                                 *)

LEMMA TablesPut ==
  ASSUME NEW db \in Tables, NEW rs \in [Paths -> Row], NEW ds \in Seq(Document),
         NEW order \in [Paths -> Nat]
  PROVE  [db EXCEPT !.rows = rs, !.docs = ds, !.recent = order] \in Tables
BY DEF Tables

(* The row of p, which has one, is written; it keeps its document.          *)
Rewrites(db, p, row, after) ==
  /\ after.rows = [db.rows EXCEPT ![p] = row]
  /\ row.doc = db.rows[p].doc /\ row.status # "none"
  /\ Len(after.docs) = Len(db.docs)
  /\ \A i \in 1..Len(db.docs) : i # row.doc => after.docs[i] = db.docs[i]
  /\ row.doc # 0 => \/ /\ after.docs[row.doc].status = db.docs[row.doc].status
                       /\ after.docs[row.doc].status \in {"deleted", row.status}
                    \/ /\ db.docs[row.doc].status \in {"active", "removed"}
                       /\ after.docs[row.doc].status = row.status
  /\ \A q \in Paths : after.recent[q] # 0 =>
       (q = p /\ row.status = "removed") \/ (q # p /\ db.recent[q] # 0)

LEMMA RowWritten ==
  ASSUME NEW db, Good(db), NEW p \in Paths, NEW row \in Row, NEW after \in Tables,
         db.rows[p].status # "none", Rewrites(db, p, row, after)
  PROVE  Steps(db, after)
<1>1. Len(after.docs) = Len(db.docs)
  BY DEF Rewrites
<1>2. /\ after.rows[p] = row
      /\ \A q \in Paths \ {p} : after.rows[q] = db.rows[q]
      /\ \A q \in Paths : after.rows[q].doc = db.rows[q].doc
  BY GoodDb DEF Rewrites
<1>3. Fits(after)
  <2>1. /\ \A q \in Paths : after.rows[q].doc \in 0..Len(after.docs)
        /\ \A q \in Paths : after.rows[q].status = "none" => after.rows[q].doc = 0
        /\ \A q, r \in Paths : after.rows[q].doc = after.rows[r].doc /\ after.rows[q].doc # 0
                              => q = r
    <3>1. \A q \in Paths : after.rows[q].doc \in 0..Len(after.docs)
      BY <1>1, <1>2 DEF Good, Fits
    <3>2. \A q \in Paths : after.rows[q].status = "none" => after.rows[q].doc = 0
      BY <1>2 DEF Good, Fits, Rewrites
    <3>3. \A q, r \in Paths : after.rows[q].doc = after.rows[r].doc /\ after.rows[q].doc # 0
                              => q = r
      BY <1>2 DEF Good, Fits
    <3> QED
      BY <3>1, <3>2, <3>3
  <2>2. ASSUME NEW q \in Paths, after.rows[q].doc # 0
        PROVE  after.docs[after.rows[q].doc].status \in {"deleted", after.rows[q].status}
    <3>1. CASE q = p
      BY <1>1, <1>2, <2>2, <3>1 DEF Row, Rewrites
    <3>2. CASE q # p
      <4>1. db.rows[q].doc # row.doc /\ db.rows[q].doc \in 1..Len(db.docs)
        BY <1>2, <2>2, <3>2, GoodDb DEF Good, Fits
      <4> QED
        BY <1>1, <1>2, <2>2, <3>2, <4>1 DEF Good, Fits, Rewrites
    <3> QED
      BY <3>1, <3>2
  <2>3. ASSUME NEW d \in 1..Len(after.docs), after.docs[d].status # "gone"
        PROVE  \E q \in Paths : after.rows[q].doc = d
    <3>1. d \in 1..Len(db.docs) /\ (d = row.doc \/ db.docs[d].status # "gone")
      BY <1>1, <2>3 DEF Rewrites
    <3> QED
      BY <1>2, <3>1 DEF Good, Fits
  <2>4. \A q \in Paths : after.recent[q] # 0 => after.rows[q].status = "removed"
    BY <1>1, <1>2 DEF Good, Fits, Rewrites
  <2> QED
    BY <2>1, <2>2, <2>3, <2>4 DEF Fits
<1>4. Keeps(db, after)
  <2>1. row.doc \in 0..Len(db.docs) /\ Len(db.docs) \in Nat
    BY GoodDb DEF Rewrites
  <2>2. ASSUME NEW d \in 1..Len(db.docs)
        PROVE  \/ after.docs[d].status = db.docs[d].status
               \/ /\ db.docs[d].status \in {"active", "removed"}
                  /\ after.docs[d].status \in {"active", "removed"}
    <3>1. row.status \in {"active", "removed"}
      BY DEF Row, Rewrites
    <3>2. d # row.doc => after.docs[d] = db.docs[d]
      BY <1>1 DEF Rewrites
    <3>3. d = row.doc => row.doc # 0
      BY <2>1
    <3> QED
      BY <1>1, <3>1, <3>2, <3>3 DEF Rewrites
  <2> QED
    <3>1. Len(db.docs) <= Len(after.docs)
      BY <1>1, <2>1
    <3> QED
      BY <1>2, <2>2, <3>1 DEF Keeps, Good, Fits
<1> QED
  BY <1>3, <1>4 DEF Steps, Good

LEMMA RowStatus ==
  ASSUME NEW row \in Row
  PROVE  /\ \A s \in {"none", "active", "removed"} :
              /\ [row EXCEPT !.status = s] \in Row
              /\ [row EXCEPT !.status = s].status = s
              /\ [row EXCEPT !.status = s].doc = row.doc
         /\ \A sha \in Contents \union {Empty} :
              /\ [row EXCEPT !.sha = sha] \in Row
              /\ [row EXCEPT !.sha = sha].status = row.status
              /\ [row EXCEPT !.sha = sha].doc = row.doc
BY DEF Row

LEMMA RetiredSteps ==
  ASSUME NEW db, Good(db), NEW p \in Paths, db.rows[p].status # "none"
  PROVE  Steps(db, Retired(db, p))
<1> DEFINE after == Retired(db, p)
           row == [db.rows[p] EXCEPT !.status = "removed"]
<1>1. /\ after = [db EXCEPT !.rows = [db.rows EXCEPT ![p] = row],
                            !.docs = Hidden(db.docs, db.rows[p].doc),
                            !.recent = Latest(db.recent, p)]
      /\ db \in Tables
  BY GoodDb DEF Retired
<1>2. row \in Row /\ row.doc = db.rows[p].doc /\ row.status = "removed"
  BY GoodDb, RowStatus
<1> HIDE DEF after, row
<1>3. /\ after.rows = [db.rows EXCEPT ![p] = row]
      /\ after.docs = Hidden(db.docs, db.rows[p].doc)
      /\ after.recent = Latest(db.recent, p) /\ after.raised = db.raised
  BY <1>1 DEF Tables
<1>4. /\ after.docs \in Seq(Document) /\ Len(after.docs) = Len(db.docs)
      /\ \A i \in 1..Len(db.docs) : i # row.doc => after.docs[i] = db.docs[i]
      /\ row.doc # 0 => after.docs[row.doc].status =
           IF db.docs[row.doc].status = "active" THEN "removed" ELSE db.docs[row.doc].status
  <2>1. db.docs \in Seq(Document) /\ row.doc \in 0..Len(db.docs)
    BY <1>2, GoodDb
  <2>2. after.docs = Hidden(db.docs, row.doc)
    BY <1>2, <1>3
  <2> QED
    BY <2>1, <2>2, HiddenDocuments
<1>5. row.doc # 0 => db.docs[row.doc].status \in {"deleted", "active", "removed"}
  BY <1>2, GoodDb DEF Good, Fits, Row
<1>6. /\ after.recent \in [Paths -> Nat]
      /\ \A q \in Paths : after.recent[q] # 0 =>
           (q = p /\ row.status = "removed") \/ (q # p /\ db.recent[q] # 0)
  <2>1. db.recent \in [Paths -> Nat]
    BY GoodDb
  <2> QED
    BY <1>2, <1>3, <2>1, LatestOrder
<1>7. after \in Tables
  <2> DEFINE rs == [db.rows EXCEPT ![p] = row]
             ds == Hidden(db.docs, db.rows[p].doc)
             order == Latest(db.recent, p)
  <2>1. after = [db EXCEPT !.rows = rs, !.docs = ds, !.recent = order]
    BY <1>1
  <2>2. rs \in [Paths -> Row]
    BY <1>2, GoodDb
  <2>3. ds \in Seq(Document) /\ order \in [Paths -> Nat]
    BY <1>3, <1>4, <1>6
  <2>4. db \in Tables
    BY <1>1
  <2> HIDE DEF rs, ds, order
  <2> QED
    BY <2>1, <2>2, <2>3, <2>4, TablesPut
<1>8. Steps(db, after)
  <2>1. row.doc # 0 => \/ /\ after.docs[row.doc].status = db.docs[row.doc].status
                          /\ after.docs[row.doc].status \in {"deleted", row.status}
                       \/ /\ db.docs[row.doc].status \in {"active", "removed"}
                          /\ after.docs[row.doc].status = row.status
    BY <1>2, <1>4, <1>5
  <2>2. row.status # "none"
    BY <1>2
  <2>3. Rewrites(db, p, row, after)
    BY <1>2, <1>3, <1>4, <1>6, <2>1, <2>2 DEF Rewrites
  <2> QED
    BY <1>2, <1>7, <2>3, RowWritten
<1> QED
  BY <1>8 DEF after

LEMMA RestoredSteps ==
  ASSUME NEW db, Good(db), NEW p \in Paths, db.rows[p].status # "none"
  PROVE  /\ Steps(db, Restored(db, p))
         /\ Restored(db, p).rows[p].status = "active"
<1> DEFINE after == Restored(db, p)
           row == [db.rows[p] EXCEPT !.status = "active"]
<1>1. /\ after = [db EXCEPT !.rows = [db.rows EXCEPT ![p] = row],
                            !.docs = Unhidden(db.docs, db.rows[p].doc),
                            !.recent = Forgotten(db.recent, {p})]
      /\ db \in Tables
  BY GoodDb DEF Restored
<1>2. row \in Row /\ row.doc = db.rows[p].doc /\ row.status = "active"
  BY GoodDb, RowStatus
<1> HIDE DEF after, row
<1>3. /\ after.rows = [db.rows EXCEPT ![p] = row]
      /\ after.docs = Unhidden(db.docs, db.rows[p].doc)
      /\ after.recent = Forgotten(db.recent, {p}) /\ after.raised = db.raised
  BY <1>1 DEF Tables
<1>4. /\ after.docs \in Seq(Document) /\ Len(after.docs) = Len(db.docs)
      /\ \A i \in 1..Len(db.docs) : i # row.doc => after.docs[i] = db.docs[i]
      /\ row.doc # 0 => after.docs[row.doc].status =
           IF db.docs[row.doc].status = "removed" THEN "active" ELSE db.docs[row.doc].status
  <2>1. db.docs \in Seq(Document) /\ row.doc \in 0..Len(db.docs)
    BY <1>2, GoodDb
  <2>2. after.docs = Unhidden(db.docs, row.doc)
    BY <1>2, <1>3
  <2> QED
    BY <2>1, <2>2, UnhiddenDocuments
<1>5. row.doc # 0 => db.docs[row.doc].status \in {"deleted", "active", "removed"}
  BY <1>2, GoodDb DEF Good, Fits, Row
<1>6. /\ after.recent \in [Paths -> Nat]
      /\ \A q \in Paths : after.recent[q] # 0 =>
           (q = p /\ row.status = "removed") \/ (q # p /\ db.recent[q] # 0)
  <2>1. db.recent \in [Paths -> Nat]
    BY GoodDb
  <2> QED
    BY <1>2, <1>3, <2>1, ForgottenOrder
<1>7. after \in Tables
  <2> DEFINE rs == [db.rows EXCEPT ![p] = row]
             ds == Unhidden(db.docs, db.rows[p].doc)
             order == Forgotten(db.recent, {p})
  <2>1. after = [db EXCEPT !.rows = rs, !.docs = ds, !.recent = order]
    BY <1>1
  <2>2. rs \in [Paths -> Row]
    BY <1>2, GoodDb
  <2>3. ds \in Seq(Document) /\ order \in [Paths -> Nat]
    BY <1>3, <1>4, <1>6
  <2>4. db \in Tables
    BY <1>1
  <2> HIDE DEF rs, ds, order
  <2> QED
    BY <2>1, <2>2, <2>3, <2>4, TablesPut
<1>8. Steps(db, after)
  <2>1. row.doc # 0 => \/ /\ after.docs[row.doc].status = db.docs[row.doc].status
                          /\ after.docs[row.doc].status \in {"deleted", row.status}
                       \/ /\ db.docs[row.doc].status \in {"active", "removed"}
                          /\ after.docs[row.doc].status = row.status
    BY <1>2, <1>4, <1>5
  <2>2. row.status # "none"
    BY <1>2
  <2>3. Rewrites(db, p, row, after)
    BY <1>2, <1>3, <1>4, <1>6, <2>1, <2>2 DEF Rewrites
  <2> QED
    BY <1>2, <1>7, <2>3, RowWritten
<1>9. after.rows[p] = row
  BY <1>3, GoodDb
<1> QED
  BY <1>2, <1>8, <1>9 DEF after

(* The document of p, which has one, is queued for its file to be read.     *)
LEMMA QueuedSteps ==
  ASSUME NEW db, Good(db), NEW p \in Paths, db.rows[p].doc # 0
  PROVE  LET after == Queued(db, db.rows[p].doc)
         IN  /\ Steps(db, after) /\ after.rows = db.rows /\ after.recent = db.recent
<1> DEFINE d == db.rows[p].doc
           doc == [db.docs[d] EXCEPT !.failed = FALSE]
           ds == [db.docs EXCEPT ![d] = doc]
           after == Queued(db, d)
<1>1. d \in 1..Len(db.docs) /\ db.docs \in Seq(Document) /\ db \in Tables
  BY GoodDb
<1>2. doc \in Document /\ doc.status = db.docs[d].status
  BY <1>1, DocumentsType, DocumentMoves
<1>3. after = [db EXCEPT !.docs = ds]
  BY DEF Queued
<1> HIDE DEF d, doc
<1>4. /\ ds \in Seq(Document) /\ Len(ds) = Len(db.docs) /\ ds[d] = doc
      /\ \A i \in 1..Len(db.docs) : i # d => ds[i] = db.docs[i]
  BY <1>1, <1>2, DocumentPut
<1> HIDE DEF after, ds
<1>5. /\ after \in Tables /\ after.docs = ds
      /\ after.rows = db.rows /\ after.recent = db.recent
  BY <1>1, <1>3, <1>4 DEF Tables
<1>6. \A i \in 1..Len(db.docs) : ds[i].status = db.docs[i].status
  BY <1>2, <1>4
<1>7. Good(after) /\ Keeps(db, after)
  <2>1. Fits(after)
    BY <1>4, <1>5, <1>6 DEF Good, Fits
  <2>2. Keeps(db, after)
    BY <1>1, <1>4, <1>5, <1>6, DocumentsType DEF Keeps, Good, Fits
  <2> QED
    BY <1>5, <2>1, <2>2 DEF Good
<1> QED
  BY <1>5, <1>7 DEF Steps, after, d

LEMMA BroughtUpToDateSteps ==
  ASSUME NEW db, Good(db), NEW p \in Paths
  PROVE  Steps(db, BroughtUpToDate(db, p))
<1>1. CASE db.rows[p].doc # 0 /\ db.docs[db.rows[p].doc].failed
  BY <1>1, QueuedSteps DEF BroughtUpToDate
<1>2. CASE ~(db.rows[p].doc # 0 /\ db.docs[db.rows[p].doc].failed)
  BY <1>2, KeepsItself DEF BroughtUpToDate, Steps
<1> QED
  BY <1>1, <1>2

LEMMA ReprocessedSteps ==
  ASSUME NEW db, Good(db), NEW p \in Paths, db.rows[p].status # "none",
         NEW sha \in Contents \union {Empty}
  PROVE  /\ Steps(db, Reprocessed(db, p, sha))
         /\ Reprocessed(db, p, sha).rows[p].status = db.rows[p].status
<1>1. CASE db.rows[p].doc = 0
  <2> DEFINE after == [db EXCEPT !.raised = TRUE]
  <2>1. Reprocessed(db, p, sha) = after
    BY <1>1 DEF Reprocessed
  <2>2. /\ after \in Tables /\ after.rows = db.rows /\ after.docs = db.docs
        /\ after.recent = db.recent
    BY GoodDb DEF Tables
  <2> HIDE DEF after
  <2>3. Fits(after) /\ Keeps(db, after)
    BY <2>2, KeepsItself DEF Good, Fits, Keeps
  <2> QED
    BY <2>1, <2>2, <2>3 DEF Steps, Good
<1>2. CASE db.rows[p].doc # 0
  <2> DEFINE mid == Queued(db, db.rows[p].doc)
             row == [mid.rows[p] EXCEPT !.sha = sha]
             after == [mid EXCEPT !.rows = [mid.rows EXCEPT ![p] = row]]
  <2>1. Reprocessed(db, p, sha) = after
    BY <1>2 DEF Reprocessed
  <2>2. Steps(db, mid) /\ mid.rows = db.rows
    BY <1>2, QueuedSteps
  <2> HIDE DEF mid
  <2>3. /\ mid \in Tables /\ Good(mid) /\ mid.rows[p] \in Row
        /\ mid.rows[p].status # "none"
    BY <2>2, GoodDb DEF Steps
  <2>4. row \in Row /\ row.doc = mid.rows[p].doc /\ row.status = mid.rows[p].status
    BY <2>3, RowStatus
  <2> HIDE DEF row
  <2>5. /\ after \in Tables /\ after.rows = [mid.rows EXCEPT ![p] = row]
        /\ after.docs = mid.docs /\ after.recent = mid.recent /\ after.rows[p] = row
    BY <2>3, <2>4 DEF Tables
  <2> HIDE DEF after
  <2>6. row.doc # 0 => mid.docs[row.doc].status \in {"deleted", row.status}
    BY <2>3, <2>4 DEF Good, Fits
  <2>7. \A q \in Paths : mid.recent[q] # 0 => mid.rows[q].status = "removed"
    BY <2>3 DEF Good, Fits
  <2>8. Rewrites(mid, p, row, after)
    BY <2>3, <2>4, <2>5, <2>6, <2>7 DEF Rewrites
  <2>9. Steps(mid, after)
    BY <2>3, <2>4, <2>5, <2>8, RowWritten
  <2> QED
    BY <2>1, <2>2, <2>3, <2>4, <2>5, <2>9, StepsOn
<1> QED
  BY <1>1, <1>2

LEMMA CreatedSteps ==
  ASSUME NEW db, Good(db), NEW p \in Paths, db.rows[p].status = "none",
         NEW sha \in Contents \union {Empty}
  PROVE  Steps(db, Created(db, p, sha))
<1> DEFINE n == Len(db.docs) + 1
           row == [status |-> "active", sha |-> sha, doc |-> n]
           ds == Append(db.docs, NewDocument)
           after == Created(db, p, sha)
<1>1. /\ db \in Tables /\ db.docs \in Seq(Document) /\ n - 1 \in Nat
      /\ db.rows \in [Paths -> Row] /\ db.rows[p].doc = 0
      /\ \A q \in Paths : db.rows[q].doc \in 0..(n - 1)
  BY GoodDb DEF Good, Fits
<1>2. /\ ds \in Seq(Document) /\ Len(ds) = n
      /\ \A i \in 1..(n - 1) : ds[i] = db.docs[i]
      /\ ds[n].status = "active"
  <2>1. NewDocument \in Document /\ NewDocument.status = "active"
    BY DEF Document, NewDocument
  <2> QED
    BY <1>1, <2>1, AppendProperties
<1>3. row \in Row /\ row.status = "active" /\ row.doc = n
  BY <1>1 DEF Row
<1>4. after = [db EXCEPT !.rows = [db.rows EXCEPT ![p] = row], !.docs = ds]
  BY DEF Created
<1> HIDE DEF after, ds, row, n
<1>5. /\ after \in Tables /\ after.docs = ds /\ after.recent = db.recent
      /\ after.rows = [db.rows EXCEPT ![p] = row]
  BY <1>1, <1>2, <1>3, <1>4 DEF Tables
<1>6. after.rows[p] = row /\ \A q \in Paths \ {p} : after.rows[q] = db.rows[q]
  BY <1>1, <1>5
<1>7. n \in Nat \ {0} /\ n = Len(db.docs) + 1
  BY <1>1 DEF n
<1>8. Fits(after)
  <2>1. \A q \in Paths : after.rows[q].doc \in 0..Len(after.docs)
    BY <1>1, <1>2, <1>3, <1>5, <1>6, <1>7
  <2>2. \A q \in Paths : after.rows[q].status = "none" => after.rows[q].doc = 0
    BY <1>3, <1>6 DEF Good, Fits
  <2>3. ASSUME NEW q \in Paths, NEW r \in Paths, after.rows[q].doc = after.rows[r].doc,
               after.rows[q].doc # 0
        PROVE  q = r
    <3>1. \A x \in Paths : x # p => db.rows[x].doc # n
      BY <1>1, <1>7
    <3> QED
      BY <1>3, <1>6, <2>3, <3>1 DEF Good, Fits
  <2>4. ASSUME NEW q \in Paths, after.rows[q].doc # 0
        PROVE  after.docs[after.rows[q].doc].status \in {"deleted", after.rows[q].status}
    <3>1. CASE q = p
      BY <1>2, <1>3, <1>5, <1>6, <3>1
    <3>2. CASE q # p
      BY <1>1, <1>2, <1>5, <1>6, <1>7, <2>4, <3>2 DEF Good, Fits
    <3> QED
      BY <3>1, <3>2
  <2>5. ASSUME NEW d \in 1..Len(after.docs), after.docs[d].status # "gone"
        PROVE  \E q \in Paths : after.rows[q].doc = d
    <3>1. CASE d = n
      BY <1>3, <1>6, <3>1
    <3>2. CASE d # n
      <4>1. d \in 1..Len(db.docs) /\ db.docs[d].status # "gone"
        BY <1>1, <1>2, <1>5, <1>7, <2>5, <3>2
      <4>2. PICK q \in Paths : db.rows[q].doc = d
        BY <4>1 DEF Good, Fits
      <4>3. q # p
        BY <1>1, <4>1, <4>2
      <4> QED
        BY <1>6, <4>2, <4>3
    <3> QED
      BY <3>1, <3>2
  <2>6. \A q \in Paths : after.recent[q] # 0 => after.rows[q].status = "removed"
    BY <1>5, <1>6 DEF Good, Fits
  <2> QED
    BY <2>1, <2>2, <2>3, <2>4, <2>5, <2>6 DEF Fits
<1>9. Keeps(db, after)
  <2>1. Len(db.docs) <= Len(after.docs)
    BY <1>2, <1>5, <1>7
  <2>2. \A d \in 1..Len(db.docs) : after.docs[d] = db.docs[d]
    BY <1>2, <1>5, <1>7
  <2>3. ASSUME NEW q \in Paths, NEW r \in Paths, q # r, db.rows[q].doc # 0,
               after.rows[r].doc = db.rows[q].doc
        PROVE  FALSE
    <3>1. db.rows[q].doc # n
      BY <1>1, <1>7
    <3> QED
      BY <1>3, <1>6, <2>3, <3>1 DEF Good, Fits
  <2> QED
    BY <2>1, <2>2, <2>3 DEF Keeps
<1> QED
  BY <1>5, <1>8, <1>9 DEF Steps, Good, after

(* p's row, with its place among the recent removals, becomes q's.          *)
LEMMA RelocatedSteps ==
  ASSUME NEW db, Good(db), NEW p \in Paths, NEW q \in Paths, p # q,
         db.rows[q].status = "none", ~There(p)
  PROVE  /\ Steps(db, Relocated(db, p, q))
         /\ Relocated(db, p, q).rows[q] = db.rows[p]
<1> DEFINE rs == [db.rows EXCEPT ![q] = db.rows[p], ![p] = NoRow]
           order == [db.recent EXCEPT ![q] = db.recent[p], ![p] = 0]
           after == Relocated(db, p, q)
<1>1. /\ db \in Tables /\ db.rows \in [Paths -> Row] /\ db.recent \in [Paths -> Nat]
      /\ db.rows[q].doc = 0 /\ Len(db.docs) \in Nat
  BY GoodDb DEF Good, Fits
<1>2. NoRow \in Row /\ NoRow.status = "none" /\ NoRow.doc = 0
  BY DEF NoRow, Row
<1>3. /\ rs \in [Paths -> Row] /\ rs[q] = db.rows[p] /\ rs[p] = NoRow
      /\ \A x \in Paths \ {p, q} : rs[x] = db.rows[x]
  BY <1>1, <1>2
<1>4. /\ order \in [Paths -> Nat] /\ order[q] = db.recent[p] /\ order[p] = 0
      /\ \A x \in Paths \ {p, q} : order[x] = db.recent[x]
  BY <1>1
<1>5. after = [db EXCEPT !.rows = rs, !.recent = order]
  BY DEF Relocated
<1> HIDE DEF after, rs, order
<1>6. after \in Tables /\ after.rows = rs /\ after.docs = db.docs /\ after.recent = order
  BY <1>1, <1>3, <1>4, <1>5 DEF Tables
<1>7. Fits(after)
  <2>1. /\ \A x \in Paths : rs[x].doc \in 0..Len(db.docs)
        /\ \A x \in Paths : rs[x].status = "none" => rs[x].doc = 0
    <3>1. \A x \in Paths : rs[x] \in {NoRow, db.rows[x], db.rows[p]}
      BY <1>3
    <3>2. \A x \in Paths : /\ db.rows[x].doc \in 0..Len(db.docs)
                           /\ db.rows[x].status = "none" => db.rows[x].doc = 0
      BY DEF Good, Fits
    <3>3. 0 \in 0..Len(db.docs)
      BY <1>1
    <3> QED
      BY <1>2, <3>1, <3>2, <3>3
  <2>2. \A x, y \in Paths : rs[x].doc = rs[y].doc /\ rs[x].doc # 0 => x = y
    BY <1>1, <1>2, <1>3 DEF Good, Fits
  <2>3. \A x \in Paths : rs[x].doc # 0 => db.docs[rs[x].doc].status \in {"deleted", rs[x].status}
    BY <1>1, <1>2, <1>3 DEF Good, Fits
  <2>4. ASSUME NEW d \in 1..Len(db.docs), db.docs[d].status # "gone"
        PROVE  \E x \in Paths : rs[x].doc = d
    <3>1. PICK x \in Paths : db.rows[x].doc = d
      BY <2>4 DEF Good, Fits
    <3>2. x # q
      BY <1>1, <3>1
    <3> QED
      BY <1>3, <3>1, <3>2
  <2>5. \A x \in Paths : order[x] # 0 => rs[x].status = "removed"
    BY <1>3, <1>4 DEF Good, Fits
  <2> QED
    BY <1>6, <2>1, <2>2, <2>3, <2>4, <2>5 DEF Fits
<1>8. Keeps(db, after)
  <2>1. ASSUME NEW x \in Paths, NEW y \in Paths, x # y, db.rows[x].doc # 0,
               rs[y].doc = db.rows[x].doc
        PROVE  ~There(x)
    <3>1. CASE y = q
      BY <1>3, <2>1, <3>1 DEF Good, Fits
    <3>2. CASE y # q
      BY <1>2, <1>3, <2>1, <3>2 DEF Good, Fits
    <3> QED
      BY <3>1, <3>2
  <2> QED
    BY <1>1, <1>6, <2>1 DEF Keeps
<1> QED
  BY <1>3, <1>6, <1>7, <1>8 DEF Steps, Good, after

(* The row adopted is one that was removed, whose file is gone.             *)
LEMMA NewestIsAdoptable ==
  ASSUME NEW db, Good(db), NEW p \in Paths, NEW sha, Adoptable(db, p, sha) # {}
  PROVE  LET r == Newest(db, Adoptable(db, p, sha))
         IN  r \in Paths /\ r # p /\ db.rows[r].status = "removed" /\ ~There(r)
<1> DEFINE A == Adoptable(db, p, sha)
           ranks == {db.recent[r] : r \in A}
<1>1. A \subseteq Paths /\ \A r \in A : r # p /\ db.recent[r] # 0 /\ ~There(r)
  BY DEF Adoptable
<1>2. ranks \in SUBSET Nat
  BY <1>1, GoodDb
<1>3. PICK m \in ranks : \A k \in ranks : m <= k
  BY <1>2, LeastExists
<1>4. \E r \in A : \A o \in A : db.recent[r] <= db.recent[o]
  BY <1>3
<1>5. Newest(db, A) \in A
  BY <1>4 DEF Newest
<1> HIDE DEF A
<1>6. \A r \in Paths : db.recent[r] # 0 => db.rows[r].status = "removed"
  BY DEF Good, Fits
<1> QED
  BY <1>1, <1>5, <1>6 DEF A

LEMMA ComparedSteps ==
  ASSUME NEW db, Good(db), NEW p \in Paths, NEW sha \in Contents \union {Empty}
  PROVE  Steps(db, Compared(db, p, sha))
<1>1. CASE db.rows[p].status = "none" /\ Adoptable(db, p, sha) # {}
  <2> DEFINE r == Newest(db, Adoptable(db, p, sha))
             mid == Relocated(db, r, p)
  <2>1. r \in Paths /\ r # p /\ db.rows[r].status = "removed" /\ ~There(r)
    BY <1>1, NewestIsAdoptable
  <2> HIDE DEF r
  <2>2. Steps(db, mid) /\ mid.rows[p] = db.rows[r]
    BY <1>1, <2>1, RelocatedSteps
  <2> HIDE DEF mid
  <2>3. Good(mid) /\ mid.rows[p].status # "none"
    BY <2>1, <2>2 DEF Steps
  <2>4. Steps(mid, Restored(mid, p))
    BY <2>3, RestoredSteps
  <2>5. Steps(db, Restored(mid, p))
    BY <2>2, <2>4, StepsOn
  <2>6. Compared(db, p, sha) = Restored(mid, p)
    BY <1>1 DEF Compared, mid, r
  <2> QED
    BY <2>5, <2>6
<1>2. CASE db.rows[p].status = "none" /\ Adoptable(db, p, sha) = {}
  BY <1>2, CreatedSteps DEF Compared
<1>3. CASE db.rows[p].status # "none" /\ db.rows[p].sha = sha
  <2> DEFINE mid == Restored(db, p)
  <2>1. Steps(db, mid)
    BY <1>3, RestoredSteps
  <2> HIDE DEF mid
  <2>2. Steps(mid, BroughtUpToDate(mid, p))
    BY <2>1, BroughtUpToDateSteps DEF Steps
  <2>3. Steps(db, BroughtUpToDate(mid, p))
    BY <2>1, <2>2, StepsOn
  <2>4. Compared(db, p, sha) = BroughtUpToDate(mid, p)
    BY <1>3 DEF Compared, mid
  <2> QED
    BY <2>3, <2>4
<1>4. CASE db.rows[p].status # "none" /\ db.rows[p].sha # sha
  <2> DEFINE mid == Reprocessed(db, p, sha)
  <2>1. Steps(db, mid) /\ mid.rows[p].status # "none"
    BY <1>4, ReprocessedSteps
  <2> HIDE DEF mid
  <2>2. Steps(mid, Restored(mid, p))
    BY <2>1, RestoredSteps DEF Steps
  <2>3. Steps(db, Restored(mid, p))
    BY <2>1, <2>2, StepsOn
  <2>4. Compared(db, p, sha) = Restored(mid, p)
    BY <1>4 DEF Compared, mid
  <2> QED
    BY <2>3, <2>4
<1> QED
  BY <1>1, <1>2, <1>3, <1>4

LEMMA HandledAsSteps ==
  ASSUME NEW db, Good(db), NEW n \in Names, NEW sha \in Contents \union {Empty}
  PROVE  Steps(db, HandledAs(db, n, sha))
<1>1. Steps(db, db)
  BY KeepsItself DEF Steps
<1>2. n \in Aside \/ n \in Paths
  BY DEF Names
<1>3. n \notin Aside \/ n \notin Paths
  <2>1. n \notin Paths \intersect Aside
    BY FolderAssumption
  <2> QED
    BY <2>1
<1>4. CASE n \in Aside
  BY <1>1, <1>3, <1>4 DEF HandledAs
<1>5. CASE n \in Paths /\ ~There(n)
  <2>1. HandledAs(db, n, sha) = IF db.rows[n].status = "active" THEN Retired(db, n) ELSE db
    BY <1>3, <1>5 DEF HandledAs
  <2> QED
    BY <1>1, <1>5, <2>1, RetiredSteps
<1>6. CASE n \in Paths /\ There(n)
  <2>1. HandledAs(db, n, sha)
          = IF Empty \in {disk[n].sha, sha} THEN db ELSE Compared(db, n, sha)
    BY <1>3, <1>6 DEF HandledAs
  <2> QED
    BY <1>1, <1>6, <2>1, ComparedSteps
<1> QED
  BY <1>2, <1>4, <1>5, <1>6

LEMMA MovedAsSteps ==
  ASSUME NEW db, Good(db), NEW n \in Names, NEW m \in Names, disk[n].sha \in Contents \union {Empty},
         NEW sha \in Contents \union {Empty}
  PROVE  Steps(db, MovedAs(db, n, m, sha))
<1>1. CASE ~Followed(db, n, m)
  <2> DEFINE mid == Handled(db, n)
  <2>1. Steps(db, mid)
    BY HandledAsSteps DEF Handled
  <2> HIDE DEF mid
  <2>2. Steps(mid, HandledAs(mid, m, sha))
    BY <2>1, HandledAsSteps DEF Steps
  <2>3. Steps(db, HandledAs(mid, m, sha))
    BY <2>1, <2>2, StepsOn
  <2> QED
    BY <1>1, <2>3 DEF MovedAs, mid
<1>2. CASE Followed(db, n, m)
  <2> DEFINE mid == Relocated(db, n, m)
  <2>1. /\ n \in Paths /\ m \in Paths /\ n # m /\ ~There(n)
        /\ db.rows[n].status # "none" /\ db.rows[m].status = "none"
    BY <1>2 DEF Followed
  <2>2. Steps(db, mid) /\ mid.rows[m] = db.rows[n]
    BY <2>1, RelocatedSteps
  <2> HIDE DEF mid
  <2>3. Good(mid) /\ mid.rows[m].status # "none"
    BY <2>1, <2>2 DEF Steps
  <2>4. Steps(mid, Retired(mid, m)) /\ Steps(mid, HandledAs(mid, m, sha))
    BY <2>1, <2>3, RetiredSteps, HandledAsSteps
  <2>5. Steps(db, Retired(mid, m)) /\ Steps(db, HandledAs(mid, m, sha))
    BY <2>2, <2>4, StepsOn
  <2>6. MovedAs(db, n, m, sha) = IF There(m) THEN HandledAs(mid, m, sha) ELSE Retired(mid, m)
    BY <1>2 DEF MovedAs, mid
  <2> QED
    BY <2>5, <2>6
<1> QED
  BY <1>1, <1>2

-----------------------------------------------------------------------------
(* What a step does to the tables                                          *)

After == [rows |-> rows', docs |-> docs', recent |-> recent', raised |-> FALSE]

(* Unlike a handler, the API and the reaper also delete and purge.           *)
Permits ==
  /\ Good(After)
  /\ Len(docs) <= Len(docs')
  /\ \A d \in 1..Len(docs) : docs[d].status \in {"deleted", "gone"}
       => docs'[d].status \in {docs[d].status, "gone"}
  /\ \A p, q \in Paths :
       p # q /\ rows[p].doc # 0 /\ rows'[q].doc = rows[p].doc => ~There(p)

LEMMA DbFields ==
  /\ Db.rows = rows /\ Db.docs = docs /\ Db.recent = recent /\ Db.raised = FALSE
  /\ After.rows = rows' /\ After.docs = docs' /\ After.recent = recent'
  /\ After.raised = FALSE
BY DEF Db, After

LEMMA StepPermits ==
  ASSUME Steps(Db, After)
  PROVE  Permits
<1>1. Good(After) /\ Keeps(Db, After)
  BY DEF Steps
<1>2. /\ Len(docs) <= Len(docs')
      /\ \A d \in 1..Len(docs) :
           \/ docs'[d].status = docs[d].status
           \/ /\ docs[d].status \in {"active", "removed"}
              /\ docs'[d].status \in {"active", "removed"}
      /\ \A p, q \in Paths :
           p # q /\ rows[p].doc # 0 /\ rows'[q].doc = rows[p].doc => ~There(p)
  BY <1>1, DbFields DEF Keeps
<1> QED
  BY <1>1, <1>2 DEF Permits

LEMMA StillPermits ==
  ASSUME Sound, UNCHANGED stored
  PROVE  Permits
<1>1. After = Db
  BY DEF After, Db, stored
<1>2. Steps(Db, Db)
  BY KeepsItself DEF Steps, Sound
<1> QED
  BY <1>1, <1>2, StepPermits

LEMMA CommitPermits ==
  ASSUME Sound, NEW after, Steps(Db, after), Commit(after)
  PROVE  Permits
<1>1. CASE after.raised
  BY <1>1, StillPermits DEF Commit
<1>2. CASE ~after.raised
  <2>1. after \in Tables
    BY DEF Steps, Good
  <2>2. after = [rows |-> after.rows, docs |-> after.docs, recent |-> after.recent,
                 raised |-> after.raised]
    BY <2>1 DEF Tables
  <2>3. after.raised = FALSE
    BY <1>2, <2>1 DEF Tables
  <2>4. after = After
    BY <1>2, <2>2, <2>3 DEF Commit, After
  <2> QED
    BY <2>4, StepPermits
<1> QED
  BY <1>1, <1>2

LEMMA SoundType ==
  ASSUME Sound
  PROVE  /\ rows \in [Paths -> Row] /\ docs \in Seq(Document) /\ recent \in [Paths -> Nat]
         /\ Len(docs) \in Nat /\ DOMAIN docs = 1..Len(docs)
         /\ \A d \in 1..Len(docs) : docs[d] \in Document
  BY GoodDb, DbFields, DocumentsType DEF Sound

(* Sound, in the state's own terms.                                         *)
LEMMA SoundTables ==
  /\ Sound <=> /\ rows \in [Paths -> Row] /\ docs \in Seq(Document)
               /\ recent \in [Paths -> Nat]
               /\ Fits(Db)
  /\ Good(After) <=> /\ rows' \in [Paths -> Row] /\ docs' \in Seq(Document)
                     /\ recent' \in [Paths -> Nat]
                     /\ Fits(After)
<1>1. Db \in Tables <=> /\ rows \in [Paths -> Row] /\ docs \in Seq(Document)
                        /\ recent \in [Paths -> Nat]
  BY DEF Db, Tables
<1>2. After \in Tables <=> /\ rows' \in [Paths -> Row] /\ docs' \in Seq(Document)
                           /\ recent' \in [Paths -> Nat]
  BY DEF After, Tables
<1> QED
  BY <1>1, <1>2 DEF Sound, Good

LEMMA SoundAfter ==
  ASSUME Good(After)
  PROVE  Sound'
BY DEF Good, Sound, After, Db, Fits, Tables

-----------------------------------------------------------------------------
(* Types                                                                   *)

(* The inductive invariant: types, and the tables in order.                 *)
TInv ==
  /\ TypeOK
  /\ Sound

ContentsRead == Contents \union {Empty}

LEMMA CountersAreBounded ==
  ASSUME TypeOK
  PROVE  /\ Change => changes' \in 0..MaxChanges
         /\ UNCHANGED changes => changes' \in 0..MaxChanges
         /\ Fault => faults' \in 0..MaxFaults
         /\ UNCHANGED faults => faults' \in 0..MaxFaults
<1>1. MaxChanges \in Nat /\ MaxFaults \in Nat
  BY FolderAssumption
<1>2. changes \in 0..MaxChanges /\ faults \in 0..MaxFaults
  BY DEF TypeOK
<1> QED
  BY <1>1, <1>2 DEF Change, Fault

LEMMA PassFields ==
  ASSUME TypeOK
  PROVE  /\ pass.active \subseteq Paths /\ pass.todo \subseteq Paths
         /\ pass.fresh \subseteq Paths /\ pass.missing \subseteq Paths
         /\ pass.stats \in [Paths -> Nat] /\ pass.pairs \subseteq Paths \X Paths
         /\ pass.shas \in [Paths -> SUBSET ContentsRead]
         /\ NoPass \in Pass
<1>1. Unseen \in [Paths -> Nat] /\ Unhashed \in [Paths -> SUBSET (Contents \union {Empty})]
  BY DEF Unseen, Unhashed
<1>2. NoPass \in Pass
  BY <1>1 DEF NoPass, Pass
<1> QED
  BY <1>2 DEF TypeOK, Pass, ContentsRead

LEMMA DiskTypes ==
  ASSUME TypeOK
  PROVE  /\ \A n \in Names : disk[n].stat \in Nat /\ disk[n].sha \in ContentsRead
         /\ \A p \in Paths : p \in Names /\ StatOf(p) \in Nat /\ HashOf(p) \in ContentsRead
         /\ \A p \in Paths, stat \in Nat : SeenAt(p, stat) \in [Paths -> Nat]
<1>1. \A n \in Names : disk[n].stat \in Nat /\ disk[n].sha \in ContentsRead
  BY DEF TypeOK, File, ContentsRead
<1>2. ASSUME NEW p \in Paths
      PROVE  p \in Names /\ StatOf(p) \in Nat /\ HashOf(p) \in ContentsRead
  <2>1. p \in Names
    BY DEF Names
  <2>2. StatOf(p) \in Nat
    BY <1>1, <2>1 DEF StatOf
  <2>3. pass.shas[p] \subseteq ContentsRead
    BY PassFields
  <2>4. CASE pass.shas[p] = {}
    BY <1>1, <2>1, <2>2, <2>4 DEF HashOf
  <2>5. CASE pass.shas[p] # {}
    <3>1. (CHOOSE c \in pass.shas[p] : TRUE) \in pass.shas[p]
      BY <2>5
    <3> QED
      BY <2>1, <2>2, <2>3, <2>5, <3>1 DEF HashOf
  <2> QED
    BY <2>4, <2>5
<1>3. \A p \in Paths, stat \in Nat : SeenAt(p, stat) \in [Paths -> Nat]
  BY DEF SeenAt, TypeOK
<1> QED
  BY <1>1, <1>2, <1>3

(* What a file-system event or a file of a pass does is a step.             *)
LEMMA HandlersStep ==
  ASSUME TInv
  PROVE  /\ \A n \in Names : Steps(Db, Handled(Db, n))
         /\ \A n \in Names, sha \in ContentsRead : Steps(Db, HandledAs(Db, n, sha))
         /\ \A n, m \in Names, sha \in ContentsRead : Steps(Db, MovedAs(Db, n, m, sha))
<1>1. Good(Db) /\ \A n \in Names : disk[n].sha \in ContentsRead
  BY DiskTypes DEF TInv, Sound
<1> QED
  BY <1>1, HandledAsSteps, MovedAsSteps DEF Handled, ContentsRead

-----------------------------------------------------------------------------
(* The steps that are not a handler's                                      *)

(* Fits of the tables before and after a step, in the variables.            *)
LEMMA FitsHere ==
  ASSUME Sound
  PROVE  /\ \A p \in Paths : /\ rows[p] \in Row /\ rows[p].doc \in 0..Len(docs)
                             /\ rows[p].status = "none" => rows[p].doc = 0
                             /\ recent[p] # 0 => rows[p].status = "removed"
         /\ \A p, q \in Paths : rows[p].doc = rows[q].doc /\ rows[p].doc # 0 => p = q
         /\ \A p \in Paths : rows[p].doc # 0 =>
              docs[rows[p].doc].status \in {"deleted", rows[p].status}
         /\ \A d \in 1..Len(docs) : docs[d].status # "gone" => \E p \in Paths : rows[p].doc = d
<1>1. rows \in [Paths -> Row]
  BY SoundTables
<1> QED
  BY <1>1, DbFields DEF Sound, Good, Fits

LEMMA FitsThere ==
  ASSUME rows' \in [Paths -> Row], docs' \in Seq(Document), recent' \in [Paths -> Nat],
         \A p \in Paths : /\ rows'[p].doc \in 0..Len(docs')
                          /\ rows'[p].status = "none" => rows'[p].doc = 0
                          /\ recent'[p] # 0 => rows'[p].status = "removed",
         \A p, q \in Paths : rows'[p].doc = rows'[q].doc /\ rows'[p].doc # 0 => p = q,
         \A p \in Paths : rows'[p].doc # 0 =>
           docs'[rows'[p].doc].status \in {"deleted", rows'[p].status},
         \A d \in 1..Len(docs') : docs'[d].status # "gone" => \E p \in Paths : rows'[p].doc = d
  PROVE  Good(After)
<1>1. Fits(After)
  BY DbFields DEF Fits
<1> QED
  BY <1>1, SoundTables

(* Documents fail, or are deleted by an administrator.                      *)
LEMMA DocumentsChange ==
  ASSUME Sound, UNCHANGED <<rows, recent>>, docs' \in Seq(Document), Len(docs') = Len(docs),
         \A d \in 1..Len(docs) :
           \/ docs'[d].status = docs[d].status
           \/ docs[d].status \in {"active", "removed"} /\ docs'[d].status = "deleted"
  PROVE  Permits
<1>1. Good(After)
  <2>1. \A p \in Paths : rows[p].doc # 0 => rows[p].doc \in 1..Len(docs)
    BY FitsHere, SoundType
  <2>2. \A p \in Paths : rows[p].doc # 0 =>
          docs'[rows[p].doc].status \in {"deleted", rows[p].status}
    BY <2>1, FitsHere
  <2>3. \A d \in 1..Len(docs) : docs'[d].status # "gone" => \E p \in Paths : rows[p].doc = d
    BY FitsHere
  <2> QED
    BY <2>2, <2>3, FitsHere, FitsThere, SoundType
<1>2. \A p, q \in Paths : p # q /\ rows[p].doc # 0 /\ rows'[q].doc = rows[p].doc => ~There(p)
  BY FitsHere
<1>3. Len(docs) <= Len(docs')
  BY SoundType
<1> QED
  BY <1>1, <1>2, <1>3 DEF Permits

LEMMA ExtractFailsPermits ==
  ASSUME Sound, ExtractFails
  PROVE  Permits
<1>1. PICK d \in DOMAIN docs : docs' = [docs EXCEPT ![d].failed = TRUE]
  BY DEF ExtractFails
<1>2. d \in 1..Len(docs) /\ docs[d] \in Document /\ docs \in Seq(Document)
  BY SoundType
<1> DEFINE doc == [docs[d] EXCEPT !.failed = TRUE]
<1>3. doc \in Document /\ doc.status = docs[d].status
  BY <1>2, DocumentMoves
<1>4. docs' = [docs EXCEPT ![d] = doc]
  BY <1>1
<1> HIDE DEF doc
<1>5. /\ docs' \in Seq(Document) /\ Len(docs') = Len(docs)
      /\ \A i \in 1..Len(docs) : docs'[i].status = docs[i].status
  BY <1>2, <1>3, <1>4, DocumentPut
<1>6. UNCHANGED <<rows, recent>>
  BY DEF ExtractFails
<1> QED
  BY <1>5, <1>6, DocumentsChange

LEMMA DeleteDocumentPermits ==
  ASSUME Sound, DeleteDocument
  PROVE  Permits
<1>1. PICK d \in DOMAIN docs : /\ docs[d].status \in {"active", "removed"}
                               /\ docs' = [docs EXCEPT ![d].status = "deleted"]
  BY DEF DeleteDocument
<1>2. d \in 1..Len(docs) /\ docs[d] \in Document /\ docs \in Seq(Document)
  BY SoundType
<1> DEFINE doc == [docs[d] EXCEPT !.status = "deleted"]
<1>3. doc \in Document /\ doc.status = "deleted"
  BY <1>2, DocumentMoves
<1>4. docs' = [docs EXCEPT ![d] = doc]
  BY <1>1
<1> HIDE DEF doc
<1>5. /\ docs' \in Seq(Document) /\ Len(docs') = Len(docs) /\ docs'[d].status = "deleted"
      /\ \A i \in 1..Len(docs) : i # d => docs'[i] = docs[i]
  BY <1>2, <1>3, <1>4, DocumentPut
<1>6. UNCHANGED <<rows, recent>>
  BY DEF DeleteDocument
<1> QED
  BY <1>1, <1>5, <1>6, DocumentsChange

LEMMA PurgePermits ==
  ASSUME Sound, Purge
  PROVE  Permits
<1>1. PICK d \in DOMAIN docs :
        /\ docs[d].status = "deleted"
        /\ docs' = [docs EXCEPT ![d] = GoneDocument]
        /\ rows' = [p \in Paths |-> IF rows[p].doc = d THEN [rows[p] EXCEPT !.doc = 0]
                                    ELSE rows[p]]
  BY DEF Purge
<1>2. d \in 1..Len(docs) /\ docs \in Seq(Document) /\ GoneDocument \in Document
  BY SoundType DEF Document, GoneDocument
<1>3. /\ docs' \in Seq(Document) /\ Len(docs') = Len(docs)
      /\ docs'[d].status = "gone"
      /\ \A i \in 1..Len(docs) : i # d => docs'[i] = docs[i]
  BY <1>1, <1>2, DocumentPut DEF GoneDocument
<1>4. \A p \in Paths : /\ rows'[p] \in Row
                       /\ rows'[p].status = rows[p].status
                       /\ rows'[p].doc = IF rows[p].doc = d THEN 0 ELSE rows[p].doc
  BY <1>1, FitsHere DEF Row
<1>5. rows' \in [Paths -> Row] /\ UNCHANGED recent
  BY <1>1, <1>4 DEF Purge
<1>6. Good(After)
  <2>1. \A p \in Paths : rows'[p].doc \in 0..Len(docs)
    BY <1>4, FitsHere, SoundType
  <2>2. \A p \in Paths : rows'[p].doc # 0 =>
          docs'[rows'[p].doc].status \in {"deleted", rows'[p].status}
    <3>1. \A p \in Paths : rows'[p].doc # 0 => /\ rows'[p].doc \in 1..Len(docs) \ {d}
                                               /\ rows'[p].doc = rows[p].doc
      BY <1>2, <1>4, <2>1, SoundType
    <3> QED
      BY <1>3, <1>4, <3>1, FitsHere
  <2>3. \A i \in 1..Len(docs) : docs'[i].status # "gone" => \E p \in Paths : rows'[p].doc = i
    <3>1. \A i \in 1..Len(docs) : docs'[i].status # "gone"
            => i # d /\ \E p \in Paths : rows[p].doc = i
      BY <1>3, FitsHere
    <3> QED
      BY <1>4, <3>1
  <2>4. \A p, q \in Paths : rows'[p].doc = rows'[q].doc /\ rows'[p].doc # 0 => p = q
    BY <1>4, FitsHere
  <2>5. \A p \in Paths : /\ rows'[p].status = "none" => rows'[p].doc = 0
                         /\ recent'[p] # 0 => rows'[p].status = "removed"
    BY <1>4, <1>5, FitsHere
  <2> QED
    BY <1>3, <1>5, <2>1, <2>2, <2>3, <2>4, <2>5, FitsThere, SoundType
<1>7. \A p, q \in Paths : p # q /\ rows[p].doc # 0 /\ rows'[q].doc = rows[p].doc => ~There(p)
  BY <1>4, FitsHere
<1>8. Len(docs) <= Len(docs')
  BY <1>3, SoundType
<1>9. \A i \in 1..Len(docs) : docs[i].status \in {"deleted", "gone"}
        => docs'[i].status \in {docs[i].status, "gone"}
  BY <1>3
<1> QED
  BY <1>6, <1>7, <1>8, <1>9 DEF Permits

LEMMA ReaperDeletesPermits ==
  ASSUME Sound, reaping \subseteq DOMAIN docs, ReaperDeletes
  PROVE  Permits
<1> DEFINE reaped == {p \in Paths : rows[p].doc \in reaping}
<1>1. CASE \E d \in reaping : docs[d].status = "gone"
  BY <1>1, StillPermits DEF ReaperDeletes
<1>2. CASE ~ \E d \in reaping : docs[d].status = "gone"
  <2>1. /\ docs' = [d \in DOMAIN docs |-> IF d \in reaping THEN GoneDocument ELSE docs[d]]
        /\ rows' = [p \in Paths |-> IF p \in reaped THEN NoRow ELSE rows[p]]
        /\ recent' = Forgotten(recent, reaped)
    BY <1>2 DEF ReaperDeletes
  <2>2. /\ DOMAIN docs = 1..Len(docs) /\ Len(docs) \in Nat
        /\ \A d \in 1..Len(docs) : docs[d] \in Document
    BY SoundType
  <2>3. GoneDocument \in Document /\ GoneDocument.status = "gone"
    BY DEF Document, GoneDocument
  <2>4. docs' \in [1..Len(docs) -> Document]
    BY <2>1, <2>2, <2>3
  <2>5. docs' \in Seq(Document)
    BY <2>2, <2>4, SeqDef
  <2>6. Len(docs') = Len(docs)
    BY <2>2, <2>4, <2>5, LenProperties
  <2>7. \A d \in 1..Len(docs) : /\ d \in reaping => docs'[d].status = "gone"
                                /\ d \notin reaping => docs'[d] = docs[d]
    BY <2>1, <2>2, <2>3
  <2>8. NoRow \in Row /\ NoRow.status = "none" /\ NoRow.doc = 0
    BY DEF NoRow, Row
  <2>9. \A p \in Paths : /\ p \in reaped => rows'[p] = NoRow
                         /\ p \notin reaped => rows'[p] = rows[p]
    BY <2>1
  <2>10. rows' \in [Paths -> Row]
    BY <2>1, <2>8, SoundType
  <2> HIDE DEF reaped
  <2>11. /\ recent' \in [Paths -> Nat]
         /\ \A p \in Paths : recent'[p] # 0 => recent[p] # 0 /\ p \notin reaped
    BY <2>1, ForgottenOrder, SoundType
  <2>12. \A p \in Paths : p \notin reaped => rows[p].doc \notin reaping
    BY DEF reaped
  <2>13. \A p \in Paths : p \in reaped => rows[p].doc \in reaping
    BY DEF reaped
  <2>14. Good(After)
    <3>1. \A p \in Paths : /\ rows'[p].doc \in 0..Len(docs)
                           /\ rows'[p].status = "none" => rows'[p].doc = 0
                           /\ recent'[p] # 0 => rows'[p].status = "removed"
      BY <2>2, <2>8, <2>9, <2>11, FitsHere
    <3>2. \A p, q \in Paths : rows'[p].doc = rows'[q].doc /\ rows'[p].doc # 0 => p = q
      BY <2>8, <2>9, FitsHere
    <3>3. ASSUME NEW p \in Paths, rows'[p].doc # 0
          PROVE  docs'[rows'[p].doc].status \in {"deleted", rows'[p].status}
      <4>1. p \notin reaped /\ rows'[p] = rows[p] /\ rows[p].doc \in 1..Len(docs)
        BY <2>2, <2>8, <2>9, <3>1, <3>3, <2>6
      <4> QED
        BY <2>7, <2>12, <3>3, <4>1, FitsHere
    <3>4. ASSUME NEW d \in 1..Len(docs), docs'[d].status # "gone"
          PROVE  \E p \in Paths : rows'[p].doc = d
      <4>1. d \notin reaping /\ docs[d].status # "gone"
        BY <2>7, <3>4
      <4>2. PICK p \in Paths : rows[p].doc = d
        BY <4>1, FitsHere
      <4>3. p \notin reaped
        BY <2>13, <4>1, <4>2
      <4> QED
        BY <2>9, <4>2, <4>3
    <3> QED
      BY <2>5, <2>6, <2>10, <2>11, <3>1, <3>2, <3>3, <3>4, FitsThere
  <2>15. \A p, q \in Paths : p # q /\ rows[p].doc # 0 /\ rows'[q].doc = rows[p].doc => ~There(p)
    BY <2>8, <2>9, FitsHere
  <2>16. \A d \in 1..Len(docs) : docs[d].status \in {"deleted", "gone"}
           => docs'[d].status \in {docs[d].status, "gone"}
    BY <2>7
  <2> QED
    BY <2>2, <2>6, <2>14, <2>15, <2>16 DEF Permits
<1> QED
  BY <1>1, <1>2

LEMMA WindowClosesPermits ==
  ASSUME Sound, WindowCloses
  PROVE  Permits
<1>1. PICK p \in Paths : recent' = [recent EXCEPT ![p] = 0]
  BY DEF WindowCloses
<1>2. UNCHANGED <<rows, docs>>
  BY DEF WindowCloses
<1>3. recent' \in [Paths -> Nat] /\ \A q \in Paths : recent'[q] # 0 => recent[q] # 0
  BY <1>1, SoundType
<1>4. Good(After)
  BY <1>2, <1>3, FitsHere, FitsThere, SoundType
<1>5. \A q, r \in Paths : q # r /\ rows[q].doc # 0 /\ rows'[r].doc = rows[q].doc => ~There(q)
  BY <1>2, FitsHere
<1>6. Len(docs) <= Len(docs')
  BY <1>2, SoundType
<1> QED
  BY <1>2, <1>4, <1>5, <1>6 DEF Permits

-----------------------------------------------------------------------------
(* Every step                                                              *)

LEMMA PassStepPermits ==
  ASSUME TInv, PassStep
  PROVE  Permits
<1>1. Sound
  BY DEF TInv
<1>2. \A p \in Paths : p \in Names /\ HashOf(p) \in ContentsRead
  BY DiskTypes DEF TInv
<1>3. /\ pass.todo \subseteq Paths /\ pass.fresh \subseteq Paths
      /\ pass.missing \subseteq Paths /\ pass.pairs \subseteq Paths \X Paths
  BY PassFields DEF TInv
<1>4. CASE PassBegins \/ Lists \/ Hashes \/ PassEnds
  <2>1. UNCHANGED stored
    BY <1>4 DEF PassBegins, Lists, Hashes, PassEnds
  <2> QED
    BY <1>1, <2>1, StillPermits
<1>5. CASE Visits
  <2>1. PICK p \in pass.todo : UNCHANGED stored \/ Commit(Handled(Db, p))
    BY <1>5 DEF Visits
  <2>2. Steps(Db, Handled(Db, p))
    BY <1>2, <1>3, HandlersStep
  <2> QED
    BY <1>1, <2>1, <2>2, StillPermits, CommitPermits
<1>6. CASE Moves
  <2>1. PICK pair \in pass.pairs :
          UNCHANGED stored \/ Commit(MovedAs(Db, pair[1], pair[2], HashOf(pair[2])))
    BY <1>6 DEF Moves
  <2>2. pair[1] \in Paths /\ pair[2] \in Paths
    BY <1>3
  <2>3. Steps(Db, MovedAs(Db, pair[1], pair[2], HashOf(pair[2])))
    BY <1>2, <2>2, HandlersStep
  <2> QED
    BY <1>1, <2>1, <2>3, StillPermits, CommitPermits
<1>7. CASE Creates
  <2>1. PICK p \in pass.fresh : Commit(HandledAs(Db, p, HashOf(p)))
    BY <1>7 DEF Creates
  <2>2. Steps(Db, HandledAs(Db, p, HashOf(p)))
    BY <1>2, <1>3, HandlersStep
  <2> QED
    BY <1>1, <2>1, <2>2, CommitPermits
<1>8. CASE Deletes
  <2>1. PICK p \in pass.missing : Commit(Handled(Db, p))
    BY <1>8 DEF Deletes
  <2>2. Steps(Db, Handled(Db, p))
    BY <1>2, <1>3, HandlersStep
  <2> QED
    BY <1>1, <2>1, <2>2, CommitPermits
<1> QED
  BY <1>4, <1>5, <1>6, <1>7, <1>8 DEF PassStep

LEMMA HandleHintPermits ==
  ASSUME TInv, HandleHint
  PROVE  Permits
<1>1. Sound /\ hints \subseteq Hint /\ \A n \in Names : disk[n].sha \in ContentsRead
  BY DiskTypes DEF TInv, TypeOK
<1>2. PICK h \in hints :
        \/ UNCHANGED stored
        \/ Commit(Handled(Db, h.from))
        \/ Commit(MovedAs(Db, h.from, h.to, disk[h.to].sha))
  BY DEF HandleHint
<1>3. h.from \in Names /\ h.to \in Names
  BY <1>1 DEF Hint
<1>4. /\ Steps(Db, Handled(Db, h.from))
      /\ Steps(Db, MovedAs(Db, h.from, h.to, disk[h.to].sha))
  BY <1>1, <1>3, HandlersStep
<1> QED
  BY <1>1, <1>2, <1>4, StillPermits, CommitPermits

LEMMA NextPermits ==
  ASSUME TInv, [Next]_vars
  PROVE  Permits
<1>1. Sound /\ reaping \subseteq DOMAIN docs
  BY DEF TInv, TypeOK
<1>2. CASE \/ ReaperSelects \/ Write \/ Unlink \/ Rename \/ Unmount \/ Mount
           \/ LoseHint \/ RepeatHint \/ PassAborts \/ Restart \/ UNCHANGED vars
  <2>1. UNCHANGED stored
    BY <1>2 DEF ReaperSelects, Write, Unlink, Rename, Unmount, Mount, LoseHint, RepeatHint,
                PassAborts, Restart, vars, outsideDisk
  <2> QED
    BY <1>1, <2>1, StillPermits
<1> QED
  BY <1>1, <1>2, HandleHintPermits, WindowClosesPermits, PassStepPermits, ExtractFailsPermits,
     DeleteDocumentPermits, PurgePermits, ReaperDeletesPermits DEF Next

(* The state besides the tables.                                            *)
Outer ==
  /\ disk \in [Names -> File]
  /\ mounted \in BOOLEAN
  /\ hints \subseteq Hint
  /\ seen \in [Paths -> Nat]
  /\ pass \in Pass
  /\ changes \in 0..MaxChanges
  /\ faults \in 0..MaxFaults

LEMMA HintsFit ==
  /\ \A n \in Names : Touched(n) \in Hint
  /\ \A n, m \in Names : [from |-> n, to |-> m] \in Hint
BY DEF Touched, Hint

LEMMA CountersStep ==
  ASSUME TypeOK, Next
  PROVE  changes' \in 0..MaxChanges /\ faults' \in 0..MaxFaults
<1>1. CASE HandleHint \/ WindowCloses \/ PassStep \/ ExtractFails \/ Purge \/ ReaperDeletes \/ Mount
  <2>1. UNCHANGED <<changes, faults>>
    BY <1>1 DEF HandleHint, WindowCloses, PassStep, PassBegins, Lists, Visits, Hashes, Moves,
                Creates, Deletes, PassEnds, outside, ExtractFails, Purge, ReaperDeletes, Mount
  <2> QED
    BY <2>1, CountersAreBounded
<1>2. CASE DeleteDocument \/ ReaperSelects \/ Write \/ Unlink \/ Rename \/ Unmount
  <2>1. Change /\ UNCHANGED faults
    BY <1>2 DEF DeleteDocument, ReaperSelects, Write, Unlink, Rename, Unmount, outsideDisk
  <2> QED
    BY <2>1, CountersAreBounded
<1>3. CASE LoseHint \/ RepeatHint \/ PassAborts \/ Restart
  <2>1. Fault /\ UNCHANGED changes
    BY <1>3 DEF LoseHint, RepeatHint, PassAborts, Restart
  <2> QED
    BY <2>1, CountersAreBounded
<1> QED
  BY <1>1, <1>2, <1>3 DEF Next

(* The fields of a pass are sets of paths and functions on them.            *)
LEMMA PassPut ==
  ASSUME TypeOK
  PROVE  /\ \A S \in SUBSET Paths : /\ [pass EXCEPT !.todo = S] \in Pass
                                    /\ [pass EXCEPT !.fresh = S] \in Pass
                                    /\ [pass EXCEPT !.missing = S] \in Pass
                                    /\ [NoPass EXCEPT !.pc = "list", !.active = S] \in Pass
         /\ \A S, T \in SUBSET Paths :
              [pass EXCEPT !.pc = "visit", !.todo = S, !.missing = T] \in Pass
         /\ \A S, T \in SUBSET Paths : \A f \in [Paths -> Nat] :
              [pass EXCEPT !.todo = S, !.fresh = T, !.stats = f] \in Pass
         /\ \A f \in [Paths -> SUBSET ContentsRead] : \A R \in SUBSET (Paths \X Paths) :
              [pass EXCEPT !.pc = "change", !.active = {}, !.shas = f, !.pairs = R] \in Pass
         /\ \A R \in SUBSET (Paths \X Paths) : [pass EXCEPT !.pairs = R] \in Pass
         /\ \A S, T \in SUBSET Paths : \A R \in SUBSET (Paths \X Paths) :
              [pass EXCEPT !.pairs = R, !.missing = S, !.fresh = T] \in Pass
<1>1. pass \in Pass /\ NoPass \in Pass
  BY PassFields DEF TypeOK
<1> QED
  BY <1>1 DEF Pass, ContentsRead

LEMMA PassStepTypes ==
  ASSUME TypeOK, PassStep
  PROVE  pass' \in Pass /\ seen' \in [Paths -> Nat]
<1>1. /\ pass.active \subseteq Paths /\ pass.todo \subseteq Paths
      /\ pass.fresh \subseteq Paths /\ pass.missing \subseteq Paths
      /\ pass.stats \in [Paths -> Nat] /\ pass.pairs \subseteq Paths \X Paths
      /\ NoPass \in Pass /\ seen \in [Paths -> Nat]
  BY PassFields DEF TypeOK
<1>2. /\ \A p \in Paths : p \in Names /\ StatOf(p) \in Nat /\ WalkedStat(p) \in Nat
      /\ \A p \in Paths, stat \in Nat : SeenAt(p, stat) \in [Paths -> Nat]
      /\ \A p \in Paths : disk[p].sha \in ContentsRead
  BY <1>1, DiskTypes DEF WalkedStat
<1>3. CASE PassBegins
  <2>1. ActivePaths \in SUBSET Paths
    BY DEF ActivePaths
  <2> QED
    BY <1>1, <1>3, <2>1, PassPut DEF PassBegins
<1>4. CASE Lists
  <2> DEFINE present == {p \in Paths : There(p)}
             missing == IF present = {} THEN {} ELSE pass.active \ present
  <2>1. present \in SUBSET Paths /\ missing \in SUBSET Paths
    BY <1>1
  <2>2. pass' = IF ~mounted THEN NoPass
                ELSE [pass EXCEPT !.pc = "visit", !.todo = present, !.missing = missing]
    BY <1>4 DEF Lists
  <2>3. UNCHANGED seen
    BY <1>4 DEF Lists
  <2> HIDE DEF present, missing
  <2> QED
    BY <1>1, <2>1, <2>2, <2>3, PassPut
<1>5. CASE Visits
  <2>1. PICK p \in pass.todo :
          /\ \/ pass' = [pass EXCEPT !.todo = @ \ {p}]
             \/ pass' = [pass EXCEPT !.todo = @ \ {p}, !.fresh = @ \union {p},
                                     !.stats[p] = StatOf(p)]
          /\ \/ UNCHANGED seen
             \/ seen' = SeenAt(p, StatOf(p))
    BY <1>5 DEF Visits
  <2> DEFINE todo == pass.todo \ {p}
             fresh == pass.fresh \union {p}
             stats == [pass.stats EXCEPT ![p] = StatOf(p)]
  <2>2. /\ p \in Paths /\ todo \in SUBSET Paths /\ fresh \in SUBSET Paths
        /\ stats \in [Paths -> Nat]
    BY <1>1, <1>2, <2>1
  <2>3. \/ pass' = [pass EXCEPT !.todo = todo]
        \/ pass' = [pass EXCEPT !.todo = todo, !.fresh = fresh, !.stats = stats]
    BY <2>1
  <2> HIDE DEF todo, fresh, stats
  <2>4. pass' \in Pass
    <3>1. [pass EXCEPT !.todo = todo] \in Pass
      BY <2>2, PassPut
    <3>2. [pass EXCEPT !.todo = todo, !.fresh = fresh, !.stats = stats] \in Pass
      BY <2>2, PassPut
    <3> QED
      BY <2>3, <3>1, <3>2
  <2> QED
    BY <1>1, <1>2, <2>1, <2>2, <2>4
<1>6. CASE Hashes
  <2> DEFINE hashed == IF pass.missing = {} THEN {} ELSE {p \in pass.fresh : There(p)}
             shas == [p \in Paths |-> IF p \in hashed THEN {disk[p].sha} ELSE {}]
             pairs == Pairs(hashed)
  <2>1. hashed \subseteq Paths
    BY <1>1
  <2>2. pass' = [pass EXCEPT !.pc = "change", !.active = {}, !.shas = shas, !.pairs = pairs]
    BY <1>6 DEF Hashes
  <2> HIDE DEF hashed
  <2>3. shas \in [Paths -> SUBSET ContentsRead]
    BY <1>2
  <2>4. pairs \in SUBSET (Paths \X Paths)
    BY <1>1, <2>1 DEF Pairs
  <2>5. UNCHANGED seen
    BY <1>6 DEF Hashes
  <2> HIDE DEF shas, pairs
  <2> QED
    BY <1>1, <2>2, <2>3, <2>4, <2>5, PassPut
<1>7. CASE Moves
  <2>1. PICK pair \in pass.pairs :
          \/ /\ pass' = [pass EXCEPT !.pairs = @ \ {pair}]
             /\ UNCHANGED seen
          \/ /\ pass' = [pass EXCEPT !.pairs = @ \ {pair}, !.missing = @ \ {pair[1]},
                                     !.fresh = @ \ {pair[2]}]
             /\ seen' = [SeenAt(pair[2], WalkedStat(pair[2])) EXCEPT ![pair[1]] = 0]
    BY <1>7 DEF Moves
  <2> DEFINE pairs == pass.pairs \ {pair}
             missing == pass.missing \ {pair[1]}
             fresh == pass.fresh \ {pair[2]}
  <2>2. /\ pairs \in SUBSET (Paths \X Paths) /\ missing \in SUBSET Paths
        /\ fresh \in SUBSET Paths /\ pair[1] \in Paths /\ pair[2] \in Paths
    BY <1>1
  <2>3. \/ pass' = [pass EXCEPT !.pairs = pairs]
        \/ pass' = [pass EXCEPT !.pairs = pairs, !.missing = missing, !.fresh = fresh]
    BY <2>1
  <2> HIDE DEF pairs, missing, fresh
  <2>4. pass' \in Pass
    <3>1. [pass EXCEPT !.pairs = pairs] \in Pass
      BY <2>2, PassPut
    <3>2. [pass EXCEPT !.pairs = pairs, !.missing = missing, !.fresh = fresh] \in Pass
      BY <2>2, PassPut
    <3> QED
      BY <2>3, <3>1, <3>2
  <2>5. SeenAt(pair[2], WalkedStat(pair[2])) \in [Paths -> Nat]
    BY <1>2, <2>2
  <2> QED
    BY <1>1, <2>1, <2>2, <2>4, <2>5
<1>8. CASE Creates
  <2>1. PICK p \in pass.fresh : /\ pass' = [pass EXCEPT !.fresh = @ \ {p}]
                                /\ UNCHANGED seen \/ seen' = SeenAt(p, WalkedStat(p))
    BY <1>8 DEF Creates
  <2> DEFINE fresh == pass.fresh \ {p}
  <2>2. fresh \in SUBSET Paths /\ p \in Paths /\ pass' = [pass EXCEPT !.fresh = fresh]
    BY <1>1, <2>1
  <2> HIDE DEF fresh
  <2>3. pass' \in Pass
    BY <2>2, PassPut
  <2> QED
    BY <1>1, <1>2, <2>1, <2>2, <2>3
<1>9. CASE Deletes
  <2>1. PICK p \in pass.missing : /\ pass' = [pass EXCEPT !.missing = @ \ {p}]
                                  /\ seen' = [seen EXCEPT ![p] = 0]
    BY <1>9 DEF Deletes
  <2> DEFINE missing == pass.missing \ {p}
  <2>2. missing \in SUBSET Paths /\ pass' = [pass EXCEPT !.missing = missing]
    BY <1>1, <2>1
  <2> HIDE DEF missing
  <2> QED
    BY <1>1, <2>1, <2>2, PassPut
<1>10. CASE PassEnds
  BY <1>1, <1>10 DEF PassEnds
<1> QED
  BY <1>3, <1>4, <1>5, <1>6, <1>7, <1>8, <1>9, <1>10 DEF PassStep

LEMMA OuterStep ==
  ASSUME TypeOK, Next
  PROVE  Outer'
<1>1. changes' \in 0..MaxChanges /\ faults' \in 0..MaxFaults
  BY CountersStep
<1>2. /\ disk \in [Names -> File] /\ mounted \in BOOLEAN /\ hints \subseteq Hint
      /\ seen \in [Paths -> Nat] /\ pass \in Pass
      /\ NoPass \in Pass /\ Unseen \in [Paths -> Nat]
  BY PassFields DEF TypeOK, Unseen
<1> SUFFICES /\ disk' \in [Names -> File] /\ mounted' \in BOOLEAN /\ hints' \subseteq Hint
             /\ seen' \in [Paths -> Nat] /\ pass' \in Pass
  BY <1>1 DEF Outer
<1>3. CASE HandleHint
  BY <1>2, <1>3 DEF HandleHint
<1>4. CASE PassStep
  <2>1. UNCHANGED <<disk, mounted, hints>>
    BY <1>4 DEF PassStep, PassBegins, Lists, Visits, Hashes, Moves, Creates, Deletes, PassEnds,
                outside
  <2> QED
    BY <1>2, <1>4, <2>1, PassStepTypes
<1>5. CASE WindowCloses \/ ExtractFails \/ DeleteDocument \/ Purge \/ ReaperSelects \/ ReaperDeletes
  <2>1. UNCHANGED <<disk, mounted, hints, seen, pass>>
    BY <1>5 DEF WindowCloses, ExtractFails, DeleteDocument, Purge, ReaperSelects, ReaperDeletes
  <2> QED
    BY <1>2, <2>1
<1>6. CASE Write
  <2>1. PICK n \in Names, c \in Contents \union {Empty} :
          /\ disk' = [disk EXCEPT ![n] = NewFile(c)]
          /\ hints' = hints \union {Touched(n)}
    BY <1>6 DEF Write
  <2>2. UNCHANGED <<mounted, seen, pass>>
    BY <1>6 DEF Write, outsideDisk
  <2>3. NewFile(c) \in File
    <3>1. Cardinality(Names) \in Nat /\ changes \in Nat
      BY FolderAssumption, FS_CardinalityType DEF TypeOK
    <3> QED
      BY <3>1 DEF NewFile, File
  <2> QED
    BY <1>2, <2>1, <2>2, <2>3, HintsFit
<1>7. CASE Unlink
  <2>1. PICK n \in Names : /\ disk' = [disk EXCEPT ![n] = NoFile]
                           /\ hints' = hints \union {Touched(n)}
    BY <1>7 DEF Unlink
  <2>2. UNCHANGED <<mounted, seen, pass>> /\ NoFile \in File
    BY <1>7 DEF Unlink, outsideDisk, NoFile, File
  <2> QED
    BY <1>2, <2>1, <2>2, HintsFit
<1>8. CASE Rename
  <2>1. PICK n \in Names, m \in Names :
          /\ disk' = [disk EXCEPT ![m] = disk[n], ![n] = NoFile]
          /\ \/ hints' = hints \union {[from |-> n, to |-> m]}
             \/ hints' = hints \union {Touched(n), Touched(m)}
    BY <1>8 DEF Rename, Targets
  <2>2. UNCHANGED <<mounted, seen, pass>> /\ NoFile \in File
    BY <1>8 DEF Rename, outsideDisk, NoFile, File
  <2> QED
    BY <1>2, <2>1, <2>2, HintsFit
<1>9. CASE Unmount
  BY <1>2, <1>9 DEF Unmount
<1>10. CASE Mount
  BY <1>2, <1>10 DEF Mount
<1>11. CASE LoseHint
  BY <1>2, <1>11 DEF LoseHint
<1>12. CASE RepeatHint
  BY <1>2, <1>12, HintsFit DEF RepeatHint
<1>13. CASE PassAborts \/ Restart
  BY <1>2, <1>13 DEF PassAborts, Restart
<1> QED
  BY <1>3, <1>4, <1>5, <1>6, <1>7, <1>8, <1>9, <1>10, <1>11, <1>12, <1>13 DEF Next

(* What the reaper selected is among the documents: none is dropped.        *)
LEMMA ReapingStep ==
  ASSUME TInv, Next, Permits
  PROVE  reaping' \subseteq DOMAIN docs'
<1>1. Sound /\ reaping \subseteq DOMAIN docs
  BY DEF TInv, TypeOK
<1>2. DOMAIN docs = 1..Len(docs) /\ Len(docs) \in Nat
  BY <1>1, SoundType
<1>3. DOMAIN docs' = 1..Len(docs') /\ Len(docs') \in Nat
  <2>1. docs' \in Seq(Document)
    BY SoundTables DEF Permits
  <2> QED
    BY <2>1, LenProperties
<1>4. DOMAIN docs \subseteq DOMAIN docs'
  BY <1>2, <1>3 DEF Permits
<1>5. CASE ReaperSelects
  <2>1. reaping' = {rows[p].doc : p \in Expired}
    BY <1>5 DEF ReaperSelects
  <2>2. \A p \in Expired : rows[p].doc \in DOMAIN docs
    BY <1>1, <1>2, FitsHere DEF Expired
  <2> QED
    BY <1>4, <2>1, <2>2
<1>6. CASE ReaperDeletes
  BY <1>6 DEF ReaperDeletes
<1>7. CASE ~ReaperSelects /\ ~ReaperDeletes
  <2>1. UNCHANGED reaping
    BY <1>7 DEF Next, HandleHint, WindowCloses, PassStep, PassBegins, Lists, Visits, Hashes,
                Moves, Creates, Deletes, PassEnds, outside, ExtractFails, DeleteDocument, Purge,
                Write, Unlink, Rename, outsideDisk, Unmount, Mount, LoseHint, RepeatHint,
                PassAborts, Restart
  <2> QED
    BY <1>1, <1>4, <2>1
<1> QED
  BY <1>5, <1>6, <1>7

LEMMA TypeStep ==
  ASSUME TInv, [Next]_vars
  PROVE  TInv'
<1>1. Permits
  BY NextPermits
<1>2. CASE Next
  <2>1. Outer' /\ reaping' \subseteq DOMAIN docs'
    BY <1>1, <1>2, OuterStep, ReapingStep DEF TInv
  <2>2. /\ rows' \in [Paths -> Row] /\ docs' \in Seq(Document) /\ recent' \in [Paths -> Nat]
        /\ \A p \in Paths : recent'[p] # 0 => rows'[p].status = "removed"
    BY <1>1, SoundTables, DbFields DEF Permits, Fits
  <2>3. Sound'
    BY <1>1, SoundAfter DEF Permits
  <2>4. TypeOK'
    BY <2>1, <2>2 DEF TypeOK, Outer
  <2> QED
    BY <2>3, <2>4 DEF TInv
<1>3. CASE UNCHANGED vars
  <2>1. Sound'
    BY <1>1, SoundAfter DEF Permits
  <2>2. TypeOK'
    BY <1>3 DEF vars, stored, TInv, TypeOK
  <2> QED
    BY <2>1, <2>2 DEF TInv
<1> QED
  BY <1>2, <1>3

LEMMA TypeInit ==
  ASSUME Init
  PROVE  TInv
<1>1. /\ disk \in [Names -> File] /\ mounted \in BOOLEAN /\ hints \subseteq Hint
      /\ rows \in [Paths -> Row] /\ docs \in Seq(Document) /\ recent \in [Paths -> Nat]
      /\ \A p \in Paths : /\ rows[p].doc = 0 /\ rows[p].status = "none"
                          /\ recent[p] = 0
  BY FolderAssumption, EmptySeq DEF Init, NoRow, Row
<1>2. seen \in [Paths -> Nat] /\ pass \in Pass /\ reaping \subseteq DOMAIN docs
  BY DEF Init, Unseen, Unhashed, NoPass, Pass
<1>3. changes \in 0..MaxChanges /\ faults \in 0..MaxFaults
  BY FolderAssumption DEF Init
<1>4. Len(docs) = 0
  BY EmptySeq DEF Init
<1>5. Fits(Db)
  BY <1>1, <1>4, DbFields DEF Fits
<1>6. Sound
  BY <1>1, <1>5, SoundTables
<1> QED
  BY <1>1, <1>2, <1>3, <1>6 DEF TInv, TypeOK

-----------------------------------------------------------------------------
(* The theorems                                                            *)

(* The type invariant holds: what the reaper selected are documents, and only
   a removed row is in the window in which it can be adopted.              *)
THEOREM TypeCorrect == Spec => []TypeOK
<1>1. Init => TInv
  BY TypeInit
<1>2. TInv /\ [Next]_vars => TInv'
  BY TypeStep
<1>3. TInv => TypeOK
  BY DEF TInv
<1> QED
  BY <1>1, <1>2, <1>3, PTL DEF Spec

(* A document that no administrator deleted has exactly one row and is in
   search exactly while that row is active, whatever was renamed, copied,
   deleted, purged or reaped, in whatever order it was noticed.            *)
THEOREM FollowRows == Spec => []DocumentsFollowRows
<1>1. Init => TInv
  BY TypeInit
<1>2. TInv /\ [Next]_vars => TInv'
  BY TypeStep
<1>3. TInv => DocumentsFollowRows
  <2> SUFFICES ASSUME TInv, NEW d \in 1..Len(docs)
               PROVE  /\ docs[d].status = "gone" <=> RowsOf(d) = {}
                      /\ docs[d].status \in {"active", "removed"}
                           => \E p \in Paths : /\ RowsOf(d) = {p}
                                               /\ rows[p].status = docs[d].status
    BY SoundType DEF DocumentsFollowRows, TInv
  <2>1. Sound /\ d # 0
    BY SoundType DEF TInv
  <2>2. \A p \in Paths : rows[p].status \in {"none", "active", "removed"}
    BY <2>1, FitsHere DEF Row
  <2>3. docs[d].status = "gone" => RowsOf(d) = {}
    BY <2>1, <2>2, FitsHere DEF RowsOf
  <2>4. RowsOf(d) = {} => docs[d].status = "gone"
    BY <2>1, FitsHere DEF RowsOf
  <2>5. ASSUME docs[d].status \in {"active", "removed"}
        PROVE  \E p \in Paths : RowsOf(d) = {p} /\ rows[p].status = docs[d].status
    <3>1. PICK p \in Paths : rows[p].doc = d
      BY <2>1, <2>5, FitsHere
    <3>2. RowsOf(d) = {p}
      BY <2>1, <3>1, FitsHere DEF RowsOf
    <3>3. rows[p].status = docs[d].status
      BY <2>1, <2>5, <3>1, FitsHere
    <3> QED
      BY <3>2, <3>3
  <2> QED
    BY <2>3, <2>4, <2>5
<1> QED
  BY <1>1, <1>2, <1>3, PTL DEF Spec

(* Nothing on disk, no pass and no reaper revives a document that an
   administrator deleted.                                                  *)
THEOREM DeletedForGood == Spec => DeletedStaysDeleted
<1>1. Init => TInv
  BY TypeInit
<1>2. TInv /\ [Next]_vars => TInv'
  BY TypeStep
<1>3. TInv /\ [Next]_vars
        => [\A d \in DOMAIN docs :
              docs[d].status \in {"deleted", "gone"}
                => docs'[d].status \in {docs[d].status, "gone"}]_vars
  BY NextPermits, SoundType DEF TInv, Permits
<1> QED
  BY <1>1, <1>2, <1>3, PTL DEF Spec, DeletedStaysDeleted

(* A document leaves its path for another only when the file there is gone:
   neither a copy nor a file put back in time takes its document along.    *)
THEOREM OnlyFilesMove == Spec => CopiesAreNotMoves
<1>1. Init => TInv
  BY TypeInit
<1>2. TInv /\ [Next]_vars => TInv'
  BY TypeStep
<1>3. TInv /\ [Next]_vars
        => [\A p, q \in Paths :
              p # q /\ rows[p].doc # 0 /\ rows'[q].doc = rows[p].doc => ~There(p)]_vars
  BY NextPermits DEF Permits
<1> QED
  BY <1>1, <1>2, <1>3, PTL DEF Spec, CopiesAreNotMoves
=============================================================================
