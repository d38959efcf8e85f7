------------------------ MODULE UploadSessionProofs ------------------------
(***************************************************************************)
(* Theorems of UploadSession: types, that a committed document has its     *)
(* original, and that the session's counter counts its uploads, for any    *)
(* requests, files, bounds and faults.                                     *)
(***************************************************************************)
EXTENDS UploadSession, FiniteSetTheorems, TLAPS

(* A call starts from NoCall with some of its fields set.                  *)
LEMMA NoneAreTyped == NoCall \in Call /\ NoRow \in Row /\ NoReaper \in Reaper
  BY UploadAssumption DEF NoCall, Call, NoRow, Row, NoReaper, Reaper

LEMMA InitType == Init => TypeOK
  BY NoneAreTyped, UploadAssumption
  DEF Init, TypeOK, Session, UploadIds, DocIds

PCs == {"idle", "receive", "insert", "confirm", "remove", "cancel", "cancelled"}

(* What a step leaves of a call that is well typed is well typed.          *)
LEMMA CallMoves ==
  ASSUME NEW c \in Call
  PROVE  /\ \A pc \in PCs : [c EXCEPT !.pc = pc] \in Call
         /\ \A d \in DocIds : [c EXCEPT !.pc = "insert", !.dup = TRUE, !.doc = d] \in Call
         /\ \A d \in DocIds : [c EXCEPT !.pc = "insert", !.doc = d] \in Call
         /\ \A u \in UploadIds : [c EXCEPT !.todo = @ \ {u}] \in Call
         /\ \A u \in UploadIds, d \in DocIds :
              [c EXCEPT !.pc = "remove", !.todo = @ \ {u},
                        !.made = @ \union {<<u, d>>}] \in Call
<1>1. \A pc \in PCs : [c EXCEPT !.pc = pc] \in Call
  BY DEF Call, PCs
<1>2. \A d \in DocIds : d \in 0..MaxDocs
  BY UploadAssumption DEF DocIds
<1>3. \A d \in DocIds : [c EXCEPT !.pc = "insert", !.dup = TRUE, !.doc = d] \in Call
  BY <1>2 DEF Call
<1>4. \A d \in DocIds : [c EXCEPT !.pc = "insert", !.doc = d] \in Call
  BY <1>2 DEF Call
<1>5. \A u \in UploadIds : [c EXCEPT !.todo = @ \ {u}] \in Call
  BY DEF Call
<1>6. ASSUME NEW u \in UploadIds, NEW d \in DocIds
      PROVE  [c EXCEPT !.pc = "remove", !.todo = @ \ {u},
                       !.made = @ \union {<<u, d>>}] \in Call
  <2>1. c.made \union {<<u, d>>} \in SUBSET (UploadIds \X DocIds)
    BY DEF Call
  <2>2. c.todo \ {u} \in SUBSET UploadIds
    BY DEF Call
  <2> QED
    BY <2>1, <2>2 DEF Call
<1> QED
  BY <1>1, <1>3, <1>4, <1>5, <1>6

LEMMA CallStarts ==
  /\ \A f \in Files, mine \in BOOLEAN, u \in UploadIds :
       [NoCall EXCEPT !.pc = "receive", !.mine = mine, !.file = f, !.upload = u] \in Call
  /\ \A todo \in SUBSET UploadIds, mine \in BOOLEAN :
       [NoCall EXCEPT !.pc = "confirm", !.mine = mine, !.todo = todo] \in Call
  /\ \A todo \in SUBSET UploadIds :
       /\ [NoCall EXCEPT !.pc = "confirm", !.todo = todo] \in Call
       /\ [NoCall EXCEPT !.pc = "cancel", !.todo = todo] \in Call
<1>1. \A u \in UploadIds : u \in 0..MaxUploads
  BY UploadAssumption DEF UploadIds
<1> QED
  BY <1>1, NoneAreTyped DEF NoCall, Call

LEMMA SessionConfirms ==
  ASSUME NEW s \in Session, NEW n \in Nat
  PROVE  [s EXCEPT !.status = "completed", !.quiet = FALSE, !.confirmed = @ + n] \in Session
<1> DEFINE m == s.confirmed + n
<1>1. m \in Nat
  BY DEF Session
<1> HIDE DEF m
<1>2. [s EXCEPT !.status = "completed", !.quiet = FALSE, !.confirmed = m] \in Session
  BY <1>1 DEF Session
<1> QED
  BY <1>2 DEF m

LEMMA ReaperMoves ==
  ASSUME NEW p \in Reaper
  PROVE  /\ [p EXCEPT !.pc = "commit"] \in Reaper
         /\ [p EXCEPT !.pc = "commit", !.sweeps = {}] \in Reaper
<1>1. [p EXCEPT !.pc = "commit"] \in Reaper
  BY DEF Reaper
<1>2. {} \in SUBSET UploadIds
  OBVIOUS
<1>3. [p EXCEPT !.pc = "commit", !.sweeps = {}] \in Reaper
  BY <1>2 DEF Reaper
<1> QED
  BY <1>1, <1>3

(* The step of one call puts another there.                                *)
LEMMA CallPut ==
  ASSUME call \in [Requests -> Call], NEW r \in Requests, NEW c \in Call,
         call' = [call EXCEPT ![r] = c]
  PROVE  /\ call' \in [Requests -> Call]
         /\ call'[r] = c
         /\ \A q \in Requests : q # r => call'[q] = call[q]
  OBVIOUS

LEMMA MadeIsFinite ==
  ASSUME NEW made \in SUBSET (UploadIds \X DocIds)
  PROVE  Cardinality(made) \in Nat
<1>1. IsFiniteSet(UploadIds) /\ IsFiniteSet(DocIds)
  BY FS_Interval, UploadAssumption DEF UploadIds, DocIds
<1>2. IsFiniteSet(UploadIds \X DocIds)
  BY <1>1, FS_Product
<1> QED
  BY <1>2, FS_Subset, FS_CardinalityType

(* An upload under way has an id that no row and no other upload has, and an id
   without a row is no upload of the session's: ids are taken only once.   *)
Uploading(r) == call[r].pc \in {"receive", "insert"}

UploadsApart ==
  /\ \A r \in Requests : Uploading(r) =>
       /\ call[r].upload \in UploadIds
       /\ upload[call[r].upload].status = "none"
       /\ \A q \in Requests : Uploading(q) /\ q # r => call[q].upload # call[r].upload
  /\ \A u \in UploadIds : upload[u].status = "none" => ~upload[u].mine

LEMMA StepType == TypeOK /\ UploadsApart /\ [Next]_vars => TypeOK'
<1> SUFFICES ASSUME TypeOK, UploadsApart, [Next]_vars PROVE TypeOK'
  OBVIOUS
<1> USE UploadAssumption DEF TypeOK, rows, objects
<1>1. ASSUME NEW r \in Requests, NEW c \in Call, Comes(r, c),
             UNCHANGED <<rows, objects, reaper, faults>>
      PROVE  TypeOK'
  BY <1>1, CallPut DEF Comes
<1>2. ASSUME NEW r \in Requests, NEW c \in Call, call' = [call EXCEPT ![r] = c],
             UNCHANGED <<rows, reaper, requests, faults>>,
             staged' \subseteq UploadIds, originals' \subseteq DocIds
      PROVE  TypeOK'
  BY <1>2, CallPut
<1>3. ASSUME NEW r \in Requests, Begin(r) PROVE TypeOK'
  <2>1. ASSUME NEW f \in Files, NEW mine \in BOOLEAN, BeginUpload(r, f, mine)
        PROVE  TypeOK'
    <3>1. PICK u \in UploadIds :
            /\ Comes(r, [NoCall EXCEPT !.pc = "receive", !.mine = mine, !.file = f,
                                       !.upload = u])
            /\ UNCHANGED <<rows, objects, reaper, faults>>
      BY <2>1 DEF BeginUpload
    <3> DEFINE c == [NoCall EXCEPT !.pc = "receive", !.mine = mine, !.file = f,
                                   !.upload = u]
    <3>2. c \in Call /\ Comes(r, c)
      BY <3>1, CallStarts
    <3> HIDE DEF c
    <3> QED
      BY <1>1, <3>1, <3>2
  <2>2. ASSUME BeginConfirm(r) PROVE TypeOK'
    <3> DEFINE c == [NoCall EXCEPT !.pc = "confirm", !.mine = TRUE, !.todo = PendingUploads]
    <3>1. PendingUploads \in SUBSET UploadIds
      BY DEF PendingUploads
    <3>2. c \in Call /\ Comes(r, c) /\ UNCHANGED <<rows, objects, reaper, faults>>
      BY <2>2, <3>1, CallStarts DEF BeginConfirm
    <3> HIDE DEF c
    <3> QED
      BY <1>1, <3>2
  <2>3. ASSUME BeginItems(r) PROVE TypeOK'
    <3>1. PICK items \in SUBSET UploadIds :
            Comes(r, [NoCall EXCEPT !.pc = "confirm", !.todo = items])
      BY <2>3 DEF BeginItems
    <3> DEFINE c == [NoCall EXCEPT !.pc = "confirm", !.todo = items]
    <3>2. c \in Call /\ Comes(r, c) /\ UNCHANGED <<rows, objects, reaper, faults>>
      BY <2>3, <3>1, CallStarts DEF BeginItems
    <3> HIDE DEF c
    <3> QED
      BY <1>1, <3>2
  <2>4. ASSUME BeginCancel(r) PROVE TypeOK'
    <3> DEFINE c == [NoCall EXCEPT !.pc = "cancel", !.todo = PendingUploads]
    <3>1. PendingUploads \in SUBSET UploadIds
      BY DEF PendingUploads
    <3>2. c \in Call /\ Comes(r, c) /\ UNCHANGED <<rows, objects, reaper, faults>>
      BY <2>4, <3>1, CallStarts DEF BeginCancel
    <3> HIDE DEF c
    <3> QED
      BY <1>1, <3>2
  <2> QED
    BY <1>3, <2>1, <2>2, <2>3, <2>4 DEF Begin
<1>4. ASSUME NEW r \in Requests, FindsDuplicate(r) PROVE TypeOK'
  <2>1. PICK d \in DocIds :
          call' = [call EXCEPT ![r] = [call[r] EXCEPT !.pc = "insert", !.dup = TRUE, !.doc = d]]
    BY <1>4 DEF FindsDuplicate, SameContent
  <2> DEFINE c == [call[r] EXCEPT !.pc = "insert", !.dup = TRUE, !.doc = d]
  <2>2. c \in Call /\ call' = [call EXCEPT ![r] = c]
    BY <2>1, CallMoves
  <2> HIDE DEF c
  <2> QED
    BY <1>2, <1>4, <2>2 DEF FindsDuplicate
<1>5. ASSUME NEW r \in Requests, FindsSeveral(r) PROVE TypeOK'
  BY <1>2, <1>5, NoneAreTyped DEF FindsSeveral, Ends
<1>6. ASSUME NEW r \in Requests, Stores(r) PROVE TypeOK'
  <2>1. CASE AutoConfirms(r)
    <3>1. PICK d \in DocIds :
            /\ originals' = originals \union {d}
            /\ call' = [call EXCEPT ![r].pc = "insert", ![r].doc = d]
            /\ UNCHANGED staged
      BY <1>6, <2>1 DEF Stores
    <3> DEFINE c == [call[r] EXCEPT !.pc = "insert", !.doc = d]
    <3>2. c \in Call /\ call' = [call EXCEPT ![r] = c]
      BY <3>1, CallMoves
    <3> HIDE DEF c
    <3> QED
      BY <1>2, <1>6, <3>1, <3>2 DEF Stores
  <2>2. CASE ~AutoConfirms(r)
    <3> DEFINE c == [call[r] EXCEPT !.pc = "insert"]
    <3>1. /\ staged' = staged \union {call[r].upload}
          /\ call' = [call EXCEPT ![r] = c]
          /\ UNCHANGED originals
      BY <1>6, <2>2 DEF Stores
    <3>2. c \in Call
      BY CallMoves DEF PCs
    <3>3. call[r].upload \in UploadIds
      BY <1>6 DEF Stores, UploadsApart, Uploading
    <3> HIDE DEF c
    <3> QED
      BY <1>2, <1>6, <3>1, <3>2, <3>3 DEF Stores
  <2> QED
    BY <2>1, <2>2
<1>7. ASSUME NEW r \in Requests, Inserts(r) PROVE TypeOK'
  <2>1. call' \in [Requests -> Call]
    BY <1>7, CallPut, NoneAreTyped DEF Inserts, Ends
  <2>2. /\ call[r].file \in Files \union {NoFile} /\ call[r].mine \in BOOLEAN
        /\ call[r].doc \in 0..MaxDocs
    BY DEF Call
  <2>3. Uploaded(r) \in Row
    BY <2>2 DEF Uploaded, Row
  <2>4. upload' \in [UploadIds -> Row]
    BY <1>7, <2>3 DEF Inserts
  <2>5. docs' \in [DocIds -> Files \union {NoFile}]
    BY <1>7, <2>2 DEF Inserts
  <2>6. sess' \in Session
    <3>1. CASE ~call[r].mine
      BY <1>7, <3>1 DEF Inserts
    <3>2. CASE call[r].mine
      <4> DEFINE n == IF AutoConfirms(r) /\ ~call[r].dup THEN sess.confirmed + 1
                                                        ELSE sess.confirmed
      <4>1. sess' = [sess EXCEPT !.uploaded = sess.uploaded + 1, !.quiet = FALSE,
                                 !.confirmed = n]
        BY <1>7, <3>2 DEF Inserts, Counted
      <4>2. sess.uploaded + 1 \in Nat /\ n \in Nat
        BY DEF Session
      <4> HIDE DEF n
      <4> QED
        BY <4>1, <4>2 DEF Session
    <3> QED
      BY <3>1, <3>2, <2>2
  <2> QED
    BY <1>7, <2>1, <2>4, <2>5, <2>6 DEF Inserts
<1>8. ASSUME NEW r \in Requests, NEW u \in UploadIds, Copies(r, u) PROVE TypeOK'
  <2>1. PICK d \in DocIds :
          /\ originals' = originals \union {d}
          /\ call' = [call EXCEPT ![r] =
               [call[r] EXCEPT !.pc = "remove", !.todo = @ \ {u},
                               !.made = @ \union {<<u, d>>}]]
    BY <1>8 DEF Copies
  <2> DEFINE c == [call[r] EXCEPT !.pc = "remove", !.todo = @ \ {u},
                                  !.made = @ \union {<<u, d>>}]
  <2>2. c \in Call /\ call' = [call EXCEPT ![r] = c]
    BY <2>1, CallMoves
  <2> HIDE DEF c
  <2> QED
    BY <1>2, <1>8, <2>1, <2>2 DEF Copies
<1>9. ASSUME NEW r \in Requests, Deletes(r) PROVE TypeOK'
  <2> DEFINE c == [call[r] EXCEPT !.pc = "confirm"]
  <2>1. c \in Call /\ call' = [call EXCEPT ![r] = c]
    BY <1>9, CallMoves DEF Deletes, PCs
  <2>2. staged' \subseteq UploadIds
    BY <1>9 DEF Deletes
  <2> HIDE DEF c
  <2> QED
    BY <1>2, <1>9, <2>1, <2>2 DEF Deletes
<1>10. ASSUME NEW r \in Requests, NEW u \in UploadIds, CopyFails(r, u) PROVE TypeOK'
  BY <1>2, <1>10, NoneAreTyped DEF CopyFails, Ends
<1>11. ASSUME NEW r \in Requests, NEW u \in UploadIds, Skips(r, u) PROVE TypeOK'
  <2> DEFINE c == [call[r] EXCEPT !.todo = @ \ {u}]
  <2>1. c \in Call /\ call' = [call EXCEPT ![r] = c]
    BY <1>11, CallMoves DEF Skips
  <2> HIDE DEF c
  <2> QED
    BY <1>2, <1>11, <2>1 DEF Skips
<1>12. ASSUME NEW r \in Requests, Confirms(r) PROVE TypeOK'
  <2> DEFINE made == call[r].made
             docOf(u) == CHOOSE d \in DocIds : <<u, d>> \in made
             namedFor(d) == CHOOSE u \in UploadIds : <<u, d>> \in made
  <2>1. made \in SUBSET (UploadIds \X DocIds)
    BY DEF Call
  <2>2. call' \in [Requests -> Call]
    BY <1>12, CallPut, NoneAreTyped DEF Confirms, Ends
  <2>3. ASSUME NEW u \in {m[1] : m \in made} PROVE docOf(u) \in 0..MaxDocs
    <3>1. PICK m \in made : m[1] = u
      BY <2>3
    <3>2. <<u, m[2]>> \in made /\ m[2] \in DocIds
      BY <2>1, <3>1
    <3> QED
      BY <3>2 DEF DocIds
  <2>4. ASSUME NEW d \in DocIds, \E m \in made : m[2] = d
        PROVE  namedFor(d) \in UploadIds
    <3>1. PICK m \in made : m[2] = d
      BY <2>4
    <3>2. <<m[1], d>> \in made /\ m[1] \in UploadIds
      BY <2>1, <3>1
    <3> QED
      BY <3>2
  <2>5. upload' = [u \in UploadIds |->
          IF u \in {m[1] : m \in made}
          THEN [upload[u] EXCEPT !.status = "processing", !.doc = docOf(u)]
          ELSE upload[u]]
    BY <1>12 DEF Confirms
  <2>6. docs' = [d \in DocIds |->
          IF \E m \in made : m[2] = d THEN upload[namedFor(d)].file ELSE docs[d]]
    BY <1>12 DEF Confirms
  <2>7. sess' = IF call[r].mine
                THEN [sess EXCEPT !.status = "completed", !.quiet = FALSE,
                                  !.confirmed = @ + Cardinality(made)]
                ELSE sess
    BY <1>12 DEF Confirms
  <2>8. PICK n \in Nat : n = Cardinality(made)
    BY <2>1, MadeIsFinite
  <2>9. sess' \in Session
    <3>1. sess' = IF call[r].mine
                  THEN [sess EXCEPT !.status = "completed", !.quiet = FALSE,
                                    !.confirmed = @ + n]
                  ELSE sess
      BY <2>7, <2>8
    <3> HIDE DEF made, docOf, namedFor
    <3>2. CASE call[r].mine
      BY <3>1, <3>2, SessionConfirms
    <3>3. CASE ~call[r].mine
      BY <3>1, <3>3
    <3> QED
      BY <3>2, <3>3
  <2> HIDE DEF docOf, namedFor
  <2>10. upload' \in [UploadIds -> Row] /\ docs' \in [DocIds -> Files \union {NoFile}]
    <3>1. ASSUME NEW u \in UploadIds PROVE upload'[u] \in Row
      <4>1. CASE u \in {m[1] : m \in made}
        BY <2>3, <2>5, <4>1 DEF Row
      <4>2. CASE u \notin {m[1] : m \in made}
        BY <2>5, <4>2
      <4> QED
        BY <4>1, <4>2
    <3>2. ASSUME NEW d \in DocIds PROVE docs'[d] \in Files \union {NoFile}
      BY <2>4, <2>6 DEF Row
    <3> QED
      BY <2>5, <2>6, <3>1, <3>2
  <2>11. UNCHANGED <<objects, reaper, requests, faults>>
    BY <1>12 DEF Confirms
  <2> HIDE DEF made
  <2> QED
    BY <2>2, <2>9, <2>10, <2>11
<1>13. ASSUME NEW r \in Requests, RemovesStaged(r) PROVE TypeOK'
  <2> DEFINE c == [call[r] EXCEPT !.pc = "cancelled"]
  <2>1. c \in Call /\ call' = [call EXCEPT ![r] = c]
    BY <1>13, CallMoves DEF RemovesStaged, PCs
  <2> HIDE DEF c
  <2> QED
    BY <1>13, <2>1, CallPut DEF RemovesStaged, Fault
<1>14. ASSUME NEW r \in Requests, Cancels(r) PROVE TypeOK'
  <2>1. call' \in [Requests -> Call]
    BY <1>14, CallPut, NoneAreTyped DEF Cancels, Ends
  <2>2. upload' \in [UploadIds -> Row]
    BY <1>14 DEF Cancels, Row
  <2>3. sess' \in Session
    BY <1>14 DEF Cancels, Session
  <2> QED
    BY <1>14, <2>1, <2>2, <2>3 DEF Cancels
<1>15. ASSUME NEW r \in Requests, Fails(r) PROVE TypeOK'
  BY <1>15, CallPut, NoneAreTyped DEF Fails, Ends, Fault
<1>16. ASSUME ReaperStep PROVE TypeOK'
  <2>1. CASE ReaperLooks
    BY <2>1 DEF ReaperLooks, Reaper
  <2>2. CASE ReaperSweeps
    <3>1. staged' \subseteq UploadIds /\ originals' \subseteq DocIds
      BY <2>2 DEF ReaperSweeps
    <3>2. reaper' \in Reaper
      BY <2>2, ReaperMoves DEF ReaperSweeps
    <3>3. faults' \in Nat
      BY <2>2 DEF ReaperSweeps, Fault
    <3> QED
      BY <2>2, <3>1, <3>2, <3>3 DEF ReaperSweeps
  <2>3. CASE ReaperCommits
    <3>1. upload' \in [UploadIds -> Row]
      BY <2>3 DEF ReaperCommits, Row
    <3>2. sess' \in Session
      BY <2>3 DEF ReaperCommits, Session
    <3> QED
      BY <2>3, <3>1, <3>2, NoneAreTyped DEF ReaperCommits
  <2> QED
    BY <1>16, <2>1, <2>2, <2>3 DEF ReaperStep
<1>17. ASSUME ReaperFails PROVE TypeOK'
  BY <1>17, NoneAreTyped DEF ReaperFails, Fault
<1>18. ASSUME HourPasses \/ DayPasses PROVE TypeOK'
  BY <1>18 DEF HourPasses, DayPasses, Session
<1>19. CASE UNCHANGED vars
  BY <1>19 DEF vars
<1> QED
  BY <1>3, <1>4, <1>5, <1>6, <1>7, <1>8, <1>9, <1>10, <1>11, <1>12, <1>13, <1>14,
     <1>15, <1>16, <1>17, <1>18, <1>19 DEF Next, Proceed

-----------------------------------------------------------------------------
(* What the steps rely on beside types: a request under way, and the reaper,
   know uploads that have rows; what a request is about to commit a document
   for is in the store; and the reaper sweeps no originals.                *)
RowsKnown ==
  /\ \A r \in Requests : \A u \in call[r].todo : upload[u].status # "none"
  /\ \A r \in Requests : \A m \in call[r].made : upload[m[1]].status # "none"
  /\ \A u \in reaper.sweeps :
       upload[u].status # "none" /\ upload[u].key # "original"

OriginalsThere ==
  /\ DocumentsKeepOriginals
  /\ \A r \in Requests :
       call[r].pc = "insert" /\ ~call[r].dup /\ AutoConfirms(r)
         => call[r].doc \in originals
  /\ \A r \in Requests : \A m \in call[r].made : m[2] \in originals

Kept == UploadsApart /\ RowsKnown /\ OriginalsThere

(* What every step but an insert leaves of the rows                        *)
RowsStay ==
  /\ \A u \in UploadIds :
       /\ upload'[u].mine = upload[u].mine
       /\ upload'[u].status = "none" <=> upload[u].status = "none"
       /\ upload'[u].key \in {upload[u].key, ""}
  /\ sess'.auto = sess.auto
  /\ sess'.uploaded = sess.uploaded

LEMMA InitKept == Init => Kept
<1> SUFFICES ASSUME Init PROVE Kept
  OBVIOUS
<1>1. /\ \A r \in Requests : call[r].pc = "idle" /\ call[r].todo = {} /\ call[r].made = {}
      /\ \A u \in UploadIds : ~upload[u].mine
      /\ reaper.sweeps = {}
      /\ \A d \in DocIds : docs[d] = NoFile
  BY DEF Init, NoCall, NoRow, NoReaper
<1> QED
  BY <1>1 DEF Kept, UploadsApart, Uploading, RowsKnown, OriginalsThere,
     DocumentsKeepOriginals

(* A step of one request keeps all that if it leaves the request uploading what
   it uploaded or something fresh, and knowing rows and originals that are
   there.                                                                  *)
LEMMA CallStep ==
  ASSUME TypeOK, Kept, RowsStay, reaper' = reaper, originals \subseteq originals',
         NEW r \in Requests, NEW c \in Call, call' = [call EXCEPT ![r] = c],
         c.pc \in {"receive", "insert"} =>
           c.upload \in FreshUploads \/ (Uploading(r) /\ c.upload = call[r].upload),
         c.pc = "insert" /\ ~c.dup /\ c.mine /\ sess.auto => c.doc \in originals',
         \A u \in c.todo : upload[u].status # "none",
         \A m \in c.made : upload[m[1]].status # "none" /\ m[2] \in originals',
         \A d \in DocIds : docs'[d] # NoFile => docs[d] # NoFile \/ d \in originals'
  PROVE  Kept'
<1>1. /\ call'[r] = c
      /\ \A q \in Requests : q # r => call'[q] = call[q]
  BY CallPut DEF TypeOK
<1>2. UploadsApart'
  <2>1. ASSUME NEW q \in Requests, Uploading(q)'
        PROVE  /\ call'[q].upload \in UploadIds
               /\ upload[call'[q].upload].status = "none"
    <3>1. CASE q = r
      BY <1>1, <2>1, <3>1 DEF Kept, UploadsApart, Uploading, FreshUploads
    <3>2. CASE q # r
      BY <1>1, <2>1, <3>2 DEF Kept, UploadsApart, Uploading
    <3> QED
      BY <3>1, <3>2
  <2>2. ASSUME NEW p \in Requests, NEW q \in Requests, p # q, Uploading(p)', Uploading(q)'
        PROVE  call'[p].upload # call'[q].upload
    <3>1. CASE p # r /\ q # r
      BY <1>1, <2>2, <3>1 DEF Kept, UploadsApart, Uploading
    <3>2. CASE p = r
      BY <1>1, <2>2, <3>2 DEF Kept, UploadsApart, Uploading, FreshUploads
    <3>3. CASE q = r
      BY <1>1, <2>2, <3>3 DEF Kept, UploadsApart, Uploading, FreshUploads
    <3> QED
      BY <3>1, <3>2, <3>3
  <2>3. \A u \in UploadIds : upload'[u].status = "none" => ~upload'[u].mine
    BY DEF RowsStay, Kept, UploadsApart
  <2>4. \A u \in UploadIds : upload[u].status = "none" => upload'[u].status = "none"
    BY DEF RowsStay
  <2> QED
    BY <2>1, <2>2, <2>3, <2>4 DEF UploadsApart
<1>3. RowsKnown'
  <2>1. ASSUME NEW q \in Requests, NEW u \in call'[q].todo
        PROVE  upload'[u].status # "none"
    <3>1. u \in UploadIds
      BY <1>1 DEF TypeOK, Call
    <3>2. upload[u].status # "none"
      BY <1>1 DEF Kept, RowsKnown
    <3> QED
      BY <3>1, <3>2 DEF RowsStay
  <2>2. ASSUME NEW q \in Requests, NEW m \in call'[q].made
        PROVE  upload'[m[1]].status # "none"
    <3>1. m[1] \in UploadIds
      BY <1>1 DEF TypeOK, Call
    <3>2. upload[m[1]].status # "none"
      BY <1>1 DEF Kept, RowsKnown
    <3> QED
      BY <3>1, <3>2 DEF RowsStay
  <2>3. ASSUME NEW u \in reaper.sweeps
        PROVE  upload'[u].status # "none" /\ upload'[u].key # "original"
    <3>1. u \in UploadIds
      BY DEF TypeOK, Reaper
    <3> QED
      BY <3>1 DEF Kept, RowsKnown, RowsStay
  <2> QED
    BY <2>1, <2>2, <2>3 DEF RowsKnown
<1>4. OriginalsThere'
  <2>1. DocumentsKeepOriginals'
    BY DEF Kept, OriginalsThere, DocumentsKeepOriginals
  <2>2. ASSUME NEW q \in Requests
        PROVE  (call[q].pc = "insert" /\ ~call[q].dup /\ AutoConfirms(q)
                  => call[q].doc \in originals)'
    <3>1. CASE q = r
      BY <1>1, <3>1 DEF AutoConfirms, RowsStay
    <3>2. CASE q # r
      BY <1>1, <3>2 DEF Kept, OriginalsThere, AutoConfirms, RowsStay
    <3> QED
      BY <3>1, <3>2
  <2>3. ASSUME NEW q \in Requests, NEW m \in call'[q].made
        PROVE  m[2] \in originals'
    BY <1>1 DEF Kept, OriginalsThere
  <2> QED
    BY <2>1, <2>2, <2>3 DEF OriginalsThere
<1> QED
  BY <1>2, <1>3, <1>4 DEF Kept

LEMMA StepRows ==
  ASSUME TypeOK, Kept, [Next]_vars
  PROVE  RowsStay \/ \E r \in Requests : Inserts(r)
<1> USE DEF rows
<1>1. ASSUME UNCHANGED <<sess, upload>> PROVE RowsStay
  BY <1>1 DEF RowsStay
<1>2. ASSUME NEW r \in Requests, Confirms(r) PROVE RowsStay
  <2>1. /\ sess'.auto = sess.auto
        /\ sess'.uploaded = sess.uploaded
    BY <1>2 DEF Confirms, TypeOK, Session
  <2>2. ASSUME NEW u \in UploadIds
        PROVE  /\ upload'[u].mine = upload[u].mine
               /\ upload'[u].status = "none" <=> upload[u].status = "none"
               /\ upload'[u].key = upload[u].key
    <3> DEFINE d == CHOOSE e \in DocIds : <<u, e>> \in call[r].made
    <3>1. upload'[u] = IF u \in {m[1] : m \in call[r].made}
                       THEN [upload[u] EXCEPT !.status = "processing", !.doc = d]
                       ELSE upload[u]
      BY <1>2 DEF Confirms
    <3>2. u \in {m[1] : m \in call[r].made} => upload[u].status # "none"
      BY DEF Kept, RowsKnown
    <3>3. upload[u] \in Row
      BY DEF TypeOK
    <3> HIDE DEF d
    <3> QED
      BY <3>1, <3>2, <3>3 DEF Row
  <2> QED
    BY <2>1, <2>2 DEF RowsStay
<1>3. ASSUME NEW r \in Requests, Cancels(r) PROVE RowsStay
  <2>1. sess'.auto = sess.auto /\ sess'.uploaded = sess.uploaded
    BY <1>3 DEF Cancels, TypeOK, Session
  <2>2. \A u \in call[r].todo : upload[u].status # "none"
    BY DEF Kept, RowsKnown
  <2> QED
    BY <1>3, <2>1, <2>2 DEF Cancels, RowsStay, TypeOK, Row
<1>4. ASSUME ReaperCommits PROVE RowsStay
  <2>1. sess'.auto = sess.auto /\ sess'.uploaded = sess.uploaded
    BY <1>4 DEF ReaperCommits, TypeOK, Session
  <2> QED
    BY <1>4, <2>1 DEF ReaperCommits, RowsStay, TypeOK, Row
<1>5. ASSUME HourPasses \/ DayPasses PROVE RowsStay
  BY <1>5 DEF HourPasses, DayPasses, RowsStay, TypeOK, Session
<1>6. ASSUME NEW r \in Requests, Begin(r) PROVE RowsStay
  BY <1>1, <1>6 DEF Begin, BeginUpload, BeginConfirm, BeginItems, BeginCancel
<1>7. ASSUME NEW r \in Requests, Proceed(r), ~Inserts(r) PROVE RowsStay
  BY <1>1, <1>2, <1>3, <1>7 DEF Proceed, FindsDuplicate, FindsSeveral, Stores, Deletes,
     Copies, CopyFails, Skips, RemovesStaged
<1>8. ASSUME NEW r \in Requests, Fails(r) PROVE RowsStay
  BY <1>1, <1>8 DEF Fails
<1>9. ASSUME ReaperStep \/ ReaperFails PROVE RowsStay
  BY <1>1, <1>4, <1>9 DEF ReaperStep, ReaperLooks, ReaperSweeps, ReaperFails
<1>10. CASE UNCHANGED vars
  BY <1>1, <1>10 DEF vars
<1> QED
  BY <1>5, <1>6, <1>7, <1>8, <1>9, <1>10 DEF Next

(* An insert gives its own upload a row, and counts it if it is the session's. *)
LEMMA InsertIsOne ==
  ASSUME TypeOK, Kept, NEW r \in Requests, Inserts(r)
  PROVE  /\ call[r].upload \in UploadIds
         /\ upload[call[r].upload].status = "none"
         /\ ~upload[call[r].upload].mine
         /\ upload'[call[r].upload].status # "none"
         /\ upload'[call[r].upload].mine = call[r].mine
         /\ \A u \in UploadIds : u # call[r].upload => upload'[u] = upload[u]
         /\ sess'.auto = sess.auto
         /\ sess'.uploaded = IF call[r].mine THEN sess.uploaded + 1 ELSE sess.uploaded
<1>1. /\ call[r].upload \in UploadIds
      /\ upload[call[r].upload].status = "none"
      /\ ~upload[call[r].upload].mine
  BY DEF Kept, UploadsApart, Uploading, Inserts
<1>2. upload' = [upload EXCEPT ![call[r].upload] = Uploaded(r)]
  BY DEF Inserts
<1>3. Uploaded(r).status # "none" /\ Uploaded(r).mine = call[r].mine
  BY DEF Uploaded
<1>4. /\ sess'.auto = sess.auto
      /\ sess'.uploaded = IF call[r].mine THEN sess.uploaded + 1 ELSE sess.uploaded
  BY DEF Inserts, Counted, TypeOK, Session
<1> QED
  BY <1>1, <1>2, <1>3, <1>4 DEF TypeOK

LEMMA InsertKeeps ==
  ASSUME TypeOK, Kept, NEW r \in Requests, Inserts(r)
  PROVE  Kept'
<1> DEFINE u0 == call[r].upload
<1>1. /\ u0 \in UploadIds
      /\ upload[u0].status = "none"
      /\ upload'[u0].status # "none"
      /\ \A u \in UploadIds : u # u0 => upload'[u] = upload[u]
      /\ sess'.auto = sess.auto
  BY InsertIsOne
<1>2. /\ call' \in [Requests -> Call]
      /\ call'[r] = NoCall
      /\ \A q \in Requests : q # r => call'[q] = call[q]
  BY CallPut, NoneAreTyped DEF Inserts, Ends, TypeOK
<1>3. NoCall.pc = "idle" /\ NoCall.todo = {} /\ NoCall.made = {}
  BY DEF NoCall
<1>4. UNCHANGED <<staged, originals, reaper>>
  BY DEF Inserts, objects
<1>5. UploadsApart'
  <2>1. ASSUME NEW q \in Requests, Uploading(q)'
        PROVE  /\ q # r
               /\ call'[q] = call[q]
               /\ Uploading(q)
               /\ call[q].upload # u0
    <3>1. q # r
      BY <1>2, <1>3, <2>1 DEF Uploading
    <3>2. call'[q] = call[q] /\ Uploading(q)
      BY <1>2, <2>1, <3>1 DEF Uploading
    <3>3. Uploading(r)
      BY DEF Inserts, Uploading
    <3> QED
      BY <3>1, <3>2, <3>3 DEF Kept, UploadsApart
  <2>2. \A q \in Requests : Uploading(q)' =>
          /\ call'[q].upload \in UploadIds
          /\ upload'[call'[q].upload].status = "none"
    BY <1>1, <2>1 DEF Kept, UploadsApart
  <2>3. \A p, q \in Requests :
          Uploading(p)' /\ Uploading(q)' /\ p # q => call'[p].upload # call'[q].upload
    BY <2>1 DEF Kept, UploadsApart
  <2>4. \A u \in UploadIds : upload'[u].status = "none" => ~upload'[u].mine
    BY <1>1 DEF Kept, UploadsApart
  <2> QED
    BY <2>2, <2>3, <2>4 DEF UploadsApart
<1>6. ASSUME NEW u \in UploadIds, upload[u].status # "none"
      PROVE  upload'[u] = upload[u]
  BY <1>1, <1>6
<1>7. RowsKnown'
  <2>1. ASSUME NEW q \in Requests
        PROVE  /\ \A u \in call'[q].todo : upload'[u].status # "none"
               /\ \A m \in call'[q].made : upload'[m[1]].status # "none"
    <3>1. CASE q = r
      BY <1>2, <1>3, <3>1
    <3>2. CASE q # r
      <4>1. call'[q] = call[q] /\ call[q] \in Call
        BY <1>2, <3>2 DEF TypeOK
      <4> QED
        BY <1>6, <4>1 DEF Kept, RowsKnown, Call
    <3> QED
      BY <3>1, <3>2
  <2>2. \A u \in reaper.sweeps : upload'[u].status # "none" /\ upload'[u].key # "original"
    BY <1>6 DEF Kept, RowsKnown, TypeOK, Reaper
  <2> QED
    BY <1>4, <2>1, <2>2 DEF RowsKnown
<1>8. OriginalsThere'
  <2>1. DocumentsKeepOriginals'
    <3>1. ASSUME NEW d \in DocIds, docs'[d] # NoFile PROVE d \in originals
      <4>1. docs' = IF AutoConfirms(r) /\ ~call[r].dup
                    THEN [docs EXCEPT ![call[r].doc] = call[r].file] ELSE docs
        BY DEF Inserts
      <4>2. CASE AutoConfirms(r) /\ ~call[r].dup /\ d = call[r].doc
        BY <4>2 DEF Kept, OriginalsThere, Inserts
      <4>3. CASE ~(AutoConfirms(r) /\ ~call[r].dup /\ d = call[r].doc)
        <5>1. docs'[d] = docs[d]
          BY <4>1, <4>3 DEF TypeOK
        <5> QED
          BY <3>1, <5>1 DEF Kept, OriginalsThere, DocumentsKeepOriginals
      <4> QED
        BY <4>2, <4>3
    <3> QED
      BY <1>4, <3>1 DEF DocumentsKeepOriginals
  <2>2. ASSUME NEW q \in Requests
        PROVE  /\ (call[q].pc = "insert" /\ ~call[q].dup /\ AutoConfirms(q)
                     => call[q].doc \in originals)'
               /\ \A m \in call'[q].made : m[2] \in originals'
    <3>1. CASE q = r
      BY <1>2, <1>3, <3>1
    <3>2. CASE q # r
      BY <1>1, <1>2, <1>4, <3>2 DEF Kept, OriginalsThere, AutoConfirms
    <3> QED
      BY <3>1, <3>2
  <2> QED
    BY <2>1, <2>2 DEF OriginalsThere
<1> QED
  BY <1>5, <1>7, <1>8 DEF Kept

(* The reaper leaves the requests alone and takes no original.             *)
LEMMA ReaperKeeps ==
  ASSUME TypeOK, Kept, RowsStay, UNCHANGED <<docs, call>>,
         originals \subseteq originals',
         \A u \in reaper'.sweeps :
           u \in UploadIds /\ upload[u].status # "none" /\ upload[u].key # "original"
  PROVE  Kept'
<1>1. UploadsApart'
  BY DEF Kept, UploadsApart, Uploading, RowsStay
<1>2. RowsKnown'
  <2>1. ASSUME NEW q \in Requests
        PROVE  /\ \A u \in call[q].todo : upload'[u].status # "none"
               /\ \A m \in call[q].made : upload'[m[1]].status # "none"
    <3>1. call[q] \in Call
      BY DEF TypeOK
    <3>2. \A u \in call[q].todo : u \in UploadIds /\ upload[u].status # "none"
      BY <3>1 DEF Kept, RowsKnown, Call
    <3>3. \A m \in call[q].made : m[1] \in UploadIds /\ upload[m[1]].status # "none"
      BY <3>1 DEF Kept, RowsKnown, Call
    <3> QED
      BY <3>2, <3>3 DEF RowsStay
  <2>2. \A u \in reaper'.sweeps : upload'[u].status # "none" /\ upload'[u].key # "original"
    BY DEF RowsStay
  <2> QED
    BY <2>1, <2>2 DEF RowsKnown
<1>3. OriginalsThere'
  BY DEF Kept, OriginalsThere, DocumentsKeepOriginals, AutoConfirms, RowsStay
<1> QED
  BY <1>1, <1>2, <1>3 DEF Kept

(* A call begins with an upload that is fresh or with uploads that have rows. *)
Fresh(c) ==
  /\ c.made = {}
  /\ c.pc # "insert"
  /\ c.pc = "receive" => c.upload \in FreshUploads
  /\ \A u \in c.todo : upload[u].status # "none"

LEMMA BeginIsFresh ==
  ASSUME NEW r \in Requests, Begin(r)
  PROVE  \E c \in Call : Comes(r, c) /\ Fresh(c) /\ UNCHANGED <<docs, originals, reaper>>
<1> USE DEF rows, objects
<1>1. ASSUME NEW f \in Files, NEW mine \in BOOLEAN, BeginUpload(r, f, mine)
      PROVE  \E c \in Call : Comes(r, c) /\ Fresh(c) /\ UNCHANGED <<docs, originals, reaper>>
  <2>1. PICK u \in UploadIds :
          /\ u \in FreshUploads
          /\ Comes(r, [NoCall EXCEPT !.pc = "receive", !.mine = mine, !.file = f,
                                     !.upload = u])
    BY <1>1 DEF BeginUpload, IsFirst
  <2> DEFINE c == [NoCall EXCEPT !.pc = "receive", !.mine = mine, !.file = f, !.upload = u]
  <2>2. c \in Call /\ c.made = {} /\ c.pc = "receive" /\ c.todo = {} /\ c.upload = u
    BY CallStarts DEF NoCall
  <2>3. Comes(r, c) /\ UNCHANGED <<docs, originals, reaper>>
    BY <1>1, <2>1 DEF BeginUpload
  <2> HIDE DEF c
  <2> QED
    BY <2>1, <2>2, <2>3 DEF Fresh
<1>2. ASSUME NEW todo \in SUBSET UploadIds, NEW c \in Call, Comes(r, c),
             c.pc \in {"confirm", "cancel"}, c.todo = todo, c.made = {},
             \A u \in todo : upload[u].status # "none",
             UNCHANGED <<docs, originals, reaper>>
      PROVE  \E d \in Call : Comes(r, d) /\ Fresh(d) /\ UNCHANGED <<docs, originals, reaper>>
  BY <1>2 DEF Fresh
<1>3. PendingUploads \in SUBSET UploadIds /\ \A u \in PendingUploads : upload[u].status # "none"
  BY DEF PendingUploads
<1>4. CASE BeginConfirm(r)
  <2> DEFINE c == [NoCall EXCEPT !.pc = "confirm", !.mine = TRUE, !.todo = PendingUploads]
  <2>1. c \in Call /\ c.pc = "confirm" /\ c.todo = PendingUploads /\ c.made = {}
    BY <1>3, CallStarts DEF NoCall
  <2>2. Comes(r, c) /\ UNCHANGED <<docs, originals, reaper>>
    BY <1>4 DEF BeginConfirm
  <2> HIDE DEF c
  <2> QED
    BY <1>2, <1>3, <2>1, <2>2
<1>5. CASE BeginItems(r)
  <2>1. PICK items \in SUBSET UploadIds :
          /\ \A u \in items : upload[u].status # "none"
          /\ Comes(r, [NoCall EXCEPT !.pc = "confirm", !.todo = items])
    BY <1>5 DEF BeginItems
  <2> DEFINE c == [NoCall EXCEPT !.pc = "confirm", !.todo = items]
  <2>2. c \in Call /\ c.pc = "confirm" /\ c.todo = items /\ c.made = {}
    BY CallStarts DEF NoCall
  <2>3. Comes(r, c) /\ UNCHANGED <<docs, originals, reaper>>
    BY <1>5, <2>1 DEF BeginItems
  <2> HIDE DEF c
  <2> QED
    BY <1>2, <2>1, <2>2, <2>3
<1>6. CASE BeginCancel(r)
  <2> DEFINE c == [NoCall EXCEPT !.pc = "cancel", !.todo = PendingUploads]
  <2>1. c \in Call /\ c.pc = "cancel" /\ c.todo = PendingUploads /\ c.made = {}
    BY <1>3, CallStarts DEF NoCall
  <2>2. Comes(r, c) /\ UNCHANGED <<docs, originals, reaper>>
    BY <1>6 DEF BeginCancel
  <2> HIDE DEF c
  <2> QED
    BY <1>2, <1>3, <2>1, <2>2
<1> QED
  BY <1>1, <1>4, <1>5, <1>6 DEF Begin

LEMMA StepKept == TypeOK /\ Kept /\ [Next]_vars => Kept'
<1> SUFFICES ASSUME TypeOK, Kept, [Next]_vars PROVE Kept'
  OBVIOUS
<1> USE DEF rows, objects
<1>1. CASE \E r \in Requests : Inserts(r)
  BY <1>1, InsertKeeps
<1>2. CASE RowsStay
  <2> USE <1>2
  <2>1. ASSUME NEW r \in Requests, Ends(r), UNCHANGED <<reaper, originals>>,
               \A d \in DocIds : docs'[d] # NoFile => docs[d] # NoFile \/ d \in originals
        PROVE  Kept'
    <3> DEFINE c == NoCall
    <3>1. c \in Call /\ c.pc = "idle" /\ c.todo = {} /\ c.made = {}
      BY NoneAreTyped DEF NoCall
    <3>2. call' = [call EXCEPT ![r] = c]
      BY <2>1 DEF Ends
    <3> HIDE DEF c
    <3> QED
      BY <2>1, <3>1, <3>2, CallStep
  <2>2. ASSUME NEW r \in Requests, Begin(r) PROVE Kept'
    <3>1. PICK c \in Call :
            Comes(r, c) /\ Fresh(c) /\ UNCHANGED <<docs, originals, reaper>>
      BY <2>2, BeginIsFresh
    <3>2. call' = [call EXCEPT ![r] = c]
      BY <3>1 DEF Comes
    <3> QED
      BY <3>1, <3>2, CallStep DEF Fresh
  (* A call that moves on without new uploads                              *)
  <2>3. ASSUME NEW r \in Requests, NEW c \in Call, call' = [call EXCEPT ![r] = c],
               UNCHANGED <<docs, reaper>>, originals \subseteq originals',
               c.pc \in {"receive", "insert"} => Uploading(r) /\ c.upload = call[r].upload,
               c.pc = "insert" /\ ~c.dup /\ c.mine /\ sess.auto => c.doc \in originals',
               c.todo \subseteq call[r].todo,
               \A m \in c.made : m \in call[r].made \/ (m[1] \in call[r].todo /\ m[2] \in originals')
        PROVE  Kept'
    <3>1. \A u \in c.todo : upload[u].status # "none"
      BY <2>3 DEF Kept, RowsKnown
    <3>2. \A m \in c.made : upload[m[1]].status # "none" /\ m[2] \in originals'
      BY <2>3 DEF Kept, RowsKnown, OriginalsThere
    <3> QED
      BY <2>3, <3>1, <3>2, CallStep
  <2>4. ASSUME NEW r \in Requests, FindsDuplicate(r) PROVE Kept'
    <3>1. PICK d \in DocIds :
            call' = [call EXCEPT ![r] = [call[r] EXCEPT !.pc = "insert", !.dup = TRUE, !.doc = d]]
      BY <2>4 DEF FindsDuplicate, SameContent
    <3> DEFINE c == [call[r] EXCEPT !.pc = "insert", !.dup = TRUE, !.doc = d]
    <3>2. c \in Call
      BY CallMoves DEF TypeOK
    <3>3. c.dup /\ c.upload = call[r].upload /\ c.todo = call[r].todo /\ c.made = call[r].made
      BY DEF TypeOK, Call
    <3>4. Uploading(r) /\ call' = [call EXCEPT ![r] = c] /\ UNCHANGED <<docs, originals, reaper>>
      BY <2>4, <3>1 DEF FindsDuplicate, Uploading
    <3> HIDE DEF c
    <3> QED
      BY <2>3, <3>2, <3>3, <3>4
  <2>5. ASSUME NEW r \in Requests, Stores(r) PROVE Kept'
    <3>1. Uploading(r) /\ UNCHANGED <<docs, reaper>>
      BY <2>5 DEF Stores, Uploading
    <3>2. CASE AutoConfirms(r)
      <4>1. PICK d \in DocIds :
              /\ originals' = originals \union {d}
              /\ call' = [call EXCEPT ![r] = [call[r] EXCEPT !.pc = "insert", !.doc = d]]
        BY <2>5, <3>2 DEF Stores
      <4> DEFINE c == [call[r] EXCEPT !.pc = "insert", !.doc = d]
      <4>2. c \in Call
        BY CallMoves DEF TypeOK
      <4>3. /\ c.doc = d /\ c.upload = call[r].upload
            /\ c.todo = call[r].todo /\ c.made = call[r].made
        BY DEF TypeOK, Call
      <4>4. call' = [call EXCEPT ![r] = c]
        BY <4>1
      <4> HIDE DEF c
      <4> QED
        BY <2>3, <3>1, <4>1, <4>2, <4>3, <4>4
    <3>3. CASE ~AutoConfirms(r)
      <4> DEFINE c == [call[r] EXCEPT !.pc = "insert"]
      <4>1. c \in Call
        BY CallMoves DEF TypeOK, PCs
      <4>2. /\ c.upload = call[r].upload /\ c.mine = call[r].mine
            /\ c.todo = call[r].todo /\ c.made = call[r].made
        BY DEF TypeOK, Call
      <4>3. call' = [call EXCEPT ![r] = c] /\ UNCHANGED originals
        BY <2>5, <3>3 DEF Stores
      <4> HIDE DEF c
      <4> QED
        BY <2>3, <3>1, <3>3, <4>1, <4>2, <4>3 DEF AutoConfirms
    <3> QED
      BY <3>2, <3>3
  <2>6. ASSUME NEW r \in Requests, NEW u \in UploadIds, Copies(r, u) PROVE Kept'
    <3>1. PICK d \in DocIds :
            /\ originals' = originals \union {d}
            /\ call' = [call EXCEPT ![r] =
                 [call[r] EXCEPT !.pc = "remove", !.todo = @ \ {u},
                                 !.made = @ \union {<<u, d>>}]]
      BY <2>6 DEF Copies
    <3> DEFINE c == [call[r] EXCEPT !.pc = "remove", !.todo = @ \ {u},
                                    !.made = @ \union {<<u, d>>}]
    <3>2. c \in Call
      BY CallMoves DEF TypeOK
    <3>3. /\ c.pc = "remove" /\ c.todo = call[r].todo \ {u}
          /\ c.made = call[r].made \union {<<u, d>>}
      BY DEF TypeOK, Call
    <3>4. u \in call[r].todo /\ UNCHANGED <<docs, reaper>>
      BY <2>6 DEF Copies
    <3>5. call' = [call EXCEPT ![r] = c]
      BY <3>1
    <3> HIDE DEF c
    <3>6. \A m \in c.made : m \in call[r].made \/ (m[1] \in call[r].todo /\ m[2] \in originals')
      BY <3>1, <3>3, <3>4
    <3> QED
      BY <2>3, <3>1, <3>2, <3>3, <3>4, <3>5, <3>6
  <2>7. ASSUME NEW r \in Requests, Deletes(r) \/ RemovesStaged(r) PROVE Kept'
    <3>1. PICK pc \in {"confirm", "cancelled"} :
            call' = [call EXCEPT ![r] = [call[r] EXCEPT !.pc = pc]]
      BY <2>7 DEF Deletes, RemovesStaged
    <3> DEFINE c == [call[r] EXCEPT !.pc = pc]
    <3>2. c \in Call
      BY CallMoves DEF TypeOK, PCs
    <3>3. c.pc = pc /\ c.todo = call[r].todo /\ c.made = call[r].made
      BY DEF TypeOK, Call
    <3>4. call' = [call EXCEPT ![r] = c] /\ UNCHANGED <<docs, originals, reaper>>
      BY <2>7, <3>1 DEF Deletes, RemovesStaged
    <3> HIDE DEF c
    <3> QED
      BY <2>3, <3>2, <3>3, <3>4
  <2>8. ASSUME NEW r \in Requests, NEW u \in UploadIds, Skips(r, u) PROVE Kept'
    <3> DEFINE c == [call[r] EXCEPT !.todo = @ \ {u}]
    <3>1. c \in Call
      BY CallMoves DEF TypeOK
    <3>2. c.pc = "confirm" /\ c.todo = call[r].todo \ {u} /\ c.made = call[r].made
      BY <2>8 DEF TypeOK, Call, Skips
    <3>3. call' = [call EXCEPT ![r] = c] /\ UNCHANGED <<docs, originals, reaper>>
      BY <2>8 DEF Skips
    <3> HIDE DEF c
    <3> QED
      BY <2>3, <3>1, <3>2, <3>3
  <2>9. ASSUME NEW r \in Requests, Confirms(r) PROVE Kept'
    <3>1. ASSUME NEW d \in DocIds, docs'[d] # NoFile
          PROVE  docs[d] # NoFile \/ d \in originals
      <4>1. CASE \E m \in call[r].made : m[2] = d
        BY <4>1 DEF Kept, OriginalsThere
      <4>2. CASE ~\E m \in call[r].made : m[2] = d
        BY <2>9, <3>1, <4>2 DEF Confirms
      <4> QED
        BY <4>1, <4>2
    <3> QED
      BY <2>1, <2>9, <3>1 DEF Confirms
  <2>10. ASSUME NEW r \in Requests, Cancels(r) PROVE Kept'
    BY <2>1, <2>10 DEF Cancels
  <2>11. ASSUME NEW r \in Requests,
                FindsSeveral(r) \/ Fails(r) \/ \E u \in UploadIds : CopyFails(r, u)
         PROVE  Kept'
    BY <2>1, <2>11 DEF FindsSeveral, Fails, CopyFails
  <2>12. ASSUME ReaperStep \/ ReaperFails PROVE Kept'
    <3>1. \A u \in reaper.sweeps :
            u \in UploadIds /\ upload[u].status # "none" /\ upload[u].key # "original"
      BY DEF Kept, RowsKnown, TypeOK, Reaper
    <3>2. CASE ReaperLooks
      <4>1. \A u \in reaper'.sweeps : u \in UploadIds /\ Swept(u)
        BY <3>2 DEF ReaperLooks
      <4>2. \A u \in reaper'.sweeps :
              u \in UploadIds /\ upload[u].status # "none" /\ upload[u].key # "original"
        BY <4>1 DEF Swept, Kept, UploadsApart
      <4> QED
        BY <3>2, <4>2, ReaperKeeps DEF ReaperLooks
    <3>3. CASE ReaperSweeps
      <4>1. \A u \in reaper.sweeps : OriginalOf(u) = {}
        BY <3>1 DEF OriginalOf
      <4>2. originals \subseteq originals'
        BY <3>3, <4>1 DEF ReaperSweeps
      <4>3. reaper'.sweeps \subseteq reaper.sweeps
        BY <3>3 DEF ReaperSweeps, TypeOK, Reaper
      <4>4. UNCHANGED <<docs, call>>
        BY <3>3 DEF ReaperSweeps
      <4>5. \A u \in reaper'.sweeps :
              u \in UploadIds /\ upload[u].status # "none" /\ upload[u].key # "original"
        BY <3>1, <4>3
      <4> QED
        BY <4>2, <4>4, <4>5, ReaperKeeps
    <3>4. CASE ReaperCommits \/ ReaperFails
      <4>1. reaper'.sweeps = {}
        <5>1. reaper' = NoReaper
          BY <3>4 DEF ReaperCommits, ReaperFails
        <5> QED
          BY <5>1 DEF NoReaper
      <4>2. UNCHANGED <<docs, call>> /\ originals \subseteq originals'
        BY <3>4 DEF ReaperCommits, ReaperFails
      <4> QED
        BY <4>1, <4>2, ReaperKeeps
    <3> QED
      BY <2>12, <3>2, <3>3, <3>4 DEF ReaperStep
  <2>13. ASSUME HourPasses \/ DayPasses \/ UNCHANGED vars PROVE Kept'
    <3>1. \A u \in reaper'.sweeps :
            u \in UploadIds /\ upload[u].status # "none" /\ upload[u].key # "original"
      BY <2>13 DEF Kept, RowsKnown, TypeOK, Reaper, HourPasses, DayPasses, vars
    <3> QED
      BY <2>13, <3>1, ReaperKeeps DEF HourPasses, DayPasses, vars
  <2>14. ASSUME NEW r \in Requests, Proceed(r), ~Inserts(r) PROVE Kept'
    BY <2>4, <2>5, <2>6, <2>7, <2>8, <2>9, <2>10, <2>11, <2>14 DEF Proceed
  <2> QED
    BY <1>1, <2>2, <2>11, <2>12, <2>13, <2>14 DEF Next
<1> QED
  BY <1>1, <1>2, StepRows

-----------------------------------------------------------------------------
(* The counter follows the rows: an insert adds its upload to the session's and
   one to the counter, every other step leaves both.                       *)
Mine == {u \in UploadIds : upload[u].mine}

LEMMA StepCounted ==
  TypeOK /\ Kept /\ UploadsAreCounted /\ [Next]_vars => UploadsAreCounted'
<1> SUFFICES ASSUME TypeOK, Kept, UploadsAreCounted, [Next]_vars
             PROVE  UploadsAreCounted'
  OBVIOUS
<1>1. CASE RowsStay
  <2>1. {u \in UploadIds : upload'[u].mine} = {u \in UploadIds : upload[u].mine}
    BY <1>1 DEF RowsStay
  <2>2. sess'.uploaded = sess.uploaded
    BY <1>1 DEF RowsStay
  <2> QED
    BY <2>1, <2>2 DEF UploadsAreCounted
<1>2. ASSUME NEW r \in Requests, Inserts(r) PROVE UploadsAreCounted'
  <2> DEFINE u0 == call[r].upload
  <2>1. /\ u0 \in UploadIds
        /\ ~upload[u0].mine
        /\ upload'[u0].mine = call[r].mine
        /\ \A u \in UploadIds : u # u0 => upload'[u] = upload[u]
        /\ sess'.uploaded = IF call[r].mine THEN sess.uploaded + 1 ELSE sess.uploaded
    BY <1>2, InsertIsOne
  <2>2. IsFiniteSet(Mine) /\ u0 \notin Mine
    <3>1. IsFiniteSet(UploadIds)
      BY FS_Interval, UploadAssumption DEF UploadIds
    <3> QED
      BY <2>1, <3>1, FS_Subset DEF Mine
  <2>3. CASE call[r].mine
    <3>1. Mine' = Mine \union {u0}
      BY <2>1, <2>3 DEF Mine
    <3>2. Cardinality(Mine \union {u0}) = Cardinality(Mine) + 1
      BY <2>2, FS_AddElement
    <3> QED
      BY <2>1, <2>3, <3>1, <3>2 DEF UploadsAreCounted, Mine
  <2>4. CASE ~call[r].mine
    <3>1. Mine' = Mine
      BY <2>1, <2>4 DEF Mine
    <3> QED
      BY <2>1, <2>4, <3>1 DEF UploadsAreCounted, Mine
  <2> QED
    BY <2>3, <2>4
<1> QED
  BY <1>1, <1>2, StepRows

LEMMA InitCounted == Init => UploadsAreCounted
<1> SUFFICES ASSUME Init PROVE UploadsAreCounted
  OBVIOUS
<1>1. {u \in UploadIds : upload[u].mine} = {}
  BY DEF Init, NoRow
<1>2. sess.uploaded = 0
  BY DEF Init
<1> QED
  BY <1>1, <1>2, FS_EmptySet DEF UploadsAreCounted

IInv == TypeOK /\ Kept /\ UploadsAreCounted

LEMMA Inductive == IInv /\ [Next]_vars => IInv'
  BY StepType, StepKept, StepCounted DEF IInv, Kept

LEMMA InductiveInvariant == Spec => []IInv
<1>1. Init => IInv
  BY InitType, InitKept, InitCounted DEF IInv
<1> QED
  BY <1>1, Inductive, PTL DEF Spec

(* Rows, objects, requests and the reaper's pass keep their types: no step puts
   a row in a status that models/upload_session.py and models/upload.py do not
   name, and no request moves an upload that is none.                      *)
THEOREM TypesCorrect == Spec => []TypeOK
<1>1. IInv => TypeOK
  BY DEF IInv
<1> QED
  BY <1>1, InductiveInvariant, PTL

(* A committed document has its original, for any number of requests and of
   files and whatever fails: the object is put before the row that names it, and
   the reaper removes only what its own look found under tmp/.             *)
THEOREM OriginalsAreKept == Spec => []DocumentsKeepOriginals
<1>1. IInv => DocumentsKeepOriginals
  BY DEF IInv, Kept, OriginalsThere
<1> QED
  BY <1>1, InductiveInvariant, PTL

(* The session's counter is the number of its uploads in every state, with any
   number of requests at once: the UPDATE that adds commits with the INSERT. *)
THEOREM UploadsCounted == Spec => []UploadsAreCounted
<1>1. IInv => UploadsAreCounted
  BY DEF IInv
<1> QED
  BY <1>1, InductiveInvariant, PTL
=============================================================================
