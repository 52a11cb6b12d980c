------------------------- MODULE RegistrationsProofs -------------------------
(***************************************************************************)
(* Proofs about module Registrations, for any number of keys, forms,       *)
(* registrations, staff, viewers and sweeps.                               *)
(***************************************************************************)
EXTENDS Registrations, TLAPS

-----------------------------------------------------------------------------
(***************************************************************************)
(* Type correctness.                                                       *)
(***************************************************************************)

LEMMA InitTypeOK == Init => TypeOK
  <1> USE ConstantsAssumption
  <1> SUFFICES ASSUME Init PROVE TypeOK
    OBVIOUS
  <1>1. NoImages \in [Sides -> Keys \cup {None}]
    BY DEF NoImages, Sides
  <1>2. BlankRow \in Row
    BY <1>1 DEF BlankRow, Row, Statuses
  <1>3. IdleJob \in Job
    BY <1>1 DEF IdleJob, Job, Sides
  <1>4. IdleView \in View
    BY DEF IdleView, View
  <1>5. IdleSweep \in Sweep
    BY DEF IdleSweep, Sweep
  <1> QED
    BY <1>1, <1>2, <1>3, <1>4, <1>5 DEF Init, TypeOK

LEMMA IdleTypes == NoImages \in [Sides -> Keys \cup {None}] /\ BlankRow \in Row
                   /\ IdleJob \in Job /\ IdleView \in View /\ IdleSweep \in Sweep
  BY ConstantsAssumption
     DEF NoImages, BlankRow, Row, IdleJob, Job, IdleView, View, IdleSweep, Sweep,
         Statuses, Sides

\* An answer puts its own key into one slot; every other slot keeps what it held
\* or is emptied.
LEMMA AnswerFillsSlot ==
    ASSUME TypeOK, NEW m \in scans, NEW detected \in Sides, ScanAnswer(m, detected)
    PROVE  /\ form' \in [Guests -> [Sides -> Keys \cup {None}]]
           /\ \A g \in Guests, s \in Sides : form'[g][s] \in {form[g][s], m.key, None}
  <1> DEFINE moved == detected # m.side /\ rendered[m.guest][detected] = None
             slots == IF moved THEN [NoImages EXCEPT ![detected] = m.key]
                      ELSE [form[m.guest] EXCEPT ![m.side] = m.key]
  <1>1. m \in Scan /\ m.guest \in Guests /\ m.side \in Sides /\ m.key \in Keys
    BY DEF TypeOK, Scan
  <1>2. form[m.guest] \in [Sides -> Keys \cup {None}]
    BY <1>1 DEF TypeOK
  <1>3. slots \in [Sides -> Keys \cup {None}]
    BY <1>1, <1>2, IdleTypes
  <1>4. \A s \in Sides : slots[s] \in {form[m.guest][s], m.key, None}
    BY <1>1, <1>2 DEF NoImages
  <1>5. form' = [form EXCEPT ![m.guest] = slots]
    BY DEF ScanAnswer
  <1> HIDE DEF slots
  <1> QED
    BY <1>1, <1>3, <1>4, <1>5 DEF TypeOK

LEMMA TypeStep == TypeOK /\ [Next]_vars => TypeOK'
  <1> SUFFICES ASSUME TypeOK, [Next]_vars PROVE TypeOK'
    OBVIOUS
  <1> USE DEF TypeOK, bucket, table, guest
  <1>1. ASSUME NEW g \in Guests, NEW s \in Sides, NEW k \in Keys, ScanSave(g, s, k)
        PROVE  TypeOK'
    BY <1>1 DEF ScanSave, Scan
  <1>2. ASSUME NEW m \in scans, NEW detected \in Sides, ScanAnswer(m, detected)
        PROVE  TypeOK'
    BY <1>2, AnswerFillsSlot DEF ScanAnswer
  <1>3. ASSUME NEW m \in scans, ScanLost(m) PROVE TypeOK'
    BY <1>3 DEF ScanLost
  <1>4. ASSUME NEW g \in Guests, CloseForm(g) PROVE TypeOK'
    BY <1>4, IdleTypes DEF CloseForm
  <1>5. ASSUME NEW g \in Guests, NEW id \in RegIds, NEW answered \in BOOLEAN,
               Create(g, id, answered)
        PROVE  TypeOK'
    <2>1. rendered[g] \in [Sides -> Keys \cup {None}]
      OBVIOUS
    <2>2. [BlankRow EXCEPT !.key = rendered[g]] \in Row
      BY <2>1, ConstantsAssumption DEF BlankRow, Row, Statuses
    <2>3. Images(rendered[g]) \in SUBSET Keys
      BY <2>1 DEF Images
    <2>4. rows' \in [RegIds -> Row]
      BY <1>5, <2>2 DEF Create
    <2>5. submitted' \in [RegIds -> SUBSET Keys]
      BY <1>5, <2>3 DEF Create
    <2>6. /\ form' \in [Guests -> [Sides -> Keys \cup {None}]]
          /\ rendered' \in [Guests -> [Sides -> Keys \cup {None}]]
      BY <1>5, IdleTypes DEF Create
    <2> QED
      BY <1>5, <2>4, <2>5, <2>6 DEF Create
  <1>6. ASSUME NEW k \in Keys, Age(k) PROVE TypeOK'
    BY <1>6 DEF Age
  <1>7. ASSUME NEW w \in Staff, NEW id \in RegIds, NEW status \in Decisions \cup {None},
               UpdateRead(w, id, status)
        PROVE  TypeOK'
    <2>1. rows[id].key \in [Sides -> Keys \cup {None}]
      BY DEF Row
    <2>2. job' \in [Staff -> Job]
      BY <1>7, <2>1, ConstantsAssumption DEF UpdateRead, Job
    <2> QED
      BY <1>7, <2>2 DEF UpdateRead
  <1>8. ASSUME NEW w \in Staff, NEW s \in Sides, UpdatePurge(w, s) PROVE TypeOK'
    <2> DEFINE pc == IF job[w].cleared \cup {s} = StoredSides(job[w].snap)
                     THEN "write" ELSE "purge"
               new == [job[w] EXCEPT !.cleared = job[w].cleared \cup {s}, !.pc = pc]
    <2>2. job' = [job EXCEPT ![w] = new]
      BY <1>8, Zenon DEF UpdatePurge
    <2>3. new \in Job
      <3>1. pc \in {"write", "purge"}
        OBVIOUS
      <3> HIDE DEF pc
      <3> QED
        BY <3>1 DEF Job
    <2> HIDE DEF new
    <2>1. job' \in [Staff -> Job]
      BY <2>2, <2>3
    <2> QED
      BY <1>8, <2>1 DEF UpdatePurge
  <1>9. ASSUME NEW w \in Staff, NEW s \in Sides, NEW removed \in BOOLEAN,
               UpdatePurgeFails(w, s, removed)
        PROVE  TypeOK'
    BY <1>9, IdleTypes DEF UpdatePurgeFails
  <1>10. ASSUME NEW w \in Staff, UpdateWrite(w) PROVE TypeOK'
    <2> DEFINE id == job[w].id
               row == [status    |-> IF job[w].status = None THEN rows[id].status
                                     ELSE job[w].status,
                       key       |-> [s \in Sides |-> IF s \in job[w].cleared THEN None
                                                      ELSE rows[id].key[s]],
                       deletedAt |-> rows[id].deletedAt \/ job[w].cleared # {},
                       reviewer  |-> Reviewer(w)]
    <2>1. job[w] \in Job
      OBVIOUS
    <2>2. rows' = [rows EXCEPT ![id] = row]
      BY <1>10 DEF UpdateWrite, KeysLeft
    <2>3. id \in RegIds => row \in Row
      BY <2>1 DEF Row, Job, Reviewer
    <2>4. rows' \in [RegIds -> Row]
      BY <2>2, <2>3
    <2> QED
      BY <1>10, <2>4, IdleTypes DEF UpdateWrite
  <1>11. ASSUME NEW w \in Staff, UpdateAborted(w) PROVE TypeOK'
    BY <1>11, IdleTypes DEF UpdateAborted
  <1>12. ASSUME NEW v \in Viewers, NEW id \in RegIds, NEW s \in Sides,
                GetDocumentRow(v, id, s)
         PROVE  TypeOK'
    <2>1. rows[id].key[s] \in Keys \cup {None}
      BY DEF Row
    <2>2. view' \in [Viewers -> View]
      BY <1>12, <2>1 DEF GetDocumentRow, View
    <2> QED
      BY <1>12, <2>2 DEF GetDocumentRow
  <1>13. ASSUME NEW v \in Viewers, GetDocumentBytes(v) PROVE TypeOK'
    <2> DEFINE sending == [view[v] EXCEPT !.pc = "send"]
    <2>1. view[v] \in View
      OBVIOUS
    <2>2. sending \in View
      BY <2>1 DEF View
    <2>3. view' = [view EXCEPT ![v] = IF view[v].key \in stored THEN sending ELSE IdleView]
      BY <1>13, Zenon DEF GetDocumentBytes
    <2> HIDE DEF sending
    <2>4. view' \in [Viewers -> View]
      BY <2>2, <2>3, IdleTypes
    <2> QED
      BY <1>13, <2>4 DEF GetDocumentBytes
  <1>14. ASSUME NEW s \in Sweepers, SweepList(s) PROVE TypeOK'
    BY <1>14 DEF SweepList, Sweep
  <1>15. ASSUME NEW s \in Sweepers, SweepQuery(s) PROVE TypeOK'
    BY <1>15, IdleTypes DEF SweepQuery, Sweeping, Sweep
  <1>16. ASSUME NEW s \in Sweepers, NEW k \in Keys, SweepRemove(s, k) PROVE TypeOK'
    BY <1>16, IdleTypes DEF SweepRemove, Sweeping, Sweep
  <1>17. ASSUME NEW s \in Sweepers, NEW k \in Keys, SweepRemoveFails(s, k) PROVE TypeOK'
    BY <1>17, IdleTypes DEF SweepRemoveFails, Sweeping, Sweep
  <1>18. ASSUME NEW s \in Sweepers, SweepAborted(s) PROVE TypeOK'
    BY <1>18, IdleTypes DEF SweepAborted
  <1>19. ASSUME NEW v \in Viewers, GetDocumentSend(v) \/ GetDocumentFails(v)
         PROVE  TypeOK'
    BY <1>19, IdleTypes DEF GetDocumentSend, GetDocumentFails
  <1>20. ASSUME NEW g \in Guests, Render(g) PROVE TypeOK'
    BY <1>20 DEF Render
  <1>21. CASE UNCHANGED vars
    BY <1>21 DEF vars
  <1> QED
    BY <1>1, <1>2, <1>3, <1>4, <1>5, <1>6, <1>7, <1>8, <1>9, <1>10, <1>11, <1>12,
       <1>13, <1>14, <1>15, <1>16, <1>17, <1>18, <1>19, <1>20, <1>21
       DEF Next, GuestStep, StaffStep, ViewStep, SweepStep

\* Registrations never leaves its types, on any instance.
THEOREM TypeCorrect == Spec => []TypeOK
  BY InitTypeOK, TypeStep, PTL DEF Spec

-----------------------------------------------------------------------------
(***************************************************************************)
(* The inductive invariant.  ReviewedImagesGone is not inductive: a PATCH  *)
(* decides what to purge from the row it read, so what that snapshot still *)
(* says about the row, and about the bucket, when the write comes has to   *)
(* be stated.                                                              *)
(***************************************************************************)

\* A key once handed out stays spent, so nothing stored later revives an image.
KeysMinted ==
    /\ stored \subseteq minted
    /\ \A m \in scans : m.key \in minted
    /\ \A g \in Guests : Images(form[g]) \cup Images(rendered[g]) \subseteq minted
    /\ \A id \in RegIds : submitted[id] \subseteq minted

\* A row only points at images it was submitted with.
RowsWithinSubmitted == \A id \in created : Images(rows[id].key) \subseteq submitted[id]

\* The snapshot of a PATCH names every image its row still has, the sides it
\* has cleared are gone from the bucket, and by the write it has cleared them
\* all if it carries a decision.
SnapshotsCover ==
    \A w \in Staff : job[w].pc # "idle" =>
        /\ job[w].id \in created
        /\ \A s \in Sides : rows[job[w].id].key[s] \in {job[w].snap[s], None}
        /\ Images(job[w].snap) \subseteq submitted[job[w].id]
        /\ job[w].cleared \subseteq StoredSides(job[w].snap)
        /\ \A s \in job[w].cleared : job[w].snap[s] \notin stored
        /\ job[w].cleared # {} => job[w].status \in PurgeAtStatuses
        /\ job[w].pc = "purge" => job[w].status \in PurgeAtStatuses
        /\ job[w].pc = "write" /\ job[w].status \in PurgeAtStatuses =>
              job[w].cleared = StoredSides(job[w].snap)

IInv == /\ TypeOK /\ KeysMinted /\ RowsWithinSubmitted /\ SnapshotsCover
        /\ ReviewedImagesGone /\ DisposalRecordExact

LEMMA NoImagesIsEmpty == Images(NoImages) = {} /\ StoredSides(NoImages) = {}
  BY DEF Images, NoImages, StoredSides

LEMMA InitIInv == Init => IInv
  <1> SUFFICES ASSUME Init PROVE IInv
    OBVIOUS
  <1>1. KeysMinted
    BY NoImagesIsEmpty DEF Init, KeysMinted
  <1>2. RowsWithinSubmitted /\ ReviewedImagesGone /\ DisposalRecordExact
    BY DEF Init, RowsWithinSubmitted, ReviewedImagesGone, DisposalRecordExact
  <1>3. SnapshotsCover
    BY DEF Init, SnapshotsCover, IdleJob
  <1> QED
    BY <1>1, <1>2, <1>3, InitTypeOK DEF IInv

\* Keys stay spent: only ScanSave hands one out, and it takes a fresh one.
LEMMA KeysMintedStep == TypeOK /\ KeysMinted /\ [Next]_vars => KeysMinted'
  <1> SUFFICES ASSUME TypeOK, KeysMinted, [Next]_vars PROVE KeysMinted'
    OBVIOUS
  <1> USE DEF KeysMinted, bucket, table, guest
  <1>1. ASSUME NEW g \in Guests, NEW s \in Sides, NEW k \in Keys, ScanSave(g, s, k)
        PROVE  KeysMinted'
    BY <1>1 DEF ScanSave, Images
  <1>2. ASSUME NEW m \in scans, NEW detected \in Sides, ScanAnswer(m, detected)
        PROVE  KeysMinted'
    <2>1. m \in Scan
      BY DEF TypeOK
    <2>2. ASSUME NEW g \in Guests PROVE Images(form'[g]) \subseteq minted
      <3>1. form[g] \in [Sides -> Keys \cup {None}]
        BY DEF TypeOK
      <3>2. \A s \in Sides : form'[g][s] \in {form[g][s], m.key, None}
        BY <1>2, AnswerFillsSlot
      <3> QED
        BY <3>2 DEF Images
    <2> QED
      BY <1>2, <2>2 DEF ScanAnswer, Images
  <1>3. ASSUME NEW m \in scans, ScanLost(m) PROVE KeysMinted'
    BY <1>3 DEF ScanLost, Images
  <1>4. ASSUME NEW g \in Guests, CloseForm(g) PROVE KeysMinted'
    <2>1. \A h \in Guests : /\ form'[h] = form[h] \/ form'[h] = NoImages
                            /\ rendered'[h] = rendered[h] \/ rendered'[h] = NoImages
      BY <1>4 DEF CloseForm, TypeOK
    <2>2. \A h \in Guests : Images(form'[h]) \cup Images(rendered'[h]) \subseteq minted
      BY <2>1, NoImagesIsEmpty
    <2> QED
      BY <1>4, <2>2 DEF CloseForm, Images
  <1>5. ASSUME NEW g \in Guests, NEW id \in RegIds, NEW answered \in BOOLEAN,
               Create(g, id, answered)
        PROVE  KeysMinted'
    <2>1. \A h \in Guests : /\ form'[h] = form[h] \/ form'[h] = NoImages
                            /\ rendered'[h] = rendered[h] \/ rendered'[h] = NoImages
      BY <1>5 DEF Create, TypeOK
    <2>2. \A h \in Guests : Images(form'[h]) \cup Images(rendered'[h]) \subseteq minted
      BY <2>1, NoImagesIsEmpty
    <2>3. \A i \in RegIds : submitted'[i] \in {submitted[i], Images(rendered[g])}
      BY <1>5 DEF Create, TypeOK
    <2>4. \A m \in scans' : m \in scans
      BY <1>5 DEF Create
    <2>5. stored' = stored /\ minted' = minted
      BY <1>5 DEF Create
    <2> QED
      BY <2>2, <2>3, <2>4, <2>5 DEF Images
  <1>6. ASSUME minted' = minted, stored' \subseteq stored,
               UNCHANGED <<scans, form, rendered, submitted>>
        PROVE  KeysMinted'
    BY <1>6 DEF Images
  <1>7. ASSUME NEW g \in Guests, Render(g) PROVE KeysMinted'
    <2>1. \A h \in Guests : rendered'[h] = rendered[h] \/ rendered'[h] = form[h]
      BY <1>7 DEF Render, TypeOK
    <2> QED
      BY <1>7, <2>1 DEF Render, Images
  <1> QED
    BY <1>1, <1>2, <1>3, <1>4, <1>5, <1>6, <1>7
       DEF Next, GuestStep, StaffStep, ViewStep, SweepStep, vars, Age, UpdateRead,
           UpdatePurge, UpdatePurgeFails, UpdateWrite, UpdateAborted, GetDocumentRow,
           GetDocumentBytes, GetDocumentSend, GetDocumentFails, SweepList, SweepQuery,
           SweepRemove, SweepRemoveFails, SweepAborted

\* What the one database write of a PATCH does to the rows.
LEMMA WriteEffect ==
    ASSUME TypeOK, NEW w \in Staff, UpdateWrite(w), job[w].id \in RegIds
    PROVE  /\ \A i \in RegIds \ {job[w].id} : rows'[i] = rows[i]
           /\ \A s \in Sides : rows'[job[w].id].key[s] =
                 IF s \in job[w].cleared THEN None ELSE rows[job[w].id].key[s]
           /\ rows'[job[w].id].status =
                 IF job[w].status = None THEN rows[job[w].id].status ELSE job[w].status
           /\ rows'[job[w].id].deletedAt = (rows[job[w].id].deletedAt \/ job[w].cleared # {})
           /\ rows'[job[w].id].key \in [Sides -> Keys \cup {None}]
  <1> DEFINE id == job[w].id
             row == [status    |-> IF job[w].status = None THEN rows[id].status
                                   ELSE job[w].status,
                     key       |-> [s \in Sides |-> IF s \in job[w].cleared THEN None
                                                    ELSE rows[id].key[s]],
                     deletedAt |-> rows[id].deletedAt \/ job[w].cleared # {},
                     reviewer  |-> Reviewer(w)]
  <1>1. rows' = [rows EXCEPT ![id] = row]
    BY DEF UpdateWrite, KeysLeft
  <1>2. rows'[id] = row /\ \A i \in RegIds \ {id} : rows'[i] = rows[i]
    BY <1>1 DEF TypeOK
  <1>3. rows'[id] \in Row
    BY TypeStep DEF Next, StaffStep, TypeOK
  <1> QED
    BY <1>2, <1>3 DEF Row

\* What create does to the rows: one fresh row, holding the keys the form showed.
LEMMA CreateEffect ==
    ASSUME TypeOK, NEW g \in Guests, NEW id \in RegIds, NEW answered,
           Create(g, id, answered)
    PROVE  /\ id \notin created /\ created' = created \cup {id}
           /\ \A i \in RegIds \ {id} : rows'[i] = rows[i] /\ submitted'[i] = submitted[i]
           /\ rows'[id].key = rendered[g] /\ rows'[id].status = "PENDING"
           /\ rows'[id].deletedAt = FALSE
           /\ submitted'[id] = Images(rendered[g])
           /\ UNCHANGED <<stored, job, sweep, aged>>
  BY DEF Create, BlankRow, TypeOK, bucket

LEMMA RowsWithinSubmittedStep ==
    IInv /\ [Next]_vars => RowsWithinSubmitted'
  <1> SUFFICES ASSUME IInv, [Next]_vars PROVE RowsWithinSubmitted'
    OBVIOUS
  <1> USE DEF RowsWithinSubmitted, bucket, table, guest
  <1>1. ASSUME NEW g \in Guests, NEW id \in RegIds, NEW answered \in BOOLEAN,
               Create(g, id, answered)
        PROVE  RowsWithinSubmitted'
    <2>1. /\ id \notin created /\ created' = created \cup {id}
          /\ \A i \in RegIds \ {id} : rows'[i] = rows[i] /\ submitted'[i] = submitted[i]
          /\ rows'[id].key = rendered[g] /\ submitted'[id] = Images(rendered[g])
          /\ UNCHANGED <<stored, job>>
      BY <1>1, CreateEffect DEF IInv
    <2>2. created \subseteq RegIds
      BY DEF IInv, TypeOK
    <2> QED
      BY <2>1, <2>2 DEF IInv, Images
  <1>2. ASSUME NEW w \in Staff, UpdateWrite(w) PROVE RowsWithinSubmitted'
    <2>1. job[w].id \in created
      BY <1>2 DEF IInv, SnapshotsCover, UpdateWrite
    <2>2. job[w].id \in RegIds
      BY <2>1 DEF IInv, TypeOK
    <2>3. \A i \in RegIds, s \in Sides : rows'[i].key[s] \in {rows[i].key[s], None}
      BY <1>2, <2>2, WriteEffect DEF IInv
    <2>4. \A i \in RegIds : Images(rows'[i].key) \subseteq Images(rows[i].key)
      BY <2>3 DEF Images
    <2>5. UNCHANGED <<created, submitted>>
      BY <1>2 DEF UpdateWrite
    <2>6. created \subseteq RegIds /\ \A i \in created : Images(rows[i].key) \subseteq submitted[i]
      BY DEF IInv, TypeOK
    <2>7. \A i \in created : Images(rows'[i].key) \subseteq submitted[i]
      BY <2>4, <2>6
    <2> QED
      BY <2>5, <2>7 DEF Images
  <1>3. ASSUME UNCHANGED table PROVE RowsWithinSubmitted'
    BY <1>3 DEF IInv, Images
  <1> HIDE DEF RowsWithinSubmitted
  <1> QED
    BY <1>1, <1>2, <1>3
       DEF Next, GuestStep, StaffStep, ViewStep, SweepStep, vars, ScanSave, ScanAnswer,
           Render, ScanLost, CloseForm, Age, UpdateRead, UpdatePurge, UpdatePurgeFails,
           UpdateAborted, GetDocumentRow, GetDocumentBytes, GetDocumentSend,
           GetDocumentFails, SweepList, SweepQuery, SweepRemove, SweepRemoveFails,
           SweepAborted

\* The snapshot a PATCH works from stays good until its write, whatever the
\* other requests do meanwhile.
LEMMA SnapshotsCoverStep == IInv /\ [Next]_vars => SnapshotsCover'
  <1> SUFFICES ASSUME IInv, [Next]_vars PROVE SnapshotsCover'
    OBVIOUS
  <1> USE DEF bucket, table, guest
  <1> DEFINE Good(w) == (job[w].pc # "idle" =>
        /\ job[w].id \in created
        /\ \A s \in Sides : rows[job[w].id].key[s] \in {job[w].snap[s], None}
        /\ Images(job[w].snap) \subseteq submitted[job[w].id]
        /\ job[w].cleared \subseteq StoredSides(job[w].snap)
        /\ \A s \in job[w].cleared : job[w].snap[s] \notin stored
        /\ job[w].cleared # {} => job[w].status \in PurgeAtStatuses
        /\ job[w].pc = "purge" => job[w].status \in PurgeAtStatuses
        /\ job[w].pc = "write" /\ job[w].status \in PurgeAtStatuses =>
              job[w].cleared = StoredSides(job[w].snap))
  <1>0. \A w \in Staff : Good(w)
    BY DEF IInv, SnapshotsCover
  <1>a. SUFFICES \A w \in Staff : Good(w)'
    BY DEF SnapshotsCover, StoredSides, Images
  <1>b. TypeOK /\ created \subseteq RegIds /\ IInv
    BY DEF IInv, TypeOK
  <1>1. ASSUME NEW g \in Guests, NEW s \in Sides, NEW k \in Keys, ScanSave(g, s, k),
               NEW w \in Staff
        PROVE  Good(w)'
    <2>1. job'[w].pc # "idle" => \A d \in job[w].cleared : job[w].snap[d] # k
      <3> SUFFICES ASSUME job[w].pc # "idle", NEW d \in job[w].cleared
                   PROVE  job[w].snap[d] # k
        BY <1>1 DEF ScanSave
      <3>1. d \in Sides /\ job[w].snap[d] # None
        BY <1>0 DEF StoredSides
      <3>2. job[w].snap[d] \in Images(job[w].snap)
        BY <3>1 DEF Images
      <3>3. job[w].snap[d] \in minted
        BY <3>2, <1>0, <1>b DEF IInv, KeysMinted
      <3> QED
        BY <3>3, <1>1 DEF ScanSave
    <2> QED
      BY <2>1, <1>1, <1>0 DEF ScanSave, StoredSides, Images
  <1>2. ASSUME NEW g \in Guests, NEW id \in RegIds, NEW answered \in BOOLEAN,
               Create(g, id, answered), NEW w \in Staff
        PROVE  Good(w)'
    <2>1. /\ id \notin created /\ created' = created \cup {id}
          /\ \A i \in RegIds \ {id} : rows'[i] = rows[i] /\ submitted'[i] = submitted[i]
          /\ rows'[id].key = rendered[g] /\ submitted'[id] = Images(rendered[g])
          /\ UNCHANGED <<stored, job>>
      BY <1>2, <1>b, CreateEffect
    <2>2. job[w].pc # "idle" => job[w].id \in created /\ job[w].id \in RegIds
      BY <1>0, <1>b
    <2> QED
      BY <2>1, <2>2, <1>0 DEF StoredSides, Images
  <1>3. ASSUME NEW u \in Staff, NEW id \in RegIds, NEW status \in Decisions \cup {None},
               UpdateRead(u, id, status), NEW w \in Staff
        PROVE  Good(w)'
    <2>1. CASE w # u
      BY <2>1, <1>3, <1>0, <1>b DEF UpdateRead, TypeOK, StoredSides, Images
    <2>2. CASE w = u
      <3>1. job'[w] = [pc |-> IF ShouldPurge(status, rows[id].key) THEN "purge" ELSE "write",
                       id |-> id, snap |-> rows[id].key, status |-> status, cleared |-> {},
                       reviews |-> status # None /\ status # rows[id].status]
        BY <2>2, <1>3 DEF UpdateRead, TypeOK, IInv
      <3>2. Images(rows[id].key) \subseteq submitted[id] /\ id \in created
        BY <1>3 DEF UpdateRead, IInv, RowsWithinSubmitted
      <3> QED
        BY <3>1, <3>2, <1>3 DEF UpdateRead, ShouldPurge, StoredSides, Images
    <2> QED
      BY <2>1, <2>2
  <1>4. ASSUME NEW u \in Staff, NEW s \in Sides, UpdatePurge(u, s), NEW w \in Staff
        PROVE  Good(w)'
    <2>0. stored' \subseteq stored /\ UNCHANGED <<rows, created, submitted>>
      BY <1>4 DEF UpdatePurge
    <2>1. CASE w # u
      <3>1. job'[w] = job[w]
        BY <2>1, <1>4, <1>b DEF UpdatePurge, TypeOK
      <3> QED
        BY <3>1, <2>0, <1>0 DEF StoredSides, Images
    <2>2. CASE w = u
      <3> DEFINE pc == IF job[w].cleared \cup {s} = StoredSides(job[w].snap)
                       THEN "write" ELSE "purge"
      <3>1. job' = [job EXCEPT ![w] = [job[w] EXCEPT !.cleared = job[w].cleared \cup {s},
                                                     !.pc = pc]]
        BY <2>2, <1>4, Zenon DEF UpdatePurge
      <3>2. job[w] \in Job
        BY <1>b DEF TypeOK
      <3>3. /\ job'[w].pc = pc /\ job'[w].id = job[w].id /\ job'[w].snap = job[w].snap
            /\ job'[w].status = job[w].status /\ job'[w].cleared = job[w].cleared \cup {s}
        <4> HIDE DEF pc
        <4> QED
          BY <3>1, <3>2, <1>b DEF TypeOK, Job
      <3>4. /\ job[w].pc = "purge" /\ s \in StoredSides(job[w].snap)
            /\ stored' = stored \ {job[w].snap[s]}
        BY <2>2, <1>4 DEF UpdatePurge, NextSide
      <3> QED
        BY <3>3, <3>4, <2>0, <1>0 DEF StoredSides, Images
    <2> QED
      BY <2>1, <2>2
  <1>5. ASSUME NEW u \in Staff, UpdateWrite(u), NEW w \in Staff
        PROVE  Good(w)'
    <2>1. job[u].id \in RegIds
      BY <1>5, <1>0, <1>b DEF UpdateWrite
    <2>2. \A i \in RegIds, s \in Sides : rows'[i].key[s] \in {rows[i].key[s], None}
      BY <1>5, <2>1, <1>b, WriteEffect
    <2>3. job'[w] = job[w] \/ job'[w].pc = "idle"
      BY <1>5, <1>b DEF UpdateWrite, TypeOK, IdleJob
    <2>4. UNCHANGED <<stored, created, submitted>>
      BY <1>5 DEF UpdateWrite
    <2>5. CASE job'[w].pc = "idle"
      BY <2>5
    <2>6. CASE job'[w] = job[w] /\ job[w].pc # "idle"
      <3>1. job[w].id \in RegIds
        BY <2>6, <1>0, <1>b
      <3>2. \A s \in Sides : rows'[job[w].id].key[s] \in {job[w].snap[s], None}
        BY <2>2, <2>6, <3>1, <1>0
      <3> QED
        BY <2>4, <2>6, <3>2, <1>0 DEF StoredSides, Images
    <2> QED
      BY <2>3, <2>5, <2>6
  <1>6. ASSUME UNCHANGED <<rows, created, submitted>>, stored' \subseteq stored,
               \A w \in Staff : job'[w] = job[w] \/ job'[w].pc = "idle",
               NEW w \in Staff
        PROVE  Good(w)'
    BY <1>6, <1>0 DEF StoredSides, Images
  <1>7. ASSUME NEW u \in Staff, job' = [job EXCEPT ![u] = IdleJob]
        PROVE  \A w \in Staff : job'[w] = job[w] \/ job'[w].pc = "idle"
    BY <1>7, <1>b DEF TypeOK, IdleJob
  <1> HIDE DEF Good
  <1> QED
    BY <1>1, <1>2, <1>3, <1>4, <1>5, <1>6, <1>7
       DEF Next, GuestStep, StaffStep, ViewStep, SweepStep, vars, ScanAnswer, Render,
           ScanLost, CloseForm, Age, UpdatePurgeFails, UpdateAborted, GetDocumentRow,
           GetDocumentBytes, GetDocumentSend, GetDocumentFails, SweepList, SweepQuery,
           SweepRemove, SweepRemoveFails, SweepAborted

\* At the write, either the row has its disposal record already or the PATCH
\* has cleared every image the row was submitted with.
LEMMA AtTheWrite ==
    ASSUME IInv, NEW w \in Staff, UpdateWrite(w), job[w].status \in PurgeAtStatuses
    PROVE  /\ job[w].id \in created /\ job[w].id \in RegIds
           /\ rows'[job[w].id].key = NoImages
           /\ submitted[job[w].id] \cap stored = {}
           /\ rows[job[w].id].deletedAt \/ job[w].cleared # {} \/ submitted[job[w].id] = {}
  <1> DEFINE id == job[w].id
  <1>1. id \in created /\ id \in RegIds
    BY DEF IInv, SnapshotsCover, UpdateWrite, TypeOK
  <1>2. /\ \A s \in Sides : rows[id].key[s] \in {job[w].snap[s], None}
        /\ \A s \in job[w].cleared : job[w].snap[s] \notin stored
        /\ job[w].cleared = {s \in Sides : job[w].snap[s] # None}
    BY DEF IInv, SnapshotsCover, UpdateWrite, StoredSides
  <1>3. \A s \in Sides : rows'[id].key[s] = None
    BY <1>1, <1>2, WriteEffect DEF IInv
  <1>4. rows'[id].key = NoImages
    <2>1. rows'[id].key \in [Sides -> Keys \cup {None}]
      BY <1>1, WriteEffect DEF IInv
    <2> QED
      BY <2>1, <1>3 DEF NoImages
  <1>5. IF rows[id].deletedAt
        THEN submitted[id] \cap stored = {}
        ELSE Images(rows[id].key) = submitted[id]
    BY <1>1 DEF IInv, DisposalRecordExact
  <1>6. \A k \in Images(rows[id].key) : k \notin stored /\ job[w].cleared # {}
    BY <1>2 DEF Images
  <1> QED
    BY <1>1, <1>4, <1>5, <1>6

LEMMA DisposalStep ==
    IInv /\ [Next]_vars => ReviewedImagesGone' /\ DisposalRecordExact'
  <1> SUFFICES ASSUME IInv, [Next]_vars
               PROVE  ReviewedImagesGone' /\ DisposalRecordExact'
    OBVIOUS
  <1> USE DEF bucket, table, guest
  <1> DEFINE Exact(id) == /\ rows[id].status \in PurgeAtStatuses =>
                                rows[id].key = NoImages /\ submitted[id] \cap stored = {}
                          /\ IF rows[id].deletedAt
                             THEN rows[id].key = NoImages /\ submitted[id] \cap stored = {}
                             ELSE Images(rows[id].key) = submitted[id]
  <1>0. \A id \in created : Exact(id)
    BY DEF IInv, ReviewedImagesGone, DisposalRecordExact
  <1>a. SUFFICES \A id \in created' : Exact(id)'
    BY DEF ReviewedImagesGone, DisposalRecordExact, Images, NoImages
  <1>b. TypeOK /\ created \subseteq RegIds
    BY DEF IInv, TypeOK
  <1>1. ASSUME NEW g \in Guests, NEW s \in Sides, NEW k \in Keys, ScanSave(g, s, k),
               NEW id \in created'
        PROVE  Exact(id)'
    <2>1. id \in created /\ UNCHANGED <<rows, submitted>> /\ stored' = stored \cup {k}
      BY <1>1 DEF ScanSave
    <2>2. k \notin submitted[id]
      BY <2>1, <1>1, <1>b DEF ScanSave, IInv, KeysMinted
    <2> QED
      BY <2>1, <2>2, <1>0 DEF Images
  <1>2. ASSUME NEW g \in Guests, NEW i \in RegIds, NEW answered \in BOOLEAN,
               Create(g, i, answered), NEW id \in created'
        PROVE  Exact(id)'
    <2>1. /\ i \notin created /\ created' = created \cup {i}
          /\ \A j \in RegIds \ {i} : rows'[j] = rows[j] /\ submitted'[j] = submitted[j]
          /\ rows'[i].key = rendered[g] /\ submitted'[i] = Images(rendered[g])
          /\ rows'[i].status = "PENDING" /\ rows'[i].deletedAt = FALSE
          /\ stored' = stored
      BY <1>2, <1>b, CreateEffect
    <2> QED
      BY <2>1, <1>0, <1>b DEF PurgeAtStatuses, Images
  <1>3. ASSUME NEW w \in Staff, UpdateWrite(w), NEW id \in created'
        PROVE  Exact(id)'
    <2>1. UNCHANGED <<stored, created, submitted>>
      BY <1>3 DEF UpdateWrite
    <2>2. job[w].id \in created /\ job[w].id \in RegIds
      BY <1>3, <1>b DEF IInv, SnapshotsCover, UpdateWrite
    <2>3. CASE id # job[w].id
      <3>1. rows'[id] = rows[id]
        BY <2>3, <2>1, <2>2, <1>3, <1>b, WriteEffect
      <3> QED
        BY <3>1, <2>1, <1>0 DEF Images
    <2>4. CASE id = job[w].id /\ job[w].status \in PurgeAtStatuses
      <3>1. /\ rows'[id].key = NoImages /\ submitted[id] \cap stored = {}
            /\ rows[id].deletedAt \/ job[w].cleared # {} \/ submitted[id] = {}
        BY <2>4, <1>3, AtTheWrite
      <3>2. rows'[id].deletedAt = (rows[id].deletedAt \/ job[w].cleared # {})
        BY <2>4, <2>2, <1>3, <1>b, WriteEffect
      <3> QED
        BY <3>1, <3>2, <2>1, NoImagesIsEmpty
    <2>5. CASE id = job[w].id /\ job[w].status \notin PurgeAtStatuses
      <3>1. job[w].cleared = {}
        BY <2>5, <1>3 DEF IInv, SnapshotsCover, UpdateWrite
      <3>2. /\ \A s \in Sides : rows'[id].key[s] = rows[id].key[s]
            /\ rows'[id].key \in [Sides -> Keys \cup {None}]
            /\ rows'[id].deletedAt = rows[id].deletedAt
            /\ rows'[id].status = IF job[w].status = None THEN rows[id].status
                                  ELSE job[w].status
        <4>1. rows[id] \in Row
          BY <2>1, <1>b DEF TypeOK
        <4> QED
          BY <4>1, <3>1, <2>5, <2>2, <1>3, <1>b, WriteEffect DEF Row
      <3>3. rows'[id].key = rows[id].key
        <4>1. rows[id].key \in [Sides -> Keys \cup {None}]
          BY <2>1, <1>b DEF TypeOK, Row
        <4> QED
          BY <4>1, <3>2
      <3> QED
        BY <3>2, <3>3, <2>5, <2>1, <1>0
    <2> QED
      BY <2>3, <2>4, <2>5
  <1>4. ASSUME UNCHANGED table, stored' \subseteq stored, NEW id \in created'
        PROVE  Exact(id)'
    BY <1>4, <1>0 DEF Images
  <1> HIDE DEF Exact
  <1> QED
    BY <1>1, <1>2, <1>3, <1>4
       DEF Next, GuestStep, StaffStep, ViewStep, SweepStep, vars, ScanAnswer, Render,
           ScanLost, CloseForm, Age, UpdateRead, UpdatePurge, UpdatePurgeFails,
           UpdateAborted, GetDocumentRow, GetDocumentBytes, GetDocumentSend,
           GetDocumentFails, SweepList, SweepQuery, SweepRemove, SweepRemoveFails,
           SweepAborted

LEMMA IInvStep == IInv /\ [Next]_vars => IInv'
  BY TypeStep, KeysMintedStep, RowsWithinSubmittedStep, SnapshotsCoverStep, DisposalStep
     DEF IInv

LEMMA IInvHolds == Spec => []IInv
  BY InitIInv, IInvStep, PTL DEF Spec

\* A registration that carries a decision has no image attached to it and none
\* of the images it was submitted with left in the bucket.
THEOREM ReviewedImagesAreGone == Spec => []ReviewedImagesGone
  <1>1. IInv => ReviewedImagesGone
    BY DEF IInv
  <1> QED
    BY <1>1, IInvHolds, PTL

\* idDocumentDeletedAt is set exactly when the submitted images are gone.
THEOREM DisposalRecordIsExact == Spec => []DisposalRecordExact
  <1>1. IInv => DisposalRecordExact
    BY DEF IInv
  <1> QED
    BY <1>1, IInvHolds, PTL

-----------------------------------------------------------------------------
(***************************************************************************)
(* Action properties.                                                      *)
(***************************************************************************)

\* No step points a registration at another image or brings a purged one back.
THEOREM KeysAreOnlyCleared == Spec => KeysOnlyCleared
  <1>1. ASSUME IInv, [Next]_vars, NEW id \in created, NEW s \in Sides
        PROVE  rows'[id].key[s] \in {rows[id].key[s], None}
    <2> USE DEF bucket, table, guest
    <2>0. TypeOK /\ id \in RegIds
      BY <1>1 DEF IInv, TypeOK
    <2>1. ASSUME NEW g \in Guests, NEW i \in RegIds, NEW answered \in BOOLEAN,
                 Create(g, i, answered)
          PROVE  rows'[id] = rows[id]
      BY <2>1, <2>0, <1>1, CreateEffect
    <2>2. ASSUME NEW w \in Staff, UpdateWrite(w)
          PROVE  rows'[id].key[s] \in {rows[id].key[s], None}
      <3>1. job[w].id \in RegIds
        BY <2>2, <1>1 DEF IInv, SnapshotsCover, UpdateWrite, TypeOK
      <3>2. CASE id = job[w].id
        BY <3>1, <3>2, <2>0, <2>2, <1>1, WriteEffect
      <3>3. CASE id # job[w].id
        BY <3>1, <3>3, <2>0, <2>2, WriteEffect
      <3> QED
        BY <3>2, <3>3
    <2> QED
      BY <1>1, <2>1, <2>2
         DEF Next, GuestStep, StaffStep, ViewStep, SweepStep, vars, ScanSave, ScanAnswer,
             Render, ScanLost, CloseForm, Age, UpdateRead, UpdatePurge, UpdatePurgeFails,
             UpdateAborted, GetDocumentRow, GetDocumentBytes, GetDocumentSend,
             GetDocumentFails, SweepList, SweepQuery, SweepRemove, SweepRemoveFails,
             SweepAborted
  <1>2. IInv /\ [Next]_vars =>
          [\A id \in created, s \in Sides :
              rows'[id].key[s] \in {rows[id].key[s], None}]_vars
    BY <1>1
  <1> QED
    BY <1>2, IInvHolds, PTL DEF Spec, KeysOnlyCleared

\* The key a document request waits on is one its registration was submitted
\* with, even after the registration has lost it.
ViewsHoldSubmitted ==
    \A v \in Viewers : view[v].pc = "read" =>
        view[v].id \in created /\ view[v].key \in submitted[view[v].id]

LEMMA ViewsStep == IInv /\ ViewsHoldSubmitted /\ [Next]_vars => ViewsHoldSubmitted'
  <1> SUFFICES ASSUME IInv, ViewsHoldSubmitted, [Next]_vars PROVE ViewsHoldSubmitted'
    OBVIOUS
  <1> USE DEF ViewsHoldSubmitted, bucket, table, guest
  <1>0. TypeOK /\ created \subseteq RegIds
    BY DEF IInv, TypeOK
  <1>1. ASSUME NEW v \in Viewers, NEW id \in RegIds, NEW s \in Sides,
               GetDocumentRow(v, id, s)
        PROVE  ViewsHoldSubmitted'
    <2>1. rows[id].key[s] \in submitted[id]
      BY <1>1 DEF GetDocumentRow, IInv, RowsWithinSubmitted, Images
    <2>2. view'[v] = [pc |-> "read", id |-> id, key |-> rows[id].key[s]]
      BY <1>1, <1>0 DEF GetDocumentRow, TypeOK
    <2>3. view'[v].id = id /\ view'[v].key = rows[id].key[s]
      BY <2>2
    <2>4. \A u \in Viewers : u # v => view'[u] = view[u]
      BY <1>1, <1>0 DEF GetDocumentRow, TypeOK
    <2>5. id \in created /\ UNCHANGED <<created, submitted>>
      BY <1>1 DEF GetDocumentRow
    <2> QED
      BY <2>1, <2>3, <2>4, <2>5
  <1>2. ASSUME NEW v \in Viewers,
               GetDocumentBytes(v) \/ GetDocumentSend(v) \/ GetDocumentFails(v)
        PROVE  ViewsHoldSubmitted'
    <2> DEFINE sending == [view[v] EXCEPT !.pc = "send"]
    <2>1. view[v] \in View /\ sending.pc = "send" /\ IdleView.pc = "idle"
      BY <1>0 DEF TypeOK, View, IdleView
    <2>2. \/ view' = [view EXCEPT ![v] = IF view[v].key \in stored THEN sending ELSE IdleView]
          \/ view' = [view EXCEPT ![v] = IdleView]
      BY <1>2, Zenon DEF GetDocumentBytes, GetDocumentSend, GetDocumentFails
    <2> HIDE DEF sending
    <2>3. \A u \in Viewers : view'[u].pc = "read" => view'[u] = view[u]
      BY <2>1, <2>2, <1>0 DEF TypeOK
    <2>4. UNCHANGED <<created, submitted>>
      BY <1>2 DEF GetDocumentBytes, GetDocumentSend, GetDocumentFails
    <2> QED
      BY <2>3, <2>4
  <1>3. ASSUME NEW g \in Guests, NEW id \in RegIds, NEW answered \in BOOLEAN,
               Create(g, id, answered)
        PROVE  ViewsHoldSubmitted'
    <2>0. TypeOK
      BY <1>0
    <2>1. /\ id \notin created /\ created' = created \cup {id}
          /\ \A i \in RegIds \ {id} : submitted'[i] = submitted[i]
      <3> HIDE DEF ViewsHoldSubmitted
      <3> QED
        BY <1>3, <2>0, CreateEffect
    <2>2. view' = view
      BY <1>3 DEF Create
    <2> QED
      BY <2>1, <2>2, <1>0
  <1>4. ASSUME UNCHANGED <<view, created, submitted>> PROVE ViewsHoldSubmitted'
    BY <1>4
  <1> QED
    BY <1>1, <1>2, <1>3, <1>4
       DEF Next, GuestStep, StaffStep, ViewStep, SweepStep, vars, ScanSave, ScanAnswer,
           Render, ScanLost, CloseForm, Age, UpdateRead, UpdatePurge, UpdatePurgeFails,
           UpdateWrite, UpdateAborted, SweepList, SweepQuery, SweepRemove,
           SweepRemoveFails, SweepAborted

\* getDocument: from the step that records a decision on, no request reads the
\* image, though it may have found the key in the row before.
THEOREM NoImageAfterReview == Spec => NoImageReadAfterReview
  <1>1. Init => ViewsHoldSubmitted
    BY DEF Init, ViewsHoldSubmitted, IdleView
  <1>2. ASSUME IInv, ViewsHoldSubmitted, [Next]_vars, NEW v \in Viewers,
               view[v].pc = "read", view'[v].pc = "send"
        PROVE  rows[view[v].id].status \notin PurgeAtStatuses
    <2> USE DEF bucket, table, guest
    <2>0. TypeOK
      BY <1>2 DEF IInv
    <2>1. ASSUME NEW u \in Viewers, GetDocumentBytes(u)
          PROVE  view[v].key \in stored
      <3>1. u = v
        BY <2>0, <2>1, <1>2 DEF GetDocumentBytes, TypeOK
      <3>2. CASE view[v].key \notin stored
        <4>1. view'[v] = IdleView
          BY <2>0, <2>1, <3>1, <3>2 DEF GetDocumentBytes, TypeOK
        <4> QED
          BY <4>1, <1>2 DEF IdleView
      <3> QED
        BY <3>2
    <2>2. ASSUME NEW u \in Viewers, GetDocumentSend(u) \/ GetDocumentFails(u)
          PROVE  FALSE
      BY <2>0, <2>2, <1>2 DEF GetDocumentSend, GetDocumentFails, TypeOK, IdleView
    <2>3. ASSUME NEW u \in Viewers, NEW id \in RegIds, NEW s \in Sides,
                 GetDocumentRow(u, id, s)
          PROVE  FALSE
      BY <2>0, <2>3, <1>2 DEF GetDocumentRow, TypeOK
    <2>4. view' # view
      BY <1>2
    <2>5. view[v].key \in stored
      BY <1>2, <2>1, <2>2, <2>3, <2>4
         DEF Next, GuestStep, StaffStep, ViewStep, SweepStep, vars, ScanSave, ScanAnswer,
             Render, ScanLost, CloseForm, Create, Age, UpdateRead, UpdatePurge,
             UpdatePurgeFails, UpdateWrite, UpdateAborted, SweepList, SweepQuery,
             SweepRemove, SweepRemoveFails, SweepAborted
    <2> QED
      BY <1>2, <2>5 DEF ViewsHoldSubmitted, IInv, ReviewedImagesGone
  <1>3. IInv /\ ViewsHoldSubmitted /\ [Next]_vars =>
          [\A v \in Viewers : view[v].pc = "read" /\ view'[v].pc = "send" =>
              rows[view[v].id].status \notin PurgeAtStatuses]_vars
    BY <1>2
  <1> QED
    BY <1>1, <1>3, ViewsStep, IInvHolds, PTL DEF Spec, NoImageReadAfterReview

-----------------------------------------------------------------------------
(***************************************************************************)
(* The sweep, when no form outlives the orphan cutoff.                     *)
(***************************************************************************)

\* No open form holds an object old enough to be swept, so what a sweep has
\* settled on can no longer be submitted.
SweepsApart ==
    /\ aged \subseteq minted
    /\ aged \cap Held = {}
    /\ \A s \in Sweepers : sweep[s].keys \subseteq aged
    /\ SweepSparesRegistered

LEMMA HeldStays ==
    ASSUME TypeOK, [Next]_vars
    PROVE  Held' \subseteq Held \cup (Keys \ minted)
  <1> USE DEF bucket, table, guest
  <1>0. \A k : k \in Held <=> \/ \E g \in Guests : k \in Images(form[g]) \cup Images(rendered[g])
                              \/ \E m \in scans : m.key = k
    BY DEF Held, HeldBy, TypeOK, Scan
  <1>1. TypeOK'
    BY TypeStep
  <1>2. \A k : k \in Held' <=> \/ \E g \in Guests : k \in Images(form'[g]) \cup Images(rendered'[g])
                               \/ \E m \in scans' : m.key = k
    BY <1>1 DEF Held, HeldBy, TypeOK, Scan, Images
  <1>3. ASSUME NEW g \in Guests, NEW s \in Sides, NEW k \in Keys, ScanSave(g, s, k)
        PROVE  Held' \subseteq Held \cup (Keys \ minted)
    BY <1>3, <1>0, <1>2 DEF ScanSave, Images
  <1>4. ASSUME NEW m \in scans, NEW detected \in Sides, ScanAnswer(m, detected)
        PROVE  Held' \subseteq Held \cup (Keys \ minted)
    <2>1. m \in Scan
      BY DEF TypeOK
    <2>2. \A g \in Guests, s \in Sides : form'[g][s] \in {form[g][s], m.key, None}
      BY <1>4, AnswerFillsSlot
    <2>3. \A g \in Guests : Images(form'[g]) \subseteq Images(form[g]) \cup {m.key}
      BY <2>2 DEF Images
    <2> QED
      BY <1>4, <2>3, <1>0, <1>2 DEF ScanAnswer
  <1>5. ASSUME \A g \in Guests : /\ form'[g] = form[g] \/ form'[g] = NoImages
                                 /\ rendered'[g] = rendered[g] \/ rendered'[g] = NoImages,
               scans' \subseteq scans
        PROVE  Held' \subseteq Held \cup (Keys \ minted)
    BY <1>5, <1>0, <1>2, NoImagesIsEmpty
  <1>6. ASSUME NEW g \in Guests, CloseForm(g) PROVE Held' \subseteq Held \cup (Keys \ minted)
    BY <1>5, <1>6 DEF CloseForm, TypeOK
  <1>7. ASSUME NEW g \in Guests, NEW id \in RegIds, NEW answered \in BOOLEAN,
               Create(g, id, answered)
        PROVE  Held' \subseteq Held \cup (Keys \ minted)
    <2>1. \A h \in Guests : /\ form'[h] = form[h] \/ form'[h] = NoImages
                            /\ rendered'[h] = rendered[h] \/ rendered'[h] = NoImages
      BY <1>7 DEF Create, TypeOK
    <2>2. scans' \subseteq scans
      BY <1>7 DEF Create
    <2> QED
      BY <1>5, <2>1, <2>2
  <1>8. ASSUME NEW m \in scans, ScanLost(m) PROVE Held' \subseteq Held \cup (Keys \ minted)
    BY <1>5, <1>8 DEF ScanLost
  <1>9. ASSUME UNCHANGED <<form, rendered, scans>>
        PROVE  Held' \subseteq Held \cup (Keys \ minted)
    BY <1>5, <1>9
  <1>10. ASSUME NEW g \in Guests, Render(g) PROVE Held' \subseteq Held \cup (Keys \ minted)
    <2>1. \A h \in Guests : rendered'[h] = rendered[h] \/ rendered'[h] = form[h]
      BY <1>10 DEF Render, TypeOK
    <2> QED
      BY <1>10, <2>1, <1>0, <1>2 DEF Render
  <1> QED
    BY <1>3, <1>4, <1>6, <1>7, <1>8, <1>9, <1>10
       DEF Next, GuestStep, StaffStep, ViewStep, SweepStep, vars, Age, UpdateRead,
           UpdatePurge, UpdatePurgeFails, UpdateWrite, UpdateAborted, GetDocumentRow,
           GetDocumentBytes, GetDocumentSend, GetDocumentFails, SweepList, SweepQuery,
           SweepRemove, SweepRemoveFails, SweepAborted

LEMMA SweepsApartStep ==
    ASSUME PromptForms
    PROVE  IInv /\ SweepsApart /\ [Next]_vars => SweepsApart'
  <1> SUFFICES ASSUME IInv, SweepsApart, [Next]_vars PROVE SweepsApart'
    OBVIOUS
  <1> USE DEF bucket, table, guest
  <1>0. TypeOK /\ TypeOK' /\ created \subseteq RegIds
    BY TypeStep DEF IInv, TypeOK
  <1>1. Held' \subseteq Held \cup (Keys \ minted)
    BY <1>0, HeldStays
  <1>2. ASSUME NEW k \in Keys, Age(k) PROVE SweepsApart'
    <2>1. k \notin Held /\ k \in minted /\ aged' = aged \cup {k}
      BY <1>2, <1>0 DEF Age, IInv, KeysMinted
    <2>2. UNCHANGED <<minted, sweep, rows, created, form, rendered, scans>>
      BY <1>2 DEF Age
    <2>3. Held' = Held /\ Referenced' = Referenced
      BY <2>2 DEF Held, HeldBy, Referenced, Images
    <2> QED
      BY <2>1, <2>2, <2>3 DEF SweepsApart, SweepSparesRegistered
  <1>3. ASSUME aged' = aged, minted \subseteq minted'
        PROVE  aged' \subseteq minted' /\ aged' \cap Held' = {}
    BY <1>1, <1>3 DEF SweepsApart
  <1>4. ASSUME NEW g \in Guests, NEW id \in RegIds, NEW answered \in BOOLEAN,
               Create(g, id, answered)
        PROVE  SweepsApart'
    <2>1. /\ id \notin created /\ created' = created \cup {id}
          /\ \A i \in RegIds \ {id} : rows'[i] = rows[i]
          /\ rows'[id].key = rendered[g]
          /\ UNCHANGED <<sweep, aged>>
      BY <1>4, <1>0, CreateEffect
    <2>2. Images(rendered[g]) \subseteq Held
      BY DEF Held, HeldBy
    <2>3. Referenced' \subseteq Referenced \cup Images(rendered[g])
      BY <2>1, <1>0 DEF Referenced, Images
    <2>4. \A s \in Sweepers : sweep[s].keys \cap Images(rendered[g]) = {}
      BY <2>2 DEF SweepsApart
    <2>5. SweepSparesRegistered'
      BY <2>1, <2>3, <2>4 DEF SweepsApart, SweepSparesRegistered
    <2>6. minted' = minted
      BY <1>4 DEF Create
    <2> QED
      BY <1>3, <2>1, <2>5, <2>6 DEF SweepsApart
  <1>5. ASSUME NEW w \in Staff, UpdateWrite(w) PROVE SweepsApart'
    <2>1. job[w].id \in RegIds
      BY <1>5, <1>0 DEF IInv, SnapshotsCover, UpdateWrite
    <2>2. \A i \in RegIds, s \in Sides : rows'[i].key[s] \in {rows[i].key[s], None}
      BY <1>5, <2>1, <1>0, WriteEffect
    <2>3. UNCHANGED <<created, sweep, aged, minted>>
      BY <1>5 DEF UpdateWrite
    <2>4. Referenced' \subseteq Referenced
      BY <2>2, <2>3, <1>0 DEF Referenced, Images
    <2> QED
      BY <1>3, <2>3, <2>4 DEF SweepsApart, SweepSparesRegistered
  <1>6. ASSUME NEW s \in Sweepers, SweepList(s) PROVE SweepsApart'
    <2>1. /\ UNCHANGED <<aged, minted, rows, created>>
          /\ \A u \in Sweepers : u # s => sweep'[u] = sweep[u]
          /\ sweep'[s] = [pc |-> "query", keys |-> stored \cap aged]
      BY <1>6, <1>0 DEF SweepList, TypeOK
    <2>2. Referenced' = Referenced
      BY <2>1 DEF Referenced, Images
    <2> QED
      BY <1>3, <2>1, <2>2 DEF SweepsApart, SweepSparesRegistered
  <1>7. ASSUME NEW s \in Sweepers, SweepQuery(s) PROVE SweepsApart'
    <2>1. /\ UNCHANGED <<aged, minted, rows, created>>
          /\ \A u \in Sweepers : u # s => sweep'[u] = sweep[u]
          /\ sweep'[s].keys = sweep[s].keys \ Referenced
      BY <1>7, <1>0 DEF SweepQuery, TypeOK, Sweeping, IdleSweep
    <2>2. Referenced' = Referenced
      BY <2>1 DEF Referenced, Images
    <2> QED
      BY <1>3, <2>1, <2>2 DEF SweepsApart, SweepSparesRegistered
  <1>8. ASSUME NEW s \in Sweepers, NEW k \in Keys,
               SweepRemove(s, k) \/ SweepRemoveFails(s, k)
        PROVE  SweepsApart'
    <2>1. /\ UNCHANGED <<aged, minted, rows, created>> /\ sweep[s].pc = "remove"
          /\ \A u \in Sweepers : u # s => sweep'[u] = sweep[u]
          /\ sweep'[s].keys = sweep[s].keys \ {k}
      BY <1>8, <1>0 DEF SweepRemove, SweepRemoveFails, TypeOK, Sweeping, IdleSweep
    <2>2. Referenced' = Referenced
      BY <2>1 DEF Referenced, Images
    <2> QED
      BY <1>3, <2>1, <2>2 DEF SweepsApart, SweepSparesRegistered
  <1>9. ASSUME NEW s \in Sweepers, SweepAborted(s) PROVE SweepsApart'
    <2>1. /\ UNCHANGED <<aged, minted, rows, created>>
          /\ \A u \in Sweepers : u # s => sweep'[u] = sweep[u]
          /\ sweep'[s] = [pc |-> "idle", keys |-> {}]
      BY <1>9, <1>0 DEF SweepAborted, TypeOK, IdleSweep
    <2>2. Referenced' = Referenced
      BY <2>1 DEF Referenced, Images
    <2> QED
      BY <1>3, <2>1, <2>2 DEF SweepsApart, SweepSparesRegistered
  <1>10. ASSUME UNCHANGED <<rows, created, sweep, aged>>, minted \subseteq minted'
         PROVE  SweepsApart'
    <2>1. Referenced' = Referenced
      BY <1>10 DEF Referenced, Images
    <2> QED
      BY <1>3, <1>10, <2>1 DEF SweepsApart, SweepSparesRegistered
  <1> QED
    BY <1>2, <1>4, <1>5, <1>6, <1>7, <1>8, <1>9, <1>10
       DEF Next, GuestStep, StaffStep, ViewStep, SweepStep, vars, ScanSave, ScanAnswer,
           Render, ScanLost, CloseForm, UpdateRead, UpdatePurge, UpdatePurgeFails,
           UpdateAborted, GetDocumentRow, GetDocumentBytes, GetDocumentSend,
           GetDocumentFails

\* If forms are submitted or abandoned within the orphan cutoff, a sweep never
\* holds a registration's image for deletion, though it asked the database
\* long before it deletes.
THEOREM SweepSparesTheRegistered ==
    ASSUME PromptForms
    PROVE  Spec => []SweepSparesRegistered
  <1>1. Init => SweepsApart
    <2> SUFFICES ASSUME Init PROVE SweepsApart
      OBVIOUS
    <2> QED
      BY DEF Init, SweepsApart, SweepSparesRegistered, IdleSweep
  <1>2. SweepsApart => SweepSparesRegistered
    BY DEF SweepsApart
  <1>3. IInv /\ SweepsApart /\ [Next]_vars => SweepsApart'
    BY SweepsApartStep
  <1> QED
    BY <1>1, <1>2, <1>3, IInvHolds, PTL DEF Spec

-----------------------------------------------------------------------------
(***************************************************************************)
(* The review flow implements module Disposal.  The disposal record and    *)
(* the decision are read off the rows.                                     *)
(***************************************************************************)
Disposed == {id \in created : rows[id].deletedAt}
Decided  == {id \in created : rows[id].status \in PurgeAtStatuses}

\* The one write of a PATCH is a decision, a reopening, or nothing to Disposal.
LEMMA WriteKeepsPromise ==
    ASSUME IInv, NEW w \in Staff, UpdateWrite(w)
    PROVE  Promise!Next \/ UNCHANGED Promise!vars
  <1>0. job[w].id \in RegIds
    BY DEF IInv, SnapshotsCover, UpdateWrite, TypeOK
  <1> PICK id \in RegIds : id = job[w].id
    BY <1>0
  <1>1. UNCHANGED <<stored, minted, created, submitted>>
    BY DEF UpdateWrite, bucket
  <1>2. id \in created /\ id \in RegIds /\ created \subseteq RegIds /\ TypeOK
    BY DEF IInv, SnapshotsCover, UpdateWrite, TypeOK
  <1>3. /\ \A i \in created \ {id} : rows'[i] = rows[i]
        /\ rows'[id].status = IF job[w].status = None THEN rows[id].status ELSE job[w].status
        /\ rows'[id].deletedAt = (rows[id].deletedAt \/ job[w].cleared # {})
    BY <1>2, WriteEffect
  <1>4. CASE job[w].status \in PurgeAtStatuses
    <2>1. /\ submitted[id] \cap stored = {}
          /\ rows[id].deletedAt \/ job[w].cleared # {} \/ submitted[id] = {}
      BY <1>4, AtTheWrite
    <2>2. job[w].cleared # {} => submitted[id] # {}
      <3>1. job[w].cleared \subseteq StoredSides(job[w].snap) /\
            Images(job[w].snap) \subseteq submitted[id]
        BY DEF IInv, SnapshotsCover, UpdateWrite
      <3> QED
        BY <3>1 DEF StoredSides, Images
    <2>3. Decided' = Decided \cup {id}
      BY <1>1, <1>2, <1>3, <1>4, ConstantsAssumption DEF Decided, PurgeAtStatuses, Statuses
    <2>4. Disposed' = IF submitted[id] = {} THEN Disposed ELSE Disposed \cup {id}
      BY <1>1, <1>2, <1>3, <2>1, <2>2 DEF Disposed
    <2>5. Promise!Decide(id)
      BY <1>1, <1>2, <2>1, <2>3, <2>4 DEF Promise!Decide, Decided, Disposed
    <2> QED
      BY <1>2, <2>5 DEF Promise!Next
  <1>5. CASE job[w].status \notin PurgeAtStatuses
    <2>1. job[w].cleared = {}
      BY <1>5 DEF IInv, SnapshotsCover, UpdateWrite
    <2>2. Disposed' = Disposed
      BY <1>1, <1>3, <2>1 DEF Disposed
    <2>3. CASE job[w].status = None
      <3>1. Decided' = Decided
        BY <1>1, <1>3, <2>3 DEF Decided
      <3> QED
        BY <1>1, <2>2, <3>1 DEF Promise!vars, Decided, Disposed
    <2>4. CASE job[w].status # None
      <3>1. Decided' = Decided \ {id}
        BY <1>1, <1>3, <1>5, <2>4 DEF Decided
      <3>2. Promise!Reopen(id)
        BY <1>1, <2>2, <3>1 DEF Promise!Reopen, Decided, Disposed
      <3> QED
        BY <1>2, <3>2 DEF Promise!Next
    <2> QED
      BY <2>3, <2>4
  <1> QED
    BY <1>4, <1>5

\* A deletion is a Discard, or nothing when the object was already gone.
LEMMA RemovalKeepsPromise ==
    ASSUME TypeOK, NEW k \in Keys, stored' = stored \ {k},
           UNCHANGED <<minted, rows, created, submitted>>
    PROVE  Promise!Next \/ UNCHANGED Promise!vars
  <1>1. CASE k \in stored
    BY <1>1 DEF Promise!Next, Promise!Discard
  <1>2. CASE k \notin stored
    <2>1. stored' = stored
      BY <1>2
    <2> QED
      BY <2>1 DEF Promise!vars
  <1> QED
    BY <1>1, <1>2

LEMMA StepKeepsPromise ==
    IInv /\ [Next]_vars => Promise!Next \/ UNCHANGED Promise!vars
  <1> SUFFICES ASSUME IInv, [Next]_vars PROVE Promise!Next \/ UNCHANGED Promise!vars
    OBVIOUS
  <1> USE DEF bucket, table, guest
  <1>0. TypeOK /\ created \subseteq RegIds
    BY DEF IInv, TypeOK
  <1>1. ASSUME NEW g \in Guests, NEW s \in Sides, NEW k \in Keys, ScanSave(g, s, k)
        PROVE  Promise!Next
    BY <1>1 DEF ScanSave, Promise!Next, Promise!Store
  <1>2. ASSUME NEW g \in Guests, NEW id \in RegIds, NEW answered \in BOOLEAN,
               Create(g, id, answered)
        PROVE  Promise!Next
    <2> DEFINE images == Images(rendered[g])
    <2>1. images \in SUBSET minted
      BY DEF IInv, KeysMinted
    <2>2. /\ id \notin created /\ created' = created \cup {id}
          /\ \A i \in RegIds \ {id} : rows'[i] = rows[i]
          /\ rows'[id].status = "PENDING" /\ rows'[id].deletedAt = FALSE
      BY <1>2, <1>0, CreateEffect
    <2>3. Decided' = Decided /\ Disposed' = Disposed
      BY <2>2, <1>0 DEF Decided, Disposed, PurgeAtStatuses
    <2>4. Promise!Submit(id, images)
      BY <1>2, <2>3 DEF Create, Promise!Submit, Decided, Disposed
    <2> QED
      BY <2>1, <2>4 DEF Promise!Next
  <1>3. ASSUME NEW w \in Staff, NEW s \in Sides, NextSide(w, s)
        PROVE  job[w].snap[s] \in Keys
    <2>1. job[w] \in Job
      BY <1>0 DEF TypeOK
    <2> QED
      BY <1>3, <2>1 DEF NextSide, StoredSides, Job
  <1>4. ASSUME NEW w \in Staff, NEW s \in Sides, UpdatePurge(w, s)
        PROVE  Promise!Next \/ UNCHANGED Promise!vars
    <2>1. job[w].snap[s] \in Keys
      BY <1>3, <1>4 DEF UpdatePurge
    <2>2. /\ stored' = stored \ {job[w].snap[s]}
          /\ UNCHANGED <<minted, rows, created, submitted>>
      BY <1>4 DEF UpdatePurge
    <2> QED
      BY <1>0, <2>1, <2>2, RemovalKeepsPromise
  <1>5. ASSUME UNCHANGED <<stored, minted, rows, created, submitted>>
        PROVE  UNCHANGED Promise!vars
    BY <1>5 DEF Promise!vars
  <1>6. ASSUME NEW w \in Staff, NEW s \in Sides, NEW removed \in BOOLEAN,
               UpdatePurgeFails(w, s, removed)
        PROVE  Promise!Next \/ UNCHANGED Promise!vars
    <2>1. job[w].snap[s] \in Keys
      BY <1>3, <1>6 DEF UpdatePurgeFails
    <2>2. /\ stored' = stored \ {job[w].snap[s]} \/ stored' = stored
          /\ UNCHANGED <<minted, rows, created, submitted>>
      BY <1>6 DEF UpdatePurgeFails
    <2> QED
      BY <1>0, <1>5, <2>1, <2>2, RemovalKeepsPromise
  <1>7. ASSUME NEW s \in Sweepers, NEW k \in Keys, SweepRemove(s, k)
        PROVE  Promise!Next \/ UNCHANGED Promise!vars
    BY <1>0, <1>7, RemovalKeepsPromise DEF SweepRemove
  <1> QED
    BY <1>1, <1>2, <1>4, <1>5, <1>6, <1>7, WriteKeepsPromise
       DEF Next, GuestStep, StaffStep, ViewStep, SweepStep, vars, ScanAnswer, Render,
           ScanLost, CloseForm, Age, UpdateRead, UpdateAborted, GetDocumentRow,
           GetDocumentBytes, GetDocumentSend, GetDocumentFails, SweepList, SweepQuery,
           SweepRemoveFails, SweepAborted

\* Whatever the requests, retries and failures, guests and auditors see
\* behaviours of module Disposal.
THEOREM ReviewFlowKeepsPromise == Spec => KeepsPromise
  <1>1. Init => Promise!Init
    BY DEF Init, Promise!Init
  <1>2. IInv /\ [Next]_vars => [Promise!Next]_Promise!vars
    BY StepKeepsPromise
  <1> QED
    BY <1>1, <1>2, IInvHolds, PTL DEF Spec, KeepsPromise, Promise!Spec

-----------------------------------------------------------------------------
(***************************************************************************)
(* The table by itself implements module PhotoRecords.  Only create and    *)
(* the write of a PATCH touch it; at the write, SnapshotsCover says that   *)
(* what the PATCH has cleared is all the row still has.                    *)
(***************************************************************************)
PhotoTable == [id \in RegIds |-> PhotosOf(id)]

LEMMA PhotosTyped ==
    ASSUME TypeOK, NEW id \in RegIds
    PROVE  /\ PhotosOf(id) \in SUBSET (Sides \X Keys)
           /\ \A s \in Sides : rows[id].key[s] = None \/ rows[id].key[s] \in Keys
  <1>1. rows[id].key \in [Sides -> Keys \cup {None}]
    BY DEF TypeOK, Row
  <1> QED
    BY <1>1 DEF PhotosOf, StoredSides

LEMMA CreateKeepsRecords ==
    ASSUME IInv, IInv', NEW g \in Guests, NEW id \in RegIds, NEW answered \in BOOLEAN,
           Create(g, id, answered)
    PROVE  Records!Submit(id)
  <1>1. /\ id \notin created /\ created' = created \cup {id}
        /\ \A i \in RegIds \ {id} : rows'[i] = rows[i]
        /\ rows'[id].deletedAt = FALSE
    BY CreateEffect DEF IInv
  <1>2. \A i \in RegIds \ {id} : PhotosOf(i)' = PhotosOf(i)
    BY <1>1 DEF PhotosOf, StoredSides
  <1> DEFINE taken == PhotosOf(id)'
  <1>3. taken \in SUBSET (Sides \X Keys)
    <2>1. rows'[id].key \in [Sides -> Keys \cup {None}]
      BY DEF IInv, TypeOK, Row
    <2> QED
      BY <2>1 DEF PhotosOf, StoredSides
  <1>4. PhotoTable' = [PhotoTable EXCEPT ![id] = taken]
    BY <1>2 DEF PhotoTable
  <1>5. Disposed' = Disposed
    BY <1>1 DEF Disposed, IInv, TypeOK
  <1> HIDE DEF taken
  <1> QED
    BY <1>1, <1>3, <1>4, <1>5 DEF Records!Submit, PhotoTable, Disposed

LEMMA WriteKeepsRecords ==
    ASSUME IInv, NEW w \in Staff, UpdateWrite(w)
    PROVE  Records!Next \/ UNCHANGED Records!vars
  <1>0. job[w].id \in RegIds
    BY DEF IInv, SnapshotsCover, UpdateWrite, TypeOK
  <1> PICK id \in RegIds : id = job[w].id
    BY <1>0
  <1>1. /\ id \in created /\ TypeOK /\ created \subseteq RegIds
        /\ \A s \in Sides : rows[id].key[s] \in {job[w].snap[s], None}
        /\ Images(job[w].snap) \subseteq submitted[id]
        /\ job[w].cleared \subseteq StoredSides(job[w].snap)
        /\ job[w].cleared # {} => job[w].cleared = StoredSides(job[w].snap)
    BY DEF IInv, SnapshotsCover, UpdateWrite, TypeOK
  <1>2. /\ \A i \in RegIds \ {id} : rows'[i] = rows[i]
        /\ \A s \in Sides : rows'[id].key[s] =
              IF s \in job[w].cleared THEN None ELSE rows[id].key[s]
        /\ rows'[id].deletedAt = (rows[id].deletedAt \/ job[w].cleared # {})
    BY <1>1, WriteEffect
  <1>3. created' = created
    BY DEF UpdateWrite
  <1>4. \A i \in RegIds \ {id} : PhotosOf(i)' = PhotosOf(i)
    BY <1>2 DEF PhotosOf, StoredSides
  <1>5. CASE job[w].cleared = {}
    <2>1. PhotosOf(id)' = PhotosOf(id)
      BY <1>2, <1>5 DEF PhotosOf, StoredSides
    <2>2. PhotoTable' = PhotoTable
      BY <1>4, <2>1 DEF PhotoTable
    <2>3. rows'[id].deletedAt <=> rows[id].deletedAt
      BY <1>2, <1>5
    <2>4. \A i \in created : rows'[i].deletedAt <=> rows[i].deletedAt
      BY <1>1, <1>2, <2>3
    <2>5. Disposed' = Disposed
      BY <1>3, <2>4 DEF Disposed
    <2> QED
      BY <1>3, <2>2, <2>5 DEF Records!vars, PhotoTable, Disposed
  <1>6. CASE job[w].cleared # {}
    <2>1. PhotosOf(id)' = {}
      BY <1>1, <1>2, <1>6 DEF PhotosOf, StoredSides
    <2>2. PhotoTable' = [PhotoTable EXCEPT ![id] = {}]
      BY <1>4, <2>1 DEF PhotoTable
    <2>3. Disposed' = Disposed \cup {id}
      <3>1. rows'[id].deletedAt
        BY <1>2, <1>6
      <3>2. \A i \in created \ {id} : rows'[i].deletedAt <=> rows[i].deletedAt
        BY <1>1, <1>2
      <3> QED
        BY <1>1, <1>3, <3>1, <3>2 DEF Disposed
    <2>4. CASE PhotosOf(id) # {}
      <3>1. Records!Delete(id)
        BY <1>1, <1>3, <2>2, <2>3, <2>4 DEF Records!Delete, PhotoTable, Disposed
      <3> QED
        BY <3>1 DEF Records!Next
    <2>5. CASE PhotosOf(id) = {}
      <3>1. submitted[id] # {}
        BY <1>1, <1>6 DEF StoredSides, Images
      <3>2. rows[id].deletedAt
        <4>1. Images(rows[id].key) = {}
          BY <2>5 DEF PhotosOf, StoredSides, Images
        <4> QED
          BY <1>1, <3>1, <4>1 DEF IInv, DisposalRecordExact
      <3>3. PhotoTable' = PhotoTable
        BY <1>4, <2>1, <2>5 DEF PhotoTable
      <3>4. Disposed' = Disposed
        BY <1>1, <2>3, <3>2 DEF Disposed
      <3> QED
        BY <1>3, <3>3, <3>4 DEF Records!vars, PhotoTable, Disposed
    <2> QED
      BY <2>4, <2>5
  <1> QED
    BY <1>5, <1>6

LEMMA StepKeepsRecords ==
    IInv /\ IInv' /\ [Next]_vars => Records!Next \/ UNCHANGED Records!vars
  <1> SUFFICES ASSUME IInv, IInv', [Next]_vars
               PROVE  Records!Next \/ UNCHANGED Records!vars
    OBVIOUS
  <1> USE DEF bucket, table, guest
  <1>1. ASSUME NEW g \in Guests, NEW id \in RegIds, NEW answered \in BOOLEAN,
               Create(g, id, answered)
        PROVE  Records!Next
    BY <1>1, CreateKeepsRecords DEF Records!Next
  <1>2. ASSUME UNCHANGED table PROVE UNCHANGED Records!vars
    BY <1>2 DEF Records!vars, PhotosOf, StoredSides
  <1> QED
    BY <1>1, <1>2, WriteKeepsRecords
       DEF Next, GuestStep, StaffStep, ViewStep, SweepStep, vars, ScanSave, ScanAnswer,
           Render, ScanLost, CloseForm, Age, UpdateRead, UpdatePurge, UpdatePurgeFails,
           UpdateAborted, GetDocumentRow, GetDocumentBytes, GetDocumentSend,
           GetDocumentFails, SweepList, SweepQuery, SweepRemove, SweepRemoveFails,
           SweepAborted

\* update, "Both sides go together": to whoever reads only the table, a review
\* takes both photos away and reports it in one step, whatever raced or failed.
THEOREM ReviewsAreAtomic == Spec => KeepsRecords
  <1>1. Init => Records!Init
    <2> SUFFICES ASSUME Init PROVE Records!Init
      OBVIOUS
    <2>1. TypeOK
      BY InitTypeOK
    <2>2. PhotoTable \in [RegIds -> SUBSET (Sides \X Keys)]
      BY <2>1, PhotosTyped DEF PhotoTable
    <2> QED
      BY <2>2 DEF Init, Records!Init, PhotoTable
  <1>2. IInv /\ IInv' /\ [Next]_vars => [Records!Next]_Records!vars
    BY StepKeepsRecords
  <1> QED
    BY <1>1, <1>2, IInvHolds, PTL DEF Spec, KeepsRecords, Records!Spec

-----------------------------------------------------------------------------
(***************************************************************************)
(* The guests implement module PhotoSlots.                                 *)
(***************************************************************************)
LEMMA NoKeysAreNoImages == Slots!NoKeys = NoImages /\ Slots!Sides = Sides
  BY DEF Slots!NoKeys, NoImages, Slots!Sides, Sides

LEMMA StepKeepsSlots ==
    TypeOK /\ [Next]_vars => Slots!Next \/ UNCHANGED Slots!vars
  <1> SUFFICES ASSUME TypeOK, [Next]_vars PROVE Slots!Next \/ UNCHANGED Slots!vars
    OBVIOUS
  <1> USE DEF bucket, table, guest
  <1>1. ASSUME NEW g \in Guests, NEW s \in Sides, NEW k \in Keys, ScanSave(g, s, k)
        PROVE  Slots!Begin(g, s, k)
    BY <1>1 DEF ScanSave, Slots!Begin
  <1>2. ASSUME NEW m \in scans, NEW detected \in Sides, ScanAnswer(m, detected)
        PROVE  Slots!Answer(m, detected)
    BY <1>2, NoKeysAreNoImages DEF ScanAnswer, Slots!Answer
  <1>3. ASSUME NEW m \in scans, ScanLost(m) PROVE Slots!Lose(m)
    BY <1>3 DEF ScanLost, Slots!Lose
  <1>4. ASSUME NEW g \in Guests, CloseForm(g) PROVE Slots!Leave(g)
    BY <1>4, NoKeysAreNoImages DEF CloseForm, Slots!Leave
  <1>5. ASSUME NEW g \in Guests, NEW id \in RegIds, NEW answered \in BOOLEAN,
               Create(g, id, answered)
        PROVE  Slots!Leave(g) \/ UNCHANGED Slots!vars
    BY <1>5, NoKeysAreNoImages DEF Create, Slots!Leave, Slots!vars
  <1>6. ASSUME UNCHANGED <<minted, guest>> PROVE UNCHANGED Slots!vars
    BY <1>6 DEF Slots!vars
  <1>7. ASSUME NEW g \in Guests, Render(g) PROVE Slots!Render(g)
    BY <1>7 DEF Render, Slots!Render
  <1> QED
    BY <1>1, <1>2, <1>3, <1>4, <1>5, <1>6, <1>7, NoKeysAreNoImages
       DEF Next, GuestStep, StaffStep, ViewStep, SweepStep, vars, Age, UpdateRead,
           UpdatePurge, UpdatePurgeFails, UpdateWrite, UpdateAborted, GetDocumentRow,
           GetDocumentBytes, GetDocumentSend, GetDocumentFails, SweepList, SweepQuery,
           SweepRemove, SweepRemoveFails, SweepAborted, Slots!Next

\* submitScan, setSide, moveSide: any number of open forms handle the keys that
\* the server hands out as module PhotoSlots says.
THEOREM GuestsKeepSlots == Spec => KeepsSlots
  <1>1. Init => Slots!Init
    BY NoKeysAreNoImages DEF Init, Slots!Init
  <1>2. TypeOK /\ [Next]_vars => [Slots!Next]_Slots!vars
    BY StepKeepsSlots
  <1> QED
    BY <1>1, <1>2, TypeCorrect, PTL DEF Spec, KeepsSlots, Slots!Spec

\* create, buildKey: no two slots, of one guest or of two, hold the same key, so
\* no guest submits another's photo, nor one photo as both sides.
THEOREM GuestsPhotosApart == Spec => []Slots!NoPhotoTwice
  BY GuestsKeepSlots, Slots!PhotosStayApart DEF KeepsSlots
=============================================================================
