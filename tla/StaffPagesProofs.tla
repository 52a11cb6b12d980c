-------------------------- MODULE StaffPagesProofs --------------------------
(***************************************************************************)
(* Proofs about module StaffPages, for any number of tabs, registrations   *)
(* and filters.                                                            *)
(***************************************************************************)
EXTENDS StaffPages, TLAPS

(***************************************************************************)
(* Types.                                                                  *)
(***************************************************************************)
LEMMA Blanks ==
  /\ NoPage \in Page /\ NoPage.id = None /\ NoPage.of = None /\ ~NoPage.edited /\ ~NoPage.loading
  /\ NoSave \in Save /\ NoSave.pc = "idle" /\ ~NoSave.here
  /\ NoList \in Dashboard /\ ~NoList.open
  /\ AnyRow \in Row
  BY PagesAssumption DEF NoPage, NoSave, NoList, AnyRow, Page, Save, Dashboard, Row, Sides, Decisions

LEMMA UpdatedType ==
  ASSUME NEW r \in Row, NEW decision \in Decisions
  PROVE  /\ Updated(r, decision) \in Row
         /\ Updated(r, decision).images \subseteq r.images
         /\ Updated(r, decision).images # r.images => decision = "delete" /\ r.images # {}
  <1> DEFINE purges == decision = "delete" /\ r.images # {}
             images == IF purges THEN {} ELSE r.images
             deleted == r.deleted \/ purges
  <1>1. Updated(r, decision) = [images |-> images, deleted |-> deleted]
    BY DEF Updated
  <1>2. deleted \in BOOLEAN /\ images \subseteq r.images /\ (images # r.images => purges)
    BY DEF Row
  <1> HIDE DEF images, deleted
  <1> QED
    BY <1>1, <1>2 DEF Row

LEMMA PreviewedSides == ASSUME NEW r \in Row PROVE Previewed(r) \subseteq Sides
  BY DEF Previewed, Row

LEMMA AskingType ==
  ASSUME NEW t \in Tabs
  PROVE  /\ \A f \in Filters : Asking(t, "list", f) \in Load
         /\ \A id \in Ids, kind \in {"record", "front", "back"} : Asking(t, kind, id) \in Load
         /\ \A kind, what : Asking(t, kind, what).tab = t /\ Asking(t, kind, what).kind = kind
                            /\ Asking(t, kind, what).what = what
  BY DEF Asking, Load

\* A page that is left behind, whatever takes its place.
LEMMA UnmountType ==
  ASSUME TypeOK, NEW t \in Tabs, Unmount(t)
  PROVE  photos' \subseteq Load /\ save' \in [Tabs -> Save]
  <1>1. [save[t] EXCEPT !.here = FALSE] \in Save
    BY DEF TypeOK, Save
  <1> QED
    BY <1>1 DEF TypeOK, Unmount, Left

LEMMA HoldsType ==
  ASSUME TypeOK, NEW t \in Tabs, NEW r \in Row, NEW landed, page[t].id \in Ids, Holds(t, r, landed)
  PROVE  photos' \subseteq Load /\ loads' \subseteq Load
  <1>1. Previewed(r) \subseteq {"front", "back"}
    BY PreviewedSides DEF Sides
  <1>2. \A s \in Previewed(r) : Asking(t, s, page[t].id) \in Load
    BY <1>1, AskingType
  <1> QED
    BY <1>2 DEF TypeOK, Holds

\* What is loaded is for the record in the address, and a tab that waits for a
\* save of its page is at a record.
Addressed ==
    /\ \A l \in loads : l.kind # "list" => page[l.tab].id = l.what /\ l.what \in Ids
    /\ \A l \in loads : l.kind = "list" => list[l.tab].filter = l.what /\ l.what \in Filters
    /\ \A t \in Tabs :
          /\ page[t].of # None => page[t].id # None
          /\ page[t].edited => page[t].of # None
          /\ save[t].here => page[t].of # None
          /\ save[t].pc # "idle" => save[t].id \in Ids /\ save[t].of \in Ids

Inv == TypeOK /\ Addressed

LEMMA InitInv == Init => Inv
  <1> SUFFICES ASSUME Init PROVE Inv
    OBVIOUS
  <1>1. \A images \in SUBSET Sides : [images |-> images, deleted |-> FALSE] \in Row
    BY DEF Row
  <1>2. TypeOK
    BY <1>1, Blanks DEF Init, TypeOK
  <1> QED
    BY <1>2, Blanks DEF Init, Inv, Addressed

LEMMA CloseInv ==
  ASSUME Inv, NEW t \in Tabs, Close(t), UNCHANGED <<rows, purged>>
  PROVE  Inv'
  <1>1. TypeOK'
    BY Blanks, UnmountType DEF Inv, TypeOK, Close
  <1>2. Addressed'
    BY Blanks DEF Inv, TypeOK, Addressed, Close, Unmount, LoadsOf, Save, Load
  <1> QED
    BY <1>1, <1>2 DEF Inv

LEMMA OpenDashboardInv ==
  ASSUME Inv, NEW t \in Tabs, OpenDashboard(t)
  PROVE  Inv'
  <1> DEFINE d == [NoList EXCEPT !.open = TRUE, !.loading = TRUE]
             a == Asking(t, "list", All)
  <1>1. d \in Dashboard /\ d.filter = All
    BY PagesAssumption DEF NoList, Dashboard
  <1>2. a \in Load /\ a.tab = t /\ a.kind = "list" /\ a.what = All /\ All \in Filters
    BY AskingType, PagesAssumption
  <1>3. /\ list' = [list EXCEPT ![t] = d] /\ page' = [page EXCEPT ![t] = NoPage]
        /\ loads' = (loads \ LoadsOf(t)) \cup {a} /\ Unmount(t) /\ UNCHANGED <<rows, purged>>
    BY DEF OpenDashboard
  <1> HIDE DEF d, a
  <1>4. TypeOK'
    BY <1>1, <1>2, <1>3, Blanks, UnmountType DEF Inv, TypeOK
  <1>5. Addressed'
    BY <1>1, <1>2, <1>3, Blanks DEF Inv, TypeOK, Addressed, Unmount, LoadsOf, Save, Load
  <1> QED
    BY <1>4, <1>5 DEF Inv

LEMMA SetFilterInv ==
  ASSUME Inv, NEW t \in Tabs, NEW f \in Filters, SetFilter(t, f)
  PROVE  Inv'
  <1> DEFINE d == [list[t] EXCEPT !.filter = f, !.loading = TRUE, !.failed = FALSE]
             a == Asking(t, "list", f)
  <1>1. d \in Dashboard /\ d.filter = f
    BY DEF Inv, TypeOK, Dashboard
  <1>2. a \in Load /\ a.tab = t /\ a.kind = "list" /\ a.what = f
    BY AskingType
  <1>3. /\ list' = [list EXCEPT ![t] = d] /\ loads' = (loads \ LoadsOf(t)) \cup {a}
        /\ UNCHANGED <<rows, page, photos, save, purged>>
    BY DEF SetFilter
  <1> HIDE DEF d, a
  <1>4. TypeOK'
    BY <1>1, <1>2, <1>3 DEF Inv, TypeOK
  <1>5. Addressed'
    BY <1>1, <1>2, <1>3 DEF Inv, TypeOK, Addressed, LoadsOf, Load
  <1> QED
    BY <1>4, <1>5 DEF Inv

LEMMA ListLandsInv ==
  ASSUME Inv, NEW l, ListAnswer(l) \/ ListFails(l)
  PROVE  Inv'
  <1>1. l \in Load /\ l.tab \in Tabs /\ l.what \in Filters
    BY DEF Inv, TypeOK, Addressed, ListAnswer, ListFails, Load
  <1>2. PICK d \in Dashboard : list' = [list EXCEPT ![l.tab] = d] /\ d.filter = list[l.tab].filter
    <2> DEFINE d1 == [list[l.tab] EXCEPT !.shown = l.what, !.loading = FALSE]
               d2 == [list[l.tab] EXCEPT !.failed = TRUE, !.loading = FALSE]
    <2>1. /\ d1 \in Dashboard /\ d1.filter = list[l.tab].filter
          /\ d2 \in Dashboard /\ d2.filter = list[l.tab].filter
      BY <1>1 DEF Inv, TypeOK, Dashboard
    <2>2. list' = [list EXCEPT ![l.tab] = d1] \/ list' = [list EXCEPT ![l.tab] = d2]
      BY DEF ListAnswer, ListFails
    <2> HIDE DEF d1, d2
    <2> QED
      BY <2>1, <2>2
  <1>3. loads' = loads \ {l} /\ UNCHANGED <<rows, page, photos, save, purged>>
    BY DEF ListAnswer, ListFails
  <1> QED
    BY <1>1, <1>2, <1>3 DEF Inv, TypeOK, Addressed, Load

LEMMA OpenRecordInv ==
  ASSUME Inv, NEW t \in Tabs, NEW id \in Ids, OpenRecord(t, id)
  PROVE  Inv'
  <1> DEFINE p == [NoPage EXCEPT !.id = id, !.loading = TRUE]
             a == Asking(t, "record", id)
  <1>1. p \in Page /\ p.id = id /\ p.of = None /\ ~p.edited /\ id # None
    BY Blanks, PagesAssumption DEF Page
  <1>2. a \in Load /\ a.tab = t /\ a.kind = "record" /\ a.what = id
    BY AskingType
  <1>3. /\ list' = [list EXCEPT ![t] = NoList] /\ page' = [page EXCEPT ![t] = p]
        /\ loads' = (loads \ LoadsOf(t)) \cup {a} /\ Unmount(t) /\ UNCHANGED <<rows, purged>>
    BY DEF OpenRecord
  <1> HIDE DEF p, a
  <1>4. TypeOK'
    BY <1>1, <1>2, <1>3, Blanks, UnmountType DEF Inv, TypeOK
  <1>5. Addressed'
    BY <1>1, <1>2, <1>3, Blanks DEF Inv, TypeOK, Addressed, Unmount, LoadsOf, Save, Load
  <1> QED
    BY <1>4, <1>5 DEF Inv

LEMMA JumpInv ==
  ASSUME Inv, NEW t \in Tabs, NEW id \in Ids, Jump(t, id)
  PROVE  Inv'
  <1> DEFINE p == [page[t] EXCEPT !.id = id]
             images == {Asking(t, s, id) : s \in IF page[t].of = None THEN {} ELSE Previewed(page[t].record)}
             asked == images \cup {Asking(t, "record", id)}
  <1>1. p \in Page /\ p.id = id /\ p.of = page[t].of /\ p.edited = page[t].edited /\ id # None
    BY PagesAssumption DEF Inv, TypeOK, Page
  <1>2. page[t].record \in Row
    BY DEF Inv, TypeOK, Page
  <1>3. \A a \in asked : a \in Load /\ a.tab = t /\ a.kind # "list" /\ a.what = id
    BY <1>2, AskingType, PreviewedSides DEF Sides
  <1>4. /\ page' = [page EXCEPT ![t] = p] /\ loads' = (loads \ LoadsOf(t)) \cup asked
        /\ photos' \subseteq photos /\ UNCHANGED <<rows, list, save, purged>>
    BY DEF Jump, Left
  <1> HIDE DEF p, asked
  <1>5. TypeOK'
    BY <1>1, <1>3, <1>4 DEF Inv, TypeOK
  <1>6. Addressed'
    BY <1>1, <1>3, <1>4 DEF Inv, TypeOK, Addressed, LoadsOf, Load
  <1> QED
    BY <1>5, <1>6 DEF Inv

\* The loads that a page's new record leaves are for the address.
LEMMA HoldsAddressed ==
  ASSUME Inv, NEW t \in Tabs, NEW r \in Row, NEW landed, page[t].id \in Ids, Holds(t, r, landed)
  PROVE  \A l \in loads' : l \in loads \/ (l.tab = t /\ l.kind \in Sides /\ l.what = page[t].id)
  BY PreviewedSides, AskingType DEF Holds

LEMMA RecordAnswerInv ==
  ASSUME Inv, NEW l, RecordAnswer(l)
  PROVE  Inv'
  <1> DEFINE t == l.tab
             r == rows[l.what]
             p == [page[t] EXCEPT !.of = l.what, !.record = r, !.edited = FALSE, !.loading = FALSE]
  <1>1. l \in Load /\ t \in Tabs /\ l.what \in Ids /\ page[t].id = l.what /\ l.what # None
    BY PagesAssumption DEF Inv, TypeOK, Addressed, RecordAnswer, Load
  <1>2. r \in Row
    BY <1>1 DEF Inv, TypeOK
  <1>3. Holds(t, r, {l}) /\ page' = [page EXCEPT ![t] = p] /\ UNCHANGED <<rows, list, save, purged>>
    BY DEF RecordAnswer
  <1> HIDE DEF r
  <1>4. p \in Page /\ p.id = page[t].id /\ p.of # None /\ ~p.edited
    BY <1>1, <1>2 DEF Inv, TypeOK, Page
  <1> HIDE DEF p
  <1>5. photos' \subseteq Load /\ loads' \subseteq Load
    BY <1>1, <1>2, <1>3, HoldsType DEF Inv
  <1>6. \A k \in loads' : k \in loads \/ (k.tab = t /\ k.kind \in Sides /\ k.what = page[t].id)
    BY <1>1, <1>2, <1>3, HoldsAddressed DEF Inv
  <1>7. TypeOK'
    BY <1>3, <1>4, <1>5 DEF Inv, TypeOK
  <1>8. Addressed'
    BY <1>1, <1>3, <1>4, <1>5, <1>6 DEF Inv, TypeOK, Addressed, Load, Sides
  <1> QED
    BY <1>7, <1>8 DEF Inv

LEMMA LoadLandsInv ==
  ASSUME Inv, NEW l, RecordFails(l) \/ ImageAnswer(l) \/ ImageFails(l)
  PROVE  Inv'
  <1>1. l \in Load /\ l.tab \in Tabs
    BY DEF Inv, TypeOK, Load, RecordFails, ImageAnswer, ImageFails
  <1> DEFINE p == [page[l.tab] EXCEPT !.loading = FALSE]
  <1>2. /\ p \in Page /\ p.id = page[l.tab].id /\ p.of = page[l.tab].of /\ p.edited = page[l.tab].edited
    BY <1>1 DEF Inv, TypeOK, Page
  <1>3. page' = [page EXCEPT ![l.tab] = p] \/ page' = page
    BY DEF RecordFails, ImageAnswer, ImageFails
  <1> HIDE DEF p
  <1>4. /\ loads' = loads \ {l} /\ photos' \subseteq photos \cup {l}
        /\ UNCHANGED <<rows, list, save, purged>>
    BY DEF RecordFails, ImageAnswer, ImageFails
  <1>5. TypeOK'
    BY <1>1, <1>2, <1>3, <1>4 DEF Inv, TypeOK
  <1>6. Addressed'
    BY <1>1, <1>2, <1>3, <1>4 DEF Inv, TypeOK, Addressed, Load
  <1> QED
    BY <1>5, <1>6 DEF Inv

LEMMA EditInv ==
  ASSUME Inv, NEW t \in Tabs, Edit(t)
  PROVE  Inv'
  <1> DEFINE p == [page[t] EXCEPT !.edited = TRUE]
  <1>1. p \in Page /\ p.id = page[t].id /\ p.of = page[t].of /\ page[t].of # None
    BY DEF Inv, TypeOK, Page, Edit, Ready
  <1>2. page' = [page EXCEPT ![t] = p] /\ UNCHANGED <<rows, list, photos, loads, save, purged>>
    BY DEF Edit
  <1> HIDE DEF p
  <1>3. TypeOK'
    BY <1>1, <1>2 DEF Inv, TypeOK
  <1>4. Addressed'
    BY <1>1, <1>2 DEF Inv, TypeOK, Addressed, Load
  <1> QED
    BY <1>3, <1>4 DEF Inv

LEMMA SendInv ==
  ASSUME Inv, NEW t \in Tabs, NEW decision \in Decisions, Send(t, decision)
  PROVE  Inv'
  <1> DEFINE p == [page[t] EXCEPT !.saving = TRUE, !.edited = FALSE]
             confirmed == Asks(decision, page[t].record)
             s == [pc |-> "sent", id |-> page[t].id, of |-> page[t].of, decide |-> decision,
                   confirmed |-> confirmed, here |-> TRUE, answer |-> AnyRow]
  <1>1. page[t] \in Page /\ page[t].of \in Ids /\ page[t].id \in Ids
    BY DEF Inv, TypeOK, Addressed, Page, Send, Ready
  <1>2. p \in Page /\ p.id = page[t].id /\ p.of = page[t].of /\ ~p.edited
    BY <1>1 DEF Page
  <1>3. confirmed \in BOOLEAN
    BY DEF Asks
  <1>4. /\ page' = [page EXCEPT ![t] = p] /\ save' = [save EXCEPT ![t] = s]
        /\ UNCHANGED <<rows, list, photos, loads, purged>>
    BY DEF Send
  <1> HIDE DEF p, confirmed
  <1>5. s \in Save
    BY <1>1, <1>3, Blanks DEF Save
  <1>6. TypeOK'
    BY <1>2, <1>4, <1>5 DEF Inv, TypeOK
  <1>7. Addressed'
    BY <1>1, <1>2, <1>4, PagesAssumption DEF Inv, TypeOK, Addressed, Load
  <1> QED
    BY <1>6, <1>7 DEF Inv

LEMMA UpdateInv ==
  ASSUME Inv, NEW t \in Tabs, Update(t)
  PROVE  Inv'
  <1> DEFINE id == save[t].id
             new == Updated(rows[id], save[t].decide)
             s == [save[t] EXCEPT !.pc = "written", !.answer = new]
  <1>1. save[t] \in Save /\ id \in Ids /\ rows[id] \in Row /\ save[t].decide \in Decisions
    BY DEF Inv, TypeOK, Addressed, Update, Save
  <1>2. new \in Row
    BY <1>1, UpdatedType
  <1>3. rows' = [rows EXCEPT ![id] = new] /\ save' = [save EXCEPT ![t] = s]
        /\ UNCHANGED <<list, page, photos, loads>>
    BY DEF Update
  <1>4. purged' \in {"never", "confirmed", "elsewhere", "unasked"}
    BY DEF Update, Inv, TypeOK
  <1> HIDE DEF new
  <1>5. s \in Save /\ s.id = id /\ s.of = save[t].of /\ s.here = save[t].here
    BY <1>1, <1>2 DEF Save
  <1>6. save[t].pc # "idle"
    BY DEF Update
  <1> HIDE DEF s
  <1>7. TypeOK'
    BY <1>1, <1>2, <1>3, <1>4, <1>5 DEF Inv, TypeOK
  <1>8. \A u \in Tabs : /\ save'[u].id = save[u].id /\ save'[u].of = save[u].of
                        /\ save'[u].here = save[u].here
                        /\ save'[u].pc # "idle" => save[u].pc # "idle"
    BY <1>3, <1>5, <1>6 DEF Inv, TypeOK
  <1>9. Addressed'
    BY <1>3, <1>8 DEF Inv, Addressed
  <1> QED
    BY <1>7, <1>9 DEF Inv

LEMMA ColleagueInv ==
  ASSUME Inv, NEW id \in Ids, NEW decision \in Decisions, Colleague(id, decision)
  PROVE  Inv'
  <1>1. Updated(rows[id], decision) \in Row
    BY UpdatedType DEF Inv, TypeOK
  <1> QED
    BY <1>1 DEF Inv, TypeOK, Addressed, Colleague

LEMMA RefuseInv ==
  ASSUME Inv, NEW t \in Tabs, Refuse(t)
  PROVE  Inv'
  <1> DEFINE s == [save[t] EXCEPT !.pc = "refused"]
  <1>1. s \in Save /\ s.id = save[t].id /\ s.of = save[t].of /\ s.here = save[t].here /\ save[t].pc # "idle"
    BY DEF Inv, TypeOK, Save, Refuse
  <1>2. save' = [save EXCEPT ![t] = s] /\ UNCHANGED <<rows, list, page, photos, loads, purged>>
    BY DEF Refuse
  <1> HIDE DEF s
  <1> QED
    BY <1>1, <1>2 DEF Inv, TypeOK, Addressed

LEMMA SaveAnswerInv ==
  ASSUME Inv, NEW t \in Tabs, SaveAnswer(t)
  PROVE  Inv'
  <1> DEFINE r == save[t].answer
             p == [page[t] EXCEPT !.of = save[t].id, !.record = r, !.edited = FALSE, !.saving = FALSE]
  <1>1. r \in Row /\ save[t].id \in Ids /\ save[t].id # None
    BY PagesAssumption DEF Inv, TypeOK, Addressed, Save, SaveAnswer
  <1>2. save' = [save EXCEPT ![t] = NoSave] /\ UNCHANGED <<rows, list, purged>>
    BY DEF SaveAnswer
  <1>3. CASE save[t].here
    <2>1. page[t] \in Page /\ page[t].id \in Ids
      BY <1>3 DEF Inv, TypeOK, Addressed, Page
    <2>2. Holds(t, r, {}) /\ page' = [page EXCEPT ![t] = p]
      BY <1>3 DEF SaveAnswer
    <2> HIDE DEF r
    <2>3. p \in Page /\ p.id = page[t].id /\ p.of # None /\ ~p.edited
      BY <1>1, <2>1 DEF Page
    <2> HIDE DEF p
    <2>4. photos' \subseteq Load /\ loads' \subseteq Load
      BY <1>1, <2>1, <2>2, HoldsType DEF Inv
    <2>5. \A k \in loads' : k \in loads \/ (k.tab = t /\ k.kind \in Sides /\ k.what = page[t].id)
      BY <1>1, <2>1, <2>2, HoldsAddressed
    <2>6. TypeOK'
      BY <1>2, <2>2, <2>3, <2>4, Blanks DEF Inv, TypeOK
    <2>7. \A u \in Tabs : page'[u].id = page[u].id
      BY <2>2, <2>3 DEF Inv, TypeOK
    <2>8. \A k \in loads' : /\ k.kind # "list" => page[k.tab].id = k.what /\ k.what \in Ids
                            /\ k.kind = "list" => list[k.tab].filter = k.what /\ k.what \in Filters
      BY <2>1, <2>5 DEF Inv, Addressed, Sides
    <2>9. \A k \in loads' : k.tab \in Tabs
      BY <2>4 DEF Load
    <2>10. \A u \in Tabs : /\ page'[u].of # None => page'[u].id # None
                           /\ page'[u].edited => page'[u].of # None
                           /\ save'[u].here => page'[u].of # None
                           /\ save'[u].pc # "idle" => save'[u].id \in Ids /\ save'[u].of \in Ids
      BY <1>2, <2>1, <2>2, <2>3, Blanks, PagesAssumption DEF Inv, TypeOK, Addressed
    <2>11. Addressed'
      BY <1>2, <2>7, <2>8, <2>9, <2>10 DEF Addressed
    <2> QED
      BY <2>6, <2>11 DEF Inv
  <1>4. CASE ~save[t].here
    <2>1. UNCHANGED <<page, photos, loads>>
      BY <1>4 DEF SaveAnswer
    <2> QED
      BY <1>2, <2>1, Blanks DEF Inv, TypeOK, Addressed
  <1> QED
    BY <1>3, <1>4

LEMMA SaveFailsInv ==
  ASSUME Inv, NEW t \in Tabs, SaveFails(t)
  PROVE  Inv'
  <1> DEFINE p == [page[t] EXCEPT !.saving = FALSE]
  <1>1. p \in Page /\ p.id = page[t].id /\ p.of = page[t].of /\ p.edited = page[t].edited
    BY DEF Inv, TypeOK, Page
  <1>2. page' = [page EXCEPT ![t] = p] \/ page' = page
    BY DEF SaveFails
  <1>3. save' = [save EXCEPT ![t] = NoSave] /\ UNCHANGED <<rows, list, photos, loads, purged>>
    BY DEF SaveFails
  <1> HIDE DEF p
  <1>4. TypeOK'
    BY <1>1, <1>2, <1>3, Blanks DEF Inv, TypeOK
  <1>5. Addressed'
    BY <1>1, <1>2, <1>3, Blanks DEF Inv, TypeOK, Addressed, Load
  <1> QED
    BY <1>4, <1>5 DEF Inv

LEMMA SaveUnauthorizedInv ==
  ASSUME Inv, NEW t \in Tabs, SaveUnauthorized(t)
  PROVE  Inv'
  <1>1. TypeOK'
    BY Blanks DEF Inv, TypeOK, SaveUnauthorized, Left
  <1>2. Addressed'
    BY Blanks DEF Inv, TypeOK, Addressed, SaveUnauthorized, LoadsOf, Load
  <1> QED
    BY <1>1, <1>2 DEF Inv

\* One step per action.
LEMMA InvStep == Inv /\ [Next]_vars => Inv'
  <1> SUFFICES ASSUME Inv, [Next]_vars PROVE Inv'
    OBVIOUS
  <1>1. ASSUME NEW t \in Tabs, Navigates(t) PROVE Inv'
    BY <1>1, CloseInv, OpenDashboardInv, SetFilterInv, OpenRecordInv, JumpInv DEF Navigates, Leave
  <1>2. ASSUME NEW t \in Tabs, Edits(t) PROVE Inv'
    BY <1>2, EditInv, SendInv DEF Edits
  <1>3. ASSUME NEW t \in Tabs, Update(t) \/ Refuse(t) \/ Saves(t) PROVE Inv'
    BY <1>3, UpdateInv, RefuseInv, SaveAnswerInv, SaveFailsInv DEF Saves
  <1>4. ASSUME NEW t \in Tabs, Unauthorized(t) \/ SaveUnauthorized(t) PROVE Inv'
    BY <1>4, CloseInv, SaveUnauthorizedInv DEF Unauthorized
  <1>5. ASSUME NEW l \in loads, Loads(l) PROVE Inv'
    BY <1>5, ListLandsInv, RecordAnswerInv, LoadLandsInv DEF Loads
  <1>6. ASSUME NEW id \in Ids, NEW decision \in Decisions, Colleague(id, decision) PROVE Inv'
    BY <1>6, ColleagueInv
  <1>7. CASE UNCHANGED vars
    BY <1>7 DEF vars, Inv, TypeOK, Addressed
  <1> QED
    BY <1>1, <1>2, <1>3, <1>4, <1>5, <1>6, <1>7 DEF Next

\* The invariant the theorems below rest on.
THEOREM InvAlways == Spec => []Inv
  BY InitInv, InvStep, PTL DEF Spec

\* Every reachable state of the dashboard and the detail page is well typed, in
\* any number of tabs.
THEOREM TypeCorrect == Spec => []TypeOK
  <1>1. Inv => TypeOK
    BY DEF Inv
  <1> QED
    BY <1>1, InvAlways, PTL

(***************************************************************************)
(* The dashboard.  A list in flight, or the one on screen, is for the      *)
(* filter that is set.                                                     *)
(***************************************************************************)
LEMMA ListStep == Inv /\ ShowsWhatWasAsked /\ [Next]_vars => ShowsWhatWasAsked'
  <1> SUFFICES ASSUME Inv, ShowsWhatWasAsked, [Next]_vars PROVE ShowsWhatWasAsked'
    OBVIOUS
  <1> USE DEF Inv, TypeOK, ShowsWhatWasAsked
  <1>1. ASSUME NEW t \in Tabs, Navigates(t) PROVE ShowsWhatWasAsked'
    <2>1. CASE Leave(t)
      BY <2>1, Blanks DEF Leave, Close
    <2>2. CASE OpenDashboard(t)
      BY <2>2 DEF OpenDashboard, NoList
    <2>3. ASSUME NEW f \in Filters, SetFilter(t, f) PROVE ShowsWhatWasAsked'
      BY <2>3 DEF SetFilter, Dashboard
    <2>4. ASSUME NEW id \in Ids, OpenRecord(t, id) PROVE ShowsWhatWasAsked'
      BY <2>4, Blanks DEF OpenRecord
    <2>5. ASSUME NEW id \in Ids, Jump(t, id) PROVE ShowsWhatWasAsked'
      BY <2>5 DEF Jump
    <2> QED
      BY <1>1, <2>1, <2>2, <2>3, <2>4, <2>5 DEF Navigates
  <1>2. ASSUME NEW t \in Tabs, Edits(t) PROVE ShowsWhatWasAsked'
    BY <1>2 DEF Edits, Edit, Send
  <1>3. ASSUME NEW t \in Tabs, Update(t) \/ Refuse(t) \/ Saves(t) PROVE ShowsWhatWasAsked'
    BY <1>3 DEF Update, Refuse, Saves, SaveAnswer, SaveFails
  <1>4. ASSUME NEW t \in Tabs, Unauthorized(t) \/ SaveUnauthorized(t) PROVE ShowsWhatWasAsked'
    BY <1>4 DEF Unauthorized, SaveUnauthorized, Close, NoList
  <1>5. ASSUME NEW l \in loads, Loads(l) PROVE ShowsWhatWasAsked'
    <2>1. CASE ListAnswer(l)
      BY <2>1 DEF ListAnswer, Addressed, Dashboard, Load
    <2>2. CASE ListFails(l)
      BY <2>2 DEF ListFails, Dashboard
    <2>3. CASE RecordAnswer(l) \/ RecordFails(l) \/ ImageAnswer(l) \/ ImageFails(l)
      BY <2>3 DEF RecordAnswer, RecordFails, ImageAnswer, ImageFails
    <2> QED
      BY <1>5, <2>1, <2>2, <2>3 DEF Loads
  <1>6. ASSUME NEW id \in Ids, NEW decision \in Decisions, Colleague(id, decision) PROVE ShowsWhatWasAsked'
    BY <1>6 DEF Colleague
  <1>7. CASE UNCHANGED vars
    BY <1>7 DEF vars
  <1> QED
    BY <1>1, <1>2, <1>3, <1>4, <1>5, <1>6, <1>7 DEF Next

\* However filters are changed while answers are on their way, a dashboard that
\* is not loading shows the answer to the filter it shows (Dashboard's effect).
THEOREM ListsAreTheAsked == Spec => []ShowsWhatWasAsked
  <1>1. Init => ShowsWhatWasAsked
    BY DEF Init, ShowsWhatWasAsked, NoList
  <1> QED
    BY <1>1, ListStep, InvAlways, PTL DEF Spec

(***************************************************************************)
(* Edits.                                                                  *)
(***************************************************************************)
EditsKept ==
    \A t \in Tabs :
        page[t].edited /\ ~page'[t].edited =>
            \/ page'[t].id = None \/ page'[t].saving
            \/ save[t].pc = "written" \/ page'[t].of = page'[t].id

LEMMA EditsStep == Inv /\ [Next]_vars => EditsKept
  <1> SUFFICES ASSUME Inv, [Next]_vars PROVE EditsKept
    OBVIOUS
  <1> USE DEF Inv, TypeOK, EditsKept, Page
  <1>1. ASSUME NEW t \in Tabs, Navigates(t) PROVE EditsKept
    <2>1. CASE Leave(t) \/ OpenDashboard(t)
      BY <2>1 DEF Leave, Close, OpenDashboard, NoPage
    <2>2. ASSUME NEW f \in Filters, SetFilter(t, f) PROVE EditsKept
      BY <2>2 DEF SetFilter
    <2>3. ASSUME NEW id \in Ids, OpenRecord(t, id) PROVE EditsKept
      BY <2>3 DEF OpenRecord, Addressed
    <2>4. ASSUME NEW id \in Ids, Jump(t, id) PROVE EditsKept
      BY <2>4 DEF Jump
    <2> QED
      BY <1>1, <2>1, <2>2, <2>3, <2>4 DEF Navigates
  <1>2. ASSUME NEW t \in Tabs, Edits(t) PROVE EditsKept
    <2>1. CASE Edit(t)
      BY <2>1 DEF Edit
    <2>2. ASSUME NEW decision \in Decisions, Send(t, decision) PROVE EditsKept
      <3>1. page' = [page EXCEPT ![t] = [@ EXCEPT !.saving = TRUE, !.edited = FALSE]]
        BY <2>2 DEF Send
      <3> QED
        BY <3>1
    <2> QED
      BY <1>2, <2>1, <2>2 DEF Edits
  <1>3. ASSUME NEW t \in Tabs, Update(t) \/ Refuse(t) \/ Saves(t) PROVE EditsKept
    BY <1>3 DEF Update, Refuse, Saves, SaveAnswer, SaveFails
  <1>4. ASSUME NEW t \in Tabs, Unauthorized(t) \/ SaveUnauthorized(t) PROVE EditsKept
    BY <1>4 DEF Unauthorized, SaveUnauthorized, Close, NoPage
  <1>5. ASSUME NEW l \in loads, Loads(l) PROVE EditsKept
    <2>1. CASE RecordAnswer(l)
      BY <2>1 DEF RecordAnswer, Addressed, Load
    <2>2. CASE RecordFails(l)
      BY <2>2 DEF RecordFails
    <2>3. CASE ListAnswer(l) \/ ListFails(l) \/ ImageAnswer(l) \/ ImageFails(l)
      BY <2>3 DEF ListAnswer, ListFails, ImageAnswer, ImageFails
    <2> QED
      BY <1>5, <2>1, <2>2, <2>3 DEF Loads
  <1>6. ASSUME NEW id \in Ids, NEW decision \in Decisions, Colleague(id, decision) PROVE EditsKept
    BY <1>6 DEF Colleague
  <1>7. CASE UNCHANGED vars
    BY <1>7 DEF vars
  <1> QED
    BY <1>1, <1>2, <1>3, <1>4, <1>5, <1>6, <1>7 DEF Next

\* No superseded load reaches a form, whatever order answers come in and
\* however the history jumps (RegistrationDetail's load effect).
THEOREM EditsAreOutlived == Spec => EditsOutliveLoads
  BY EditsStep, InvAlways, PTL DEF Spec, EditsOutliveLoads, EditsKept

(***************************************************************************)
(* Photos.  Those held, and those on their way, are of sides the page      *)
(* previews.                                                               *)
(***************************************************************************)
Shows(t, kind) == page[t].of # None /\ kind \in Previewed(page[t].record)

PhotosInv ==
    /\ PhotosReleased
    /\ \A l \in loads : l.kind \in Sides => Shows(l.tab, l.kind)

\* A page keeps what it has of its record and its address, or has no photos.
LEMMA PhotosKept ==
  ASSUME Inv, PhotosInv,
         photos' \subseteq photos,
         \A l \in loads' : l \in loads \/ l.kind \notin Sides,
         \A t \in Tabs : \/ page'[t].id = page[t].id /\ page'[t].of = page[t].of /\ page'[t].record = page[t].record
                         \/ photos' \cap PhotosOf(t) = {} /\ \A l \in loads' : l.tab = t => l.kind \notin Sides
  PROVE  PhotosInv'
  <1>1. \A p \in photos : p.tab \in Tabs
    BY DEF Inv, TypeOK, Load
  <1>2. \A l \in loads : l.tab \in Tabs
    BY DEF Inv, TypeOK, Load
  <1>3. PhotosReleased'
    BY <1>1 DEF PhotosInv, PhotosReleased, PhotosOf
  <1>4. (\A l \in loads : l.kind \in Sides => Shows(l.tab, l.kind))'
    BY <1>2 DEF PhotosInv, Shows
  <1> QED
    BY <1>3, <1>4 DEF PhotosInv

\* A page that is left behind.
LEMMA LeavingPhotos ==
  ASSUME Inv, PhotosInv, NEW t \in Tabs, Left(t),
         \A u \in Tabs \ {t} : page'[u] = page[u],
         \A l \in loads' : l \in loads \ LoadsOf(t) \/ l.kind \notin Sides
  PROVE  PhotosInv'
  BY PhotosKept DEF Left, PhotosOf, LoadsOf

LEMMA HoldsPhotos ==
  ASSUME Inv, PhotosInv, NEW t \in Tabs, NEW r \in Row, NEW landed, Holds(t, r, landed),
         NEW new, new.id = page[t].id, new.of # None, new.record = r,
         page' = [page EXCEPT ![t] = new]
  PROVE  PhotosInv'
  <1>1. \A p \in photos' : p \in photos /\ (p.tab = t => p.kind \in Previewed(r))
    BY DEF Holds, PhotosOf
  <1>2. \A l \in loads' : \/ l \in loads /\ (l.tab = t /\ l.kind \in Sides => l.kind \in Previewed(r))
                          \/ l.tab = t /\ l.kind \in Previewed(r)
    BY AskingType, PreviewedSides DEF Holds, LoadsOf
  <1>3. \A x \in photos \cup loads : x.tab \in Tabs
    BY DEF Inv, TypeOK, Load
  <1>4. \A u \in Tabs : page'[u] = IF u = t THEN new ELSE page[u]
    BY DEF Inv, TypeOK
  <1>5. PhotosReleased'
    BY <1>1, <1>3, <1>4 DEF PhotosInv, PhotosReleased
  <1>6. (\A l \in loads : l.kind \in Sides => Shows(l.tab, l.kind))'
    BY <1>2, <1>3, <1>4 DEF PhotosInv, Shows
  <1> QED
    BY <1>5, <1>6 DEF PhotosInv

LEMMA PhotosStep == Inv /\ PhotosInv /\ [Next]_vars => PhotosInv'
  <1> SUFFICES ASSUME Inv, PhotosInv, [Next]_vars PROVE PhotosInv'
    OBVIOUS
  <1>0. Sides = {"front", "back"}
    BY DEF Sides
  <1>1. ASSUME NEW t \in Tabs, Navigates(t) PROVE PhotosInv'
    <2>1. CASE Leave(t)
      BY <2>1, LeavingPhotos DEF Leave, Close, Unmount, Inv, TypeOK
    <2>2. CASE OpenDashboard(t)
      <3>1. Asking(t, "list", All).kind \notin Sides
        BY <1>0, AskingType
      <3>2. /\ Left(t) /\ page' = [page EXCEPT ![t] = NoPage]
            /\ loads' = (loads \ LoadsOf(t)) \cup {Asking(t, "list", All)}
        BY <2>2 DEF OpenDashboard, Unmount
      <3> QED
        BY <3>1, <3>2, LeavingPhotos DEF Inv, TypeOK
    <2>3. ASSUME NEW f \in Filters, SetFilter(t, f) PROVE PhotosInv'
      BY <1>0, <2>3, PhotosKept, AskingType DEF SetFilter, LoadsOf
    <2>4. ASSUME NEW id \in Ids, OpenRecord(t, id) PROVE PhotosInv'
      BY <1>0, <2>4, LeavingPhotos, AskingType DEF OpenRecord, Unmount, Inv, TypeOK
    <2>5. ASSUME NEW id \in Ids, Jump(t, id) PROVE PhotosInv'
      <3> DEFINE new == [page[t] EXCEPT !.id = id]
      <3>1. new.of = page[t].of /\ new.record = page[t].record
        BY DEF Inv, TypeOK, Page
      <3>2. /\ page' = [page EXCEPT ![t] = new] /\ photos' = photos \ PhotosOf(t)
            /\ loads' = (loads \ LoadsOf(t)) \cup {Asking(t, "record", id)}
                    \cup {Asking(t, s, id) : s \in IF page[t].of = None THEN {} ELSE Previewed(page[t].record)}
        BY <2>5 DEF Jump, Left
      <3> HIDE DEF new
      <3>3. \A u \in Tabs : page'[u].of = page[u].of /\ page'[u].record = page[u].record
                            /\ (u # t => page'[u] = page[u])
        BY <3>1, <3>2 DEF Inv, TypeOK
      <3>4. \A l \in loads' : \/ l \in loads
                              \/ l.tab = t /\ (l.kind \in Sides => page[t].of # None /\ l.kind \in Previewed(page[t].record))
        BY <1>0, <3>2, AskingType
      <3>5. \A x \in photos \cup loads : x.tab \in Tabs
        BY DEF Inv, TypeOK, Load
      <3>6. PhotosReleased'
        BY <3>2, <3>3, <3>5 DEF PhotosInv, PhotosReleased, PhotosOf
      <3>7. (\A l \in loads : l.kind \in Sides => Shows(l.tab, l.kind))'
        BY <3>3, <3>4, <3>5 DEF PhotosInv, Shows
      <3> QED
        BY <3>6, <3>7 DEF PhotosInv
    <2> QED
      BY <1>1, <2>1, <2>2, <2>3, <2>4, <2>5 DEF Navigates
  <1>2. ASSUME NEW t \in Tabs, Edits(t) PROVE PhotosInv'
    <2>1. PICK new \in Page : /\ page' = [page EXCEPT ![t] = new] /\ new.id = page[t].id
                              /\ new.of = page[t].of /\ new.record = page[t].record
      <3> DEFINE p1 == [page[t] EXCEPT !.edited = TRUE]
                 p2 == [page[t] EXCEPT !.saving = TRUE, !.edited = FALSE]
      <3>1. /\ p1 \in Page /\ p1.id = page[t].id /\ p1.of = page[t].of /\ p1.record = page[t].record
            /\ p2 \in Page /\ p2.id = page[t].id /\ p2.of = page[t].of /\ p2.record = page[t].record
        BY DEF Inv, TypeOK, Page
      <3>2. page' = [page EXCEPT ![t] = p1] \/ page' = [page EXCEPT ![t] = p2]
        BY <1>2 DEF Edits, Edit, Send
      <3> HIDE DEF p1, p2
      <3> QED
        BY <3>1, <3>2
    <2>2. UNCHANGED <<photos, loads>>
      BY <1>2 DEF Edits, Edit, Send
    <2> QED
      BY <2>1, <2>2, PhotosKept DEF Inv, TypeOK
  <1>3. ASSUME NEW t \in Tabs, Update(t) \/ Refuse(t) PROVE PhotosInv'
    BY <1>3, PhotosKept DEF Update, Refuse
  <1>4. ASSUME NEW t \in Tabs, SaveAnswer(t) PROVE PhotosInv'
    <2>1. CASE ~save[t].here
      BY <1>4, <2>1, PhotosKept DEF SaveAnswer
    <2>2. CASE save[t].here
      <3> DEFINE r == save[t].answer
                 new == [page[t] EXCEPT !.of = save[t].id, !.record = r, !.edited = FALSE, !.saving = FALSE]
      <3>1. r \in Row /\ save[t].id # None
        BY <1>4, PagesAssumption DEF Inv, TypeOK, Addressed, Save, SaveAnswer
      <3>2. Holds(t, r, {}) /\ page' = [page EXCEPT ![t] = new]
        BY <1>4, <2>2 DEF SaveAnswer
      <3> HIDE DEF r
      <3>3. new.id = page[t].id /\ new.of # None /\ new.record = r
        BY <3>1 DEF Inv, TypeOK, Page
      <3> HIDE DEF new
      <3> QED
        BY <3>1, <3>2, <3>3, HoldsPhotos
    <2> QED
      BY <2>1, <2>2
  <1>5. ASSUME NEW t \in Tabs, SaveFails(t) PROVE PhotosInv'
    BY <1>5, PhotosKept DEF SaveFails, Inv, TypeOK, Page
  <1>6. ASSUME NEW t \in Tabs, Unauthorized(t) \/ SaveUnauthorized(t) PROVE PhotosInv'
    BY <1>6, LeavingPhotos DEF Unauthorized, SaveUnauthorized, Close, Unmount, Inv, TypeOK
  <1>7. ASSUME NEW l \in loads, Loads(l) PROVE PhotosInv'
    <2>1. CASE ListAnswer(l) \/ ListFails(l) \/ ImageFails(l)
      BY <2>1, PhotosKept DEF ListAnswer, ListFails, ImageFails
    <2>2. CASE RecordAnswer(l)
      <3> DEFINE t == l.tab
                 r == rows[l.what]
                 new == [page[t] EXCEPT !.of = l.what, !.record = r, !.edited = FALSE, !.loading = FALSE]
      <3>1. t \in Tabs /\ r \in Row /\ l.what # None
        BY <2>2, PagesAssumption DEF Inv, TypeOK, Addressed, RecordAnswer, Load
      <3>2. Holds(t, r, {l}) /\ page' = [page EXCEPT ![t] = new]
        BY <2>2 DEF RecordAnswer
      <3> HIDE DEF r
      <3>3. new.id = page[t].id /\ new.of # None /\ new.record = r
        BY <3>1 DEF Inv, TypeOK, Page
      <3> HIDE DEF new, t
      <3> QED
        BY <3>1, <3>2, <3>3, HoldsPhotos
    <2>3. CASE RecordFails(l)
      BY <2>3, PhotosKept DEF RecordFails, Inv, TypeOK, Page
    <2>4. CASE ImageAnswer(l)
      BY <1>0, <2>4 DEF ImageAnswer, PhotosInv, PhotosReleased, Shows, Inv, Addressed
    <2> QED
      BY <1>7, <2>1, <2>2, <2>3, <2>4 DEF Loads
  <1>8. ASSUME NEW id \in Ids, NEW decision \in Decisions, Colleague(id, decision) PROVE PhotosInv'
    BY <1>8, PhotosKept DEF Colleague
  <1>9. CASE UNCHANGED vars
    BY <1>9, PhotosKept DEF vars
  <1> QED
    BY <1>1, <1>2, <1>3, <1>4, <1>5, <1>6, <1>7, <1>8, <1>9 DEF Next, Saves

\* No tab holds a guest's photo that its page does not show: not after it is
\* left, not of the record before, and not once the deletion is reported
\* (IdDocumentPreview's cleanup).
THEOREM PhotosAreReleased == Spec => []PhotosReleased
  <1>1. Init => PhotosInv
    BY DEF Init, PhotosInv, PhotosReleased
  <1>2. PhotosInv => PhotosReleased
    BY DEF PhotosInv
  <1> QED
    BY <1>1, <1>2, PhotosStep, InvAlways, PTL DEF Spec

(***************************************************************************)
(* Decisions.  A record loses photos and never gains one, so a page, or an *)
(* answer on its way to one, knows of every photo its record still has: a  *)
(* decision taken there without a question finds nothing to delete.        *)
(***************************************************************************)
KnowsPhotos(p) == p.of # None => rows[p.of].images \subseteq p.record.images

TellsPhotos(s) == s.pc = "written" => rows[s.id].images \subseteq s.answer.images

HadNone(s) ==
    s.pc = "sent" /\ s.of = s.id /\ s.decide = "delete" /\ ~s.confirmed => rows[s.id].images = {}

AsksInv ==
    /\ AsksBeforeDeleting
    /\ \A t \in Tabs : KnowsPhotos(page[t]) /\ TellsPhotos(save[t]) /\ HadNone(save[t])

\* What was known of a record's photos stays true as they go.
LEMMA ImagesShrink ==
  ASSUME Inv, NEW id \in Ids, NEW decision \in Decisions,
         rows' = [rows EXCEPT ![id] = Updated(rows[id], decision)]
  PROVE  \A i \in Ids : rows'[i].images \subseteq rows[i].images
  <1>1. rows[id] \in Row
    BY DEF Inv, TypeOK
  <1> QED
    BY <1>1, UpdatedType DEF Inv, TypeOK

LEMMA AsksKept ==
  ASSUME Inv, AsksInv,
         \A i \in Ids : rows'[i].images \subseteq rows[i].images,
         \A t \in Tabs : \/ page'[t].of = page[t].of /\ page'[t].record = page[t].record
                         \/ page'[t].of = None,
         \A t \in Tabs : \/ /\ save'[t].id = save[t].id /\ save'[t].of = save[t].of /\ save'[t].pc = save[t].pc
                            /\ save'[t].decide = save[t].decide /\ save'[t].confirmed = save[t].confirmed
                            /\ save'[t].answer = save[t].answer
                         \/ save'[t].pc \in {"idle", "refused"},
         purged' # "unasked"
  PROVE  AsksInv'
  <1>1. ASSUME NEW t \in Tabs PROVE KnowsPhotos(page[t])'
    <2>1. page[t].of # None => page[t].of \in Ids
      BY DEF Inv, TypeOK, Page
    <2> QED
      BY <2>1 DEF AsksInv, KnowsPhotos
  <1>2. ASSUME NEW t \in Tabs PROVE TellsPhotos(save[t])' /\ HadNone(save[t])'
    <2>1. save[t].pc # "idle" => save[t].id \in Ids
      BY DEF Inv, Addressed
    <2>2. TellsPhotos(save[t])'
      BY <2>1 DEF AsksInv, TellsPhotos
    <2>3. HadNone(save[t])'
      <3> SUFFICES ASSUME HadNone(save[t]), save'[t].pc = "sent", save'[t].of = save'[t].id,
                          save'[t].decide = "delete", ~save'[t].confirmed
                   PROVE  rows'[save'[t].id].images = {}
        BY DEF AsksInv, HadNone
      <3>1. /\ save'[t].id = save[t].id /\ save[t].of = save[t].id /\ save[t].pc = "sent"
            /\ save[t].decide = "delete" /\ ~save[t].confirmed
        OBVIOUS
      <3>2. rows[save[t].id].images = {}
        BY <3>1 DEF HadNone
      <3> QED
        BY <2>1, <3>1, <3>2
    <2> QED
      BY <2>2, <2>3
  <1> QED
    BY <1>1, <1>2 DEF AsksInv, AsksBeforeDeleting

\* A page that is left behind.
LEMMA LeavingAsks ==
  ASSUME Inv, AsksInv, NEW t \in Tabs, page' = [page EXCEPT ![t] = NoPage],
         Unmount(t) \/ save' = [save EXCEPT ![t] = NoSave], UNCHANGED <<rows, purged>>
  PROVE  AsksInv'
  <1> DEFINE s == [save[t] EXCEPT !.here = FALSE]
  <1>1. /\ s.id = save[t].id /\ s.of = save[t].of /\ s.pc = save[t].pc
        /\ s.decide = save[t].decide /\ s.confirmed = save[t].confirmed /\ s.answer = save[t].answer
    BY DEF Inv, TypeOK, Save
  <1>2. save' = [save EXCEPT ![t] = s] \/ save' = [save EXCEPT ![t] = NoSave]
    BY DEF Unmount
  <1> HIDE DEF s
  <1> QED
    BY <1>1, <1>2, AsksKept, Blanks DEF Inv, TypeOK, AsksInv, AsksBeforeDeleting

\* A page that changes otherwise than in its record.
LEMMA PageAsks ==
  ASSUME Inv, AsksInv, NEW t \in Tabs, NEW new, new.of = page[t].of, new.record = page[t].record,
         page' = [page EXCEPT ![t] = new] \/ page' = page,
         save' = save \/ save' = [save EXCEPT ![t] = NoSave], UNCHANGED <<rows, purged>>
  PROVE  AsksInv'
  BY AsksKept, Blanks DEF Inv, TypeOK, AsksInv, AsksBeforeDeleting

LEMMA SendAsks ==
  ASSUME Inv, AsksInv, NEW t \in Tabs, NEW decision \in Decisions, Send(t, decision)
  PROVE  AsksInv'
  <1> DEFINE p == [page[t] EXCEPT !.saving = TRUE, !.edited = FALSE]
             confirmed == Asks(decision, page[t].record)
             s == [pc |-> "sent", id |-> page[t].id, of |-> page[t].of, decide |-> decision,
                   confirmed |-> confirmed, here |-> TRUE, answer |-> AnyRow]
  <1>1. p.of = page[t].of /\ p.record = page[t].record /\ page[t].of # None /\ page[t].record \in Row
    BY DEF Inv, TypeOK, Page, Send, Ready
  <1>2. decision = "delete" /\ ~confirmed => page[t].record.images = {}
    BY DEF Asks
  <1>3. /\ page' = [page EXCEPT ![t] = p] /\ save' = [save EXCEPT ![t] = s] /\ UNCHANGED <<rows, purged>>
    BY DEF Send
  <1>4. rows[page[t].of].images \subseteq page[t].record.images
    BY <1>1 DEF AsksInv, KnowsPhotos
  <1> HIDE DEF p, confirmed
  <1>5. HadNone(s) /\ TellsPhotos(s)
    BY <1>2, <1>4 DEF HadNone, TellsPhotos
  <1> HIDE DEF s
  <1> QED
    BY <1>1, <1>3, <1>5 DEF AsksInv, AsksBeforeDeleting, KnowsPhotos, HadNone, TellsPhotos, Inv, TypeOK

LEMMA UpdateAsks ==
  ASSUME Inv, AsksInv, NEW t \in Tabs, Update(t)
  PROVE  AsksInv'
  <1> DEFINE id == save[t].id
             new == Updated(rows[id], save[t].decide)
             s == [save[t] EXCEPT !.pc = "written", !.answer = new]
  <1>1. save[t] \in Save /\ id \in Ids /\ rows[id] \in Row /\ save[t].decide \in Decisions /\ save[t].pc = "sent"
    BY DEF Inv, TypeOK, Addressed, Update, Save
  <1>2. new \in Row /\ (new.images # rows[id].images => save[t].decide = "delete" /\ rows[id].images # {})
    BY <1>1, UpdatedType
  <1>3. rows' = [rows EXCEPT ![id] = new] /\ save' = [save EXCEPT ![t] = s] /\ page' = page
    BY DEF Update
  <1>4. \A i \in Ids : rows'[i].images \subseteq rows[i].images
    BY <1>1, <1>3, ImagesShrink
  <1>5. purged' # "unasked"
    <2>1. CASE new.images = rows[id].images
      BY <2>1 DEF Update, AsksInv, AsksBeforeDeleting
    <2>2. CASE new.images # rows[id].images
      <3>1. save[t].confirmed \/ save[t].of # save[t].id
        BY <1>1, <1>2, <2>2 DEF AsksInv, HadNone
      <3> QED
        BY <3>1 DEF Update, AsksInv, AsksBeforeDeleting
    <2> QED
      BY <2>1, <2>2
  <1> HIDE DEF new
  <1>6. s.pc = "written" /\ s.id = id /\ s.answer = new
    BY <1>1 DEF Save
  <1> HIDE DEF s
  <1>7. ASSUME NEW u \in Tabs PROVE KnowsPhotos(page[u])'
    BY <1>3, <1>4 DEF KnowsPhotos, AsksInv, Inv, TypeOK, Page
  <1>8. rows'[id] = new
    BY <1>1, <1>3 DEF Inv, TypeOK
  <1>9. ASSUME NEW u \in Tabs PROVE TellsPhotos(save[u])' /\ HadNone(save[u])'
    <2>1. CASE u = t
      BY <1>3, <1>6, <1>8, <2>1 DEF TellsPhotos, HadNone, Inv, TypeOK
    <2>2. CASE u # t
      <3>1. save'[u] = save[u] /\ (save[u].pc # "idle" => save[u].id \in Ids)
        BY <1>3, <2>2 DEF Inv, TypeOK, Addressed
      <3>2. TellsPhotos(save[u])'
        BY <1>4, <3>1 DEF TellsPhotos, AsksInv
      <3>3. HadNone(save[u])'
        BY <1>4, <3>1 DEF HadNone, AsksInv
      <3> QED
        BY <3>2, <3>3
    <2> QED
      BY <2>1, <2>2
  <1> QED
    BY <1>5, <1>7, <1>9 DEF AsksInv, AsksBeforeDeleting

\* The page takes over a record as it is, or as it was when it was saved.
LEMMA HoldsAsks ==
  ASSUME Inv, AsksInv, NEW t \in Tabs, NEW new, page' = [page EXCEPT ![t] = new], KnowsPhotos(new),
         save' = save \/ save' = [save EXCEPT ![t] = NoSave], UNCHANGED <<rows, purged>>
  PROVE  AsksInv'
  <1>1. TellsPhotos(NoSave) /\ HadNone(NoSave)
    BY Blanks DEF TellsPhotos, HadNone
  <1>2. ASSUME NEW u \in Tabs PROVE KnowsPhotos(page[u])'
    BY DEF AsksInv, KnowsPhotos, Inv, TypeOK
  <1>3. ASSUME NEW u \in Tabs PROVE TellsPhotos(save[u])' /\ HadNone(save[u])'
    <2>1. save'[u] = save[u] \/ save'[u] = NoSave
      BY DEF Inv, TypeOK
    <2> QED
      BY <1>1, <2>1 DEF AsksInv, TellsPhotos, HadNone
  <1> QED
    BY <1>2, <1>3 DEF AsksInv, AsksBeforeDeleting

LEMMA AsksStep == Inv /\ AsksInv /\ [Next]_vars => AsksInv'
  <1> SUFFICES ASSUME Inv, AsksInv, [Next]_vars PROVE AsksInv'
    OBVIOUS
  <1>1. ASSUME NEW t \in Tabs, Navigates(t) PROVE AsksInv'
    <2>1. CASE Leave(t)
      BY <2>1, LeavingAsks DEF Leave, Close
    <2>2. CASE OpenDashboard(t)
      BY <2>2, LeavingAsks DEF OpenDashboard
    <2>3. ASSUME NEW f \in Filters, SetFilter(t, f) PROVE AsksInv'
      BY <2>3, PageAsks DEF SetFilter
    <2>4. ASSUME NEW id \in Ids, OpenRecord(t, id) PROVE AsksInv'
      <3> DEFINE p == [NoPage EXCEPT !.id = id, !.loading = TRUE]
                 s == [save[t] EXCEPT !.here = FALSE]
      <3>1. p.of = None /\ p.record = NoPage.record
        BY Blanks DEF NoPage
      <3>2. /\ s.id = save[t].id /\ s.of = save[t].of /\ s.pc = save[t].pc
            /\ s.decide = save[t].decide /\ s.confirmed = save[t].confirmed /\ s.answer = save[t].answer
        BY DEF Inv, TypeOK, Save
      <3>3. /\ page' = [page EXCEPT ![t] = p] /\ save' = [save EXCEPT ![t] = s] /\ UNCHANGED <<rows, purged>>
        BY <2>4 DEF OpenRecord, Unmount
      <3> HIDE DEF p, s
      <3> QED
        BY <3>1, <3>2, <3>3, AsksKept DEF Inv, TypeOK, AsksInv, AsksBeforeDeleting
    <2>5. ASSUME NEW id \in Ids, Jump(t, id) PROVE AsksInv'
      <3> DEFINE new == [page[t] EXCEPT !.id = id]
      <3>1. new.of = page[t].of /\ new.record = page[t].record
        BY DEF Inv, TypeOK, Page
      <3>2. page' = [page EXCEPT ![t] = new] /\ UNCHANGED <<save, rows, purged>>
        BY <2>5 DEF Jump
      <3> HIDE DEF new
      <3> QED
        BY <3>1, <3>2, PageAsks
    <2> QED
      BY <1>1, <2>1, <2>2, <2>3, <2>4, <2>5 DEF Navigates
  <1>2. ASSUME NEW t \in Tabs, Edits(t) PROVE AsksInv'
    <2>1. CASE Edit(t)
      <3> DEFINE new == [page[t] EXCEPT !.edited = TRUE]
      <3>1. new.of = page[t].of /\ new.record = page[t].record
        BY DEF Inv, TypeOK, Page
      <3>2. page' = [page EXCEPT ![t] = new] /\ UNCHANGED <<save, rows, purged>>
        BY <2>1 DEF Edit
      <3> HIDE DEF new
      <3> QED
        BY <3>1, <3>2, PageAsks
    <2> QED
      BY <1>2, <2>1, SendAsks DEF Edits
  <1>3. ASSUME NEW t \in Tabs, Refuse(t) PROVE AsksInv'
    <2> DEFINE s == [save[t] EXCEPT !.pc = "refused"]
    <2>1. s.pc = "refused"
      BY DEF Inv, TypeOK, Save
    <2>2. save' = [save EXCEPT ![t] = s] /\ UNCHANGED <<rows, page, purged>>
      BY <1>3 DEF Refuse
    <2> HIDE DEF s
    <2> QED
      BY <2>1, <2>2, AsksKept DEF Inv, TypeOK, AsksInv, AsksBeforeDeleting
  <1>4. ASSUME NEW t \in Tabs, SaveAnswer(t) PROVE AsksInv'
    <2>1. CASE ~save[t].here
      BY <1>4, <2>1, PageAsks DEF SaveAnswer
    <2>2. CASE save[t].here
      <3> DEFINE new == [page[t] EXCEPT !.of = save[t].id, !.record = save[t].answer, !.edited = FALSE, !.saving = FALSE]
      <3>1. new.of = save[t].id /\ new.record = save[t].answer
        BY DEF Inv, TypeOK, Page
      <3>2. KnowsPhotos(new)
        BY <1>4, <3>1 DEF KnowsPhotos, AsksInv, TellsPhotos, SaveAnswer
      <3>3. page' = [page EXCEPT ![t] = new] /\ save' = [save EXCEPT ![t] = NoSave] /\ UNCHANGED <<rows, purged>>
        BY <1>4, <2>2 DEF SaveAnswer
      <3> HIDE DEF new
      <3> QED
        BY <3>2, <3>3, HoldsAsks
    <2> QED
      BY <2>1, <2>2
  <1>5. ASSUME NEW t \in Tabs, SaveFails(t) PROVE AsksInv'
    <2> DEFINE new == [page[t] EXCEPT !.saving = FALSE]
    <2>1. new.of = page[t].of /\ new.record = page[t].record
      BY DEF Inv, TypeOK, Page
    <2>2. /\ page' = [page EXCEPT ![t] = new] \/ page' = page
          /\ save' = [save EXCEPT ![t] = NoSave] /\ UNCHANGED <<rows, purged>>
      BY <1>5 DEF SaveFails
    <2> HIDE DEF new
    <2> QED
      BY <2>1, <2>2, PageAsks
  <1>6. ASSUME NEW t \in Tabs, Unauthorized(t) \/ SaveUnauthorized(t) PROVE AsksInv'
    BY <1>6, LeavingAsks DEF Unauthorized, SaveUnauthorized, Close
  <1>7. ASSUME NEW l \in loads, Loads(l) PROVE AsksInv'
    <2>1. CASE RecordAnswer(l)
      <3> DEFINE t == l.tab
                 new == [page[t] EXCEPT !.of = l.what, !.record = rows[l.what], !.edited = FALSE, !.loading = FALSE]
      <3>1. t \in Tabs
        BY DEF Inv, TypeOK, Load
      <3>2. new.of = l.what /\ new.record = rows[l.what]
        BY <3>1 DEF Inv, TypeOK, Page
      <3>3. KnowsPhotos(new)
        BY <3>2 DEF KnowsPhotos
      <3>4. page' = [page EXCEPT ![t] = new] /\ UNCHANGED <<save, rows, purged>>
        BY <2>1 DEF RecordAnswer
      <3> HIDE DEF new, t
      <3> QED
        BY <3>1, <3>3, <3>4, HoldsAsks
    <2>2. CASE RecordFails(l)
      <3> DEFINE t == l.tab
                 new == [page[t] EXCEPT !.loading = FALSE]
      <3>1. t \in Tabs
        BY DEF Inv, TypeOK, Load
      <3>2. new.of = page[t].of /\ new.record = page[t].record
        BY <3>1 DEF Inv, TypeOK, Page
      <3>3. page' = [page EXCEPT ![t] = new] /\ UNCHANGED <<save, rows, purged>>
        BY <2>2 DEF RecordFails
      <3> HIDE DEF new, t
      <3> QED
        BY <3>1, <3>2, <3>3, PageAsks
    <2>3. CASE ListAnswer(l) \/ ListFails(l) \/ ImageAnswer(l) \/ ImageFails(l)
      <3>1. UNCHANGED <<page, save, rows, purged>>
        BY <2>3 DEF ListAnswer, ListFails, ImageAnswer, ImageFails
      <3> QED
        BY <3>1, AsksKept DEF AsksInv, AsksBeforeDeleting
    <2> QED
      BY <1>7, <2>1, <2>2, <2>3 DEF Loads
  <1>8. ASSUME NEW id \in Ids, NEW decision \in Decisions, Colleague(id, decision) PROVE AsksInv'
    BY <1>8, AsksKept, ImagesShrink DEF Colleague, AsksInv, AsksBeforeDeleting
  <1>9. CASE UNCHANGED vars
    BY <1>9, AsksKept DEF vars, AsksInv, AsksBeforeDeleting
  <1> QED
    BY <1>1, <1>2, <1>3, <1>4, <1>5, <1>6, <1>7, <1>8, <1>9, UpdateAsks DEF Next, Saves

\* On a record's own page no decision deletes photos unasked, however stale the
\* page and whatever colleagues, earlier pages and late answers do (decide).
THEOREM DecisionsAreAsked == Spec => []AsksBeforeDeleting
  <1>1. Init => AsksInv
    <2> SUFFICES ASSUME Init PROVE AsksInv
      OBVIOUS
    <2> QED
      BY Blanks DEF Init, AsksInv, AsksBeforeDeleting, KnowsPhotos, TellsPhotos, HadNone
  <1>2. AsksInv => AsksBeforeDeleting
    BY DEF AsksInv
  <1> QED
    BY <1>1, <1>2, AsksStep, InvAlways, PTL DEF Spec

(***************************************************************************)
(* ToldBeforeItHappens does not hold, because of the browser's history.    *)
(* It is all that is in the way: without a jump from one record's page to  *)
(* another's, a page holds the record it is at, and a save is of it.       *)
(***************************************************************************)
NoJumps == [][\A t \in Tabs, id \in Ids : ~Jump(t, id)]_vars

OwnTab(p, s) ==
    /\ p.of # None => p.of = p.id
    /\ s.pc # "idle" => s.of = s.id /\ (s.here => s.id = p.id)

OwnPages == purged # "elsewhere" /\ \A t \in Tabs : OwnTab(page[t], save[t])

LEMMA TabOwn ==
  ASSUME OwnPages, NEW t \in Tabs, OwnTab(page[t], save[t])',
         \A u \in Tabs \ {t} : page'[u] = page[u] /\ save'[u] = save[u], purged' # "elsewhere"
  PROVE  OwnPages'
  BY DEF OwnPages, OwnTab

\* A page left behind, for an empty one or one that has no record yet.
LEMMA LeavingOwn ==
  ASSUME Inv, OwnPages, NEW t \in Tabs, NEW new, new.of = None, page' = [page EXCEPT ![t] = new],
         Unmount(t) \/ save' = [save EXCEPT ![t] = NoSave], UNCHANGED purged
  PROVE  OwnPages'
  <1> DEFINE s == [save[t] EXCEPT !.here = FALSE]
  <1>1. s.pc = save[t].pc /\ s.of = save[t].of /\ s.id = save[t].id /\ ~s.here
    BY DEF Inv, TypeOK, Save
  <1>2. save' = [save EXCEPT ![t] = s] \/ save' = [save EXCEPT ![t] = NoSave]
    BY DEF Unmount
  <1> HIDE DEF s
  <1>3. OwnTab(page[t], save[t])'
    BY <1>1, <1>2, Blanks DEF Inv, TypeOK, OwnPages, OwnTab
  <1> QED
    BY <1>2, <1>3, TabOwn DEF Inv, TypeOK, OwnPages

\* A page that changes otherwise than in its record or address.
LEMMA PageOwn ==
  ASSUME Inv, OwnPages, NEW t \in Tabs, NEW new, new.of = page[t].of, new.id = page[t].id,
         page' = [page EXCEPT ![t] = new] \/ page' = page,
         save' = save \/ save' = [save EXCEPT ![t] = NoSave], UNCHANGED purged
  PROVE  OwnPages'
  <1>1. OwnTab(page[t], save[t])'
    BY Blanks DEF Inv, TypeOK, OwnPages, OwnTab
  <1> QED
    BY <1>1, TabOwn DEF Inv, TypeOK, OwnPages

\* A page that takes over the record it is at.
LEMMA HoldsOwn ==
  ASSUME Inv, OwnPages, NEW t \in Tabs, NEW new, new.of = page[t].id, new.id = page[t].id,
         page' = [page EXCEPT ![t] = new],
         save' = save \/ save' = [save EXCEPT ![t] = NoSave], UNCHANGED purged
  PROVE  OwnPages'
  <1>1. OwnTab(page[t], save[t])'
    BY Blanks DEF Inv, TypeOK, OwnPages, OwnTab
  <1> QED
    BY <1>1, TabOwn DEF Inv, TypeOK, OwnPages

LEMMA SendOwn ==
  ASSUME Inv, OwnPages, NEW t \in Tabs, NEW decision \in Decisions, Send(t, decision)
  PROVE  OwnPages'
  <1> DEFINE p == [page[t] EXCEPT !.saving = TRUE, !.edited = FALSE]
             s == [pc |-> "sent", id |-> page[t].id, of |-> page[t].of, decide |-> decision,
                   confirmed |-> Asks(decision, page[t].record), here |-> TRUE, answer |-> AnyRow]
  <1>1. p.of = page[t].of /\ p.id = page[t].id /\ page[t].of # None
    BY DEF Inv, TypeOK, Page, Send, Ready
  <1>2. s.id = page[t].id /\ s.of = page[t].of
    OBVIOUS
  <1>3. page' = [page EXCEPT ![t] = p] /\ save' = [save EXCEPT ![t] = s] /\ purged' = purged
    BY DEF Send
  <1> HIDE DEF p, s
  <1>4. OwnTab(page[t], save[t])'
    BY <1>1, <1>2, <1>3 DEF Inv, TypeOK, OwnPages, OwnTab
  <1> QED
    BY <1>3, <1>4, TabOwn DEF Inv, TypeOK, OwnPages

LEMMA UpdateOwn ==
  ASSUME Inv, OwnPages, NEW t \in Tabs, Update(t) \/ Refuse(t)
  PROVE  OwnPages'
  <1>1. save[t].pc # "idle" /\ save[t].of = save[t].id /\ page' = page
    BY DEF Update, Refuse, OwnPages, OwnTab
  <1>2. PICK s : /\ save' = [save EXCEPT ![t] = s]
                 /\ s.id = save[t].id /\ s.of = save[t].of /\ s.here = save[t].here
    <2> DEFINE new == Updated(rows[save[t].id], save[t].decide)
               s1 == [save[t] EXCEPT !.pc = "written", !.answer = new]
               s2 == [save[t] EXCEPT !.pc = "refused"]
    <2>1. /\ s1.id = save[t].id /\ s1.of = save[t].of /\ s1.here = save[t].here
          /\ s2.id = save[t].id /\ s2.of = save[t].of /\ s2.here = save[t].here
      BY DEF Inv, TypeOK, Save
    <2>2. save' = [save EXCEPT ![t] = s1] \/ save' = [save EXCEPT ![t] = s2]
      BY DEF Update, Refuse
    <2> HIDE DEF s1, s2
    <2> QED
      BY <2>1, <2>2
  <1>3. purged' # "elsewhere"
    BY <1>1 DEF Update, Refuse, OwnPages
  <1>4. OwnTab(page[t], save[t])'
    BY <1>1, <1>2 DEF Inv, TypeOK, OwnPages, OwnTab
  <1> QED
    BY <1>1, <1>2, <1>3, <1>4, TabOwn DEF Inv, TypeOK

LEMMA OwnStep ==
  Inv /\ OwnPages /\ [Next]_vars /\ [\A t \in Tabs, id \in Ids : ~Jump(t, id)]_vars => OwnPages'
  <1> SUFFICES ASSUME Inv, OwnPages, [Next]_vars, [\A t \in Tabs, id \in Ids : ~Jump(t, id)]_vars
               PROVE  OwnPages'
    OBVIOUS
  <1>1. ASSUME NEW t \in Tabs, Leave(t) \/ OpenDashboard(t) \/ Unauthorized(t) \/ SaveUnauthorized(t)
        PROVE  OwnPages'
    BY <1>1, LeavingOwn, Blanks
       DEF Leave, OpenDashboard, Unauthorized, SaveUnauthorized, Close
  <1>2. ASSUME NEW t \in Tabs, NEW f \in Filters, SetFilter(t, f) PROVE OwnPages'
    BY <1>2 DEF SetFilter, OwnPages
  <1>3. ASSUME NEW t \in Tabs, NEW id \in Ids, OpenRecord(t, id) PROVE OwnPages'
    <2> DEFINE p == [NoPage EXCEPT !.id = id, !.loading = TRUE]
    <2>1. p.of = None
      BY Blanks DEF Page
    <2>2. page' = [page EXCEPT ![t] = p] /\ Unmount(t) /\ purged' = purged
      BY <1>3 DEF OpenRecord
    <2> HIDE DEF p
    <2> QED
      BY <2>1, <2>2, LeavingOwn
  <1>4. ASSUME NEW t \in Tabs, NEW id \in Ids, Jump(t, id) PROVE OwnPages'
    BY <1>4 DEF vars, OwnPages
  <1>5. ASSUME NEW t \in Tabs, Edit(t) PROVE OwnPages'
    <2> DEFINE p == [page[t] EXCEPT !.edited = TRUE]
    <2>1. p.of = page[t].of /\ p.id = page[t].id
      BY DEF Inv, TypeOK, Page
    <2>2. page' = [page EXCEPT ![t] = p] /\ UNCHANGED <<save, purged>>
      BY <1>5 DEF Edit
    <2> HIDE DEF p
    <2> QED
      BY <2>1, <2>2, PageOwn
  <1>6. ASSUME NEW t \in Tabs, SaveAnswer(t) PROVE OwnPages'
    <2>1. save' = [save EXCEPT ![t] = NoSave] /\ purged' = purged
      BY <1>6 DEF SaveAnswer
    <2>2. CASE ~save[t].here
      BY <1>6, <2>1, <2>2, PageOwn DEF SaveAnswer
    <2>3. CASE save[t].here
      <3> DEFINE p == [page[t] EXCEPT !.of = save[t].id, !.record = save[t].answer, !.edited = FALSE, !.saving = FALSE]
      <3>1. save[t].id = page[t].id
        BY <1>6, <2>3 DEF SaveAnswer, OwnPages, OwnTab
      <3>2. p.of = page[t].id /\ p.id = page[t].id
        BY <3>1 DEF Inv, TypeOK, Page
      <3>3. page' = [page EXCEPT ![t] = p]
        BY <1>6, <2>3 DEF SaveAnswer
      <3> HIDE DEF p
      <3> QED
        BY <2>1, <3>2, <3>3, HoldsOwn
    <2> QED
      BY <2>2, <2>3
  <1>7. ASSUME NEW t \in Tabs, SaveFails(t) PROVE OwnPages'
    <2> DEFINE p == [page[t] EXCEPT !.saving = FALSE]
    <2>1. p.of = page[t].of /\ p.id = page[t].id
      BY DEF Inv, TypeOK, Page
    <2>2. /\ page' = [page EXCEPT ![t] = p] \/ page' = page
          /\ save' = [save EXCEPT ![t] = NoSave] /\ purged' = purged
      BY <1>7 DEF SaveFails
    <2> HIDE DEF p
    <2> QED
      BY <2>1, <2>2, PageOwn
  <1>8. ASSUME NEW l, RecordAnswer(l) PROVE OwnPages'
    <2> DEFINE t == l.tab
               p == [page[t] EXCEPT !.of = l.what, !.record = rows[l.what], !.edited = FALSE, !.loading = FALSE]
    <2>1. t \in Tabs /\ page[t].id = l.what
      BY <1>8 DEF Inv, TypeOK, Addressed, Load, RecordAnswer
    <2>2. p.of = page[t].id /\ p.id = page[t].id
      BY <2>1 DEF Inv, TypeOK, Page
    <2>3. page' = [page EXCEPT ![t] = p] /\ UNCHANGED <<save, purged>>
      BY <1>8 DEF RecordAnswer
    <2> HIDE DEF p, t
    <2> QED
      BY <2>1, <2>2, <2>3, HoldsOwn
  <1>9. ASSUME NEW l, RecordFails(l) PROVE OwnPages'
    <2> DEFINE t == l.tab
               p == [page[t] EXCEPT !.loading = FALSE]
    <2>1. t \in Tabs
      BY <1>9 DEF Inv, TypeOK, Load, RecordFails
    <2>2. p.of = page[t].of /\ p.id = page[t].id
      BY <2>1 DEF Inv, TypeOK, Page
    <2>3. page' = [page EXCEPT ![t] = p] /\ UNCHANGED <<save, purged>>
      BY <1>9 DEF RecordFails
    <2> HIDE DEF p, t
    <2> QED
      BY <2>1, <2>2, <2>3, PageOwn
  <1>10. ASSUME UNCHANGED <<page, save, purged>> PROVE OwnPages'
    BY <1>10 DEF OwnPages
  <1> QED
    BY <1>1, <1>2, <1>3, <1>4, <1>5, <1>6, <1>7, <1>8, <1>9, <1>10, SendOwn, UpdateOwn
       DEF Next, vars, Navigates, Edits, Saves, Loads, ListAnswer, ListFails, ImageAnswer,
           ImageFails, Colleague

\* decide: while staff do not move between records in the browser's history, no
\* photo is deleted before they were asked about it.
THEOREM ToldUnlessJumping == Spec /\ NoJumps => []ToldBeforeItHappens
  <1>1. Init => OwnPages
    BY Blanks DEF Init, OwnPages, OwnTab
  <1>2. OwnPages /\ AsksBeforeDeleting => ToldBeforeItHappens
    BY DEF OwnPages, AsksBeforeDeleting, ToldBeforeItHappens
  <1> QED
    BY <1>1, <1>2, OwnStep, InvAlways, DecisionsAreAsked, PTL DEF Spec, NoJumps

-----------------------------------------------------------------------------
(***************************************************************************)
(* The table.  What the pages take update to be, one step, is what its     *)
(* many steps in module Registrations amount to: both implement module     *)
(* PhotoRecords, and every deletion PhotoRecords allows is one that a      *)
(* colleague of these pages may make.                                      *)
(***************************************************************************)
ImagesHeld == [id \in Ids |-> rows[id].images]
Reported == {id \in Ids : rows[id].deleted}

LEMMA UpdatedKeepsRecords ==
  ASSUME TypeOK, NEW id \in Ids, NEW decision \in Decisions,
         rows' = [rows EXCEPT ![id] = Updated(rows[id], decision)]
  PROVE  Records!Next \/ UNCHANGED Records!vars
  <1> DEFINE purges == decision = "delete" /\ rows[id].images # {}
             new == Updated(rows[id], decision)
  <1>1. /\ new.images = IF purges THEN {} ELSE rows[id].images
        /\ new.deleted = (rows[id].deleted \/ purges)
    BY DEF Updated
  <1>2. rows[id] \in Row /\ rows'[id] = new /\ \A i \in Ids \ {id} : rows'[i] = rows[i]
    BY DEF TypeOK
  <1> HIDE DEF new
  <1>3. CASE purges
    <2>0. rows'[id].images = {} /\ \A i \in Ids \ {id} : rows'[i].images = rows[i].images
      BY <1>1, <1>2, <1>3
    <2>1. ImagesHeld' = [ImagesHeld EXCEPT ![id] = {}]
      BY <2>0 DEF ImagesHeld
    <2>2. Reported' = Reported \cup {id}
      BY <1>1, <1>2, <1>3 DEF Reported
    <2>3. Records!Delete(id)
      BY <1>3, <2>1, <2>2 DEF Records!Delete, ImagesHeld, Reported
    <2> QED
      BY <2>3 DEF Records!Next
  <1>4. CASE ~purges
    <2>1. new.images = rows[id].images /\ new.deleted = rows[id].deleted
      BY <1>1, <1>2, <1>4 DEF Row
    <2>2. ImagesHeld' = ImagesHeld
      BY <1>2, <2>1 DEF ImagesHeld
    <2>3. Reported' = Reported
      BY <1>2, <2>1 DEF Reported
    <2> QED
      BY <2>2, <2>3 DEF Records!vars, ImagesHeld, Reported
  <1> QED
    BY <1>3, <1>4

LEMMA StepKeepsRecords == Inv /\ [Next]_vars => Records!Next \/ UNCHANGED Records!vars
  <1> SUFFICES ASSUME Inv, [Next]_vars PROVE Records!Next \/ UNCHANGED Records!vars
    OBVIOUS
  <1>1. ASSUME NEW t \in Tabs, Update(t) PROVE Records!Next \/ UNCHANGED Records!vars
    <2>1. save[t] \in Save /\ save[t].id \in Ids /\ save[t].decide \in Decisions
      BY <1>1 DEF Inv, TypeOK, Addressed, Update, Save
    <2>2. rows' = [rows EXCEPT ![save[t].id] = Updated(rows[save[t].id], save[t].decide)]
      BY <1>1 DEF Update
    <2> QED
      BY <2>1, <2>2, UpdatedKeepsRecords DEF Inv
  <1>2. ASSUME NEW id \in Ids, NEW decision \in Decisions, Colleague(id, decision)
        PROVE  Records!Next \/ UNCHANGED Records!vars
    BY <1>2, UpdatedKeepsRecords DEF Inv, Colleague
  <1>3. ASSUME UNCHANGED rows PROVE UNCHANGED Records!vars
    BY <1>3 DEF Records!vars
  <1> QED
    BY <1>1, <1>2, <1>3
       DEF Next, vars, Navigates, Edits, Saves, Loads, Leave, OpenDashboard, SetFilter,
           OpenRecord, Jump, Edit, Send, Refuse, SaveAnswer, SaveFails, Unauthorized,
           SaveUnauthorized, ListAnswer, ListFails, RecordAnswer, RecordFails, ImageAnswer,
           ImageFails

\* update: the one step the pages see of it is a step of the table the handlers
\* implement.
THEOREM PagesKeepRecords == Spec => KeepsRecords
  <1>1. Init => Records!Init
    <2> SUFFICES ASSUME Init PROVE Records!Init
      OBVIOUS
    <2>1. Inv
      BY InitInv
    <2>2. ImagesHeld \in [Ids -> SUBSET Sides]
      BY <2>1 DEF Inv, TypeOK, Row, ImagesHeld
    <2>3. Reported = {}
      BY DEF Init, Reported
    <2> QED
      BY <2>2, <2>3 DEF Records!Init, ImagesHeld, Reported
  <1>2. Inv /\ [Next]_vars => [Records!Next]_Records!vars
    BY StepKeepsRecords
  <1> QED
    BY <1>1, <1>2, InvAlways, PTL DEF Spec, KeepsRecords, Records!Spec

\* The pages are ready for anything the table may do while they look away: each
\* of its steps is a colleague's, so what is proved of the pages holds whatever
\* requests of other browsers update is serving.
THEOREM TableStepsAreColleagues ==
  ASSUME TypeOK, TypeOK', Records!Next, UNCHANGED <<list, page, photos, loads, save, purged>>
  PROVE  \E id \in Ids : Colleague(id, "delete")
  <1>1. PICK id \in Ids : Records!Delete(id)
    BY DEF Records!Next, Records!Submit
  <1>2. /\ rows[id].images # {}
        /\ ImagesHeld' = [ImagesHeld EXCEPT ![id] = {}]
        /\ Reported' = Reported \cup {id}
    BY <1>1 DEF Records!Delete, ImagesHeld, Reported
  <1>3. rows \in [Ids -> Row] /\ rows' \in [Ids -> Row]
    BY DEF TypeOK
  <1>4. \A i \in Ids : rows'[i].images = IF i = id THEN {} ELSE rows[i].images
    BY <1>2 DEF ImagesHeld
  <1>5. \A i \in Ids : rows'[i].deleted = (rows[i].deleted \/ i = id)
    BY <1>2, <1>3 DEF Reported, Row
  <1>6. Updated(rows[id], "delete") = [images |-> {}, deleted |-> TRUE]
    BY <1>2 DEF Updated
  <1>7. rows' = [rows EXCEPT ![id] = [images |-> {}, deleted |-> TRUE]]
    BY <1>3, <1>4, <1>5 DEF Row
  <1> QED
    BY <1>6, <1>7 DEF Colleague
=============================================================================
