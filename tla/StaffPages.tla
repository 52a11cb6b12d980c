----------------------------- MODULE StaffPages -----------------------------
(***************************************************************************)
(* The two pages staff work in, in several tabs at once: the dashboard,    *)
(* which lists registrations by a filter, and a registration's page, which *)
(* holds a copy of one record, lets staff edit and decide it, and shows    *)
(* its photos.                                                             *)
(*                                                                         *)
(* A page asks and goes on; its answers arrive later, or never.  Leaving a *)
(* page aborts what it was loading, but not a save.                        *)
(***************************************************************************)
CONSTANTS
    Tabs,     \* browser tabs with a signed-in member of staff
    Ids,      \* registrations
    Filters,  \* what the dashboard can be asked for: a status and a search text
    All,      \* what it asks for when it is opened: everything
    None      \* null

ASSUME PagesAssumption == All \in Filters /\ None \notin Ids \cup Filters

Sides == {"front", "back"}

\* Of a record only its photos are kept, and of a PATCH whether its status is one
\* that deletes them (PURGES_DOCUMENT).
Row == [images : SUBSET Sides, deleted : BOOLEAN]

Decisions == {"keep", "delete"}

VARIABLES
    rows,    \* the Registration table
    list,    \* each tab's dashboard
    page,    \* each tab's registration page
    photos,  \* the object URLs the tabs hold, by the GET that brought the image
    loads,   \* GETs in flight
    save,    \* each tab's PATCH in flight
    purged   \* how the last deletion of images came about (history)

vars == <<rows, list, page, photos, loads, save, purged>>

Dashboard == [open : BOOLEAN, filter : Filters, loading : BOOLEAN, failed : BOOLEAN,
              shown : Filters \cup {None}]   \* the filter whose answer is on screen
Page == [id : Ids \cup {None},               \* the record the address names, None elsewhere
         loading : BOOLEAN, saving : BOOLEAN,
         of : Ids \cup {None},               \* whose record the page holds
         record : Row,                       \* and the form made of it
         edited : BOOLEAN]                   \* the form has changes that were never sent
Load == [tab : Tabs, kind : {"list", "record", "front", "back"}, what : Filters \cup Ids]
Save == [pc : {"idle", "sent", "written", "refused"}, id : Ids \cup {None}, of : Ids \cup {None},
         decide : Decisions, confirmed : BOOLEAN,
         here : BOOLEAN,                     \* the page that sent it is still the one on screen
         answer : Row]

AnyRow == [images |-> {}, deleted |-> FALSE]
NoPage == [id |-> None, loading |-> FALSE, saving |-> FALSE, of |-> None,
           record |-> AnyRow, edited |-> FALSE]
NoSave == [pc |-> "idle", id |-> None, of |-> None, decide |-> "keep",
           confirmed |-> FALSE, here |-> FALSE, answer |-> AnyRow]

NoList == [open |-> FALSE, filter |-> All, loading |-> FALSE, failed |-> FALSE, shown |-> None]

Init ==
    /\ \E images \in [Ids -> SUBSET Sides] :
          rows = [id \in Ids |-> [images |-> images[id], deleted |-> FALSE]]
    /\ list = [t \in Tabs |-> NoList]
    /\ page = [t \in Tabs |-> NoPage]
    /\ photos = {}
    /\ loads = {}
    /\ save = [t \in Tabs |-> NoSave]
    /\ purged = "never"

(***************************************************************************)
(* What is on screen, and what is being loaded for it.                     *)
(***************************************************************************)
LoadsOf(t) == {l \in loads : l.tab = t}
PhotosOf(t) == {p \in photos : p.tab = t}

Asking(t, kind, what) == [tab |-> t, kind |-> kind, what |-> what]

\* The sides a record's page previews: none once the deletion is reported.
Previewed(r) == IF r.deleted THEN {} ELSE r.images

\* Fault: leaving a page does not release what it was showing.
LeftHeld(t) == photos' = photos

\* The previews' cleanup revokes their object URLs.
Left(t) == photos' = photos \ PhotosOf(t)

\* The effects' cleanups: loads are aborted; a save goes on without its page.
Unmount(t) == Left(t) /\ save' = [save EXCEPT ![t] = [@ EXCEPT !.here = FALSE]]

Close(t) ==
    /\ list' = [list EXCEPT ![t] = NoList]
    /\ page' = [page EXCEPT ![t] = NoPage]
    /\ loads' = loads \ LoadsOf(t)
    /\ Unmount(t)

\* Sign-out, another page, or a closed tab.
Leave(t) ==
    /\ list[t].open \/ page[t].id # None
    /\ Close(t)
    /\ UNCHANGED <<rows, purged>>

(***************************************************************************)
(* The dashboard.                                                          *)
(***************************************************************************)
OpenDashboard(t) ==
    /\ ~list[t].open
    /\ list' = [list EXCEPT ![t] = [NoList EXCEPT !.open = TRUE, !.loading = TRUE]]
    /\ page' = [page EXCEPT ![t] = NoPage]
    /\ loads' = (loads \ LoadsOf(t)) \cup {Asking(t, "list", All)}
    /\ Unmount(t)
    /\ UNCHANGED <<rows, purged>>

\* Fault: the load for the filter before is left to land.
SetFilterOnTop(t, f) ==
    /\ list[t].open /\ list[t].filter # f
    /\ list' = [list EXCEPT ![t] = [@ EXCEPT !.filter = f, !.loading = TRUE, !.failed = FALSE]]
    /\ loads' = loads \cup {Asking(t, "list", f)}
    /\ UNCHANGED <<rows, page, photos, save, purged>>

\* A status chip, or the search text 250 ms after the last keystroke: the
\* load under way is aborted and another begun.
SetFilter(t, f) ==
    /\ list[t].open /\ list[t].filter # f
    /\ list' = [list EXCEPT ![t] = [@ EXCEPT !.filter = f, !.loading = TRUE, !.failed = FALSE]]
    /\ loads' = (loads \ LoadsOf(t)) \cup {Asking(t, "list", f)}
    /\ UNCHANGED <<rows, page, photos, save, purged>>

ListAnswer(l) ==
    /\ l \in loads /\ l.kind = "list"
    /\ loads' = loads \ {l}
    /\ list' = [list EXCEPT ![l.tab] = [@ EXCEPT !.shown = l.what, !.loading = FALSE]]
    /\ UNCHANGED <<rows, page, photos, save, purged>>

\* The rows on screen stay, under the error.
ListFails(l) ==
    /\ l \in loads /\ l.kind = "list"
    /\ loads' = loads \ {l}
    /\ list' = [list EXCEPT ![l.tab] = [@ EXCEPT !.failed = TRUE, !.loading = FALSE]]
    /\ UNCHANGED <<rows, page, photos, save, purged>>

(***************************************************************************)
(* A registration's page.                                                  *)
(***************************************************************************)

OpenRecord(t, id) ==
    /\ page[t].id = None
    /\ page' = [page EXCEPT ![t] = [NoPage EXCEPT !.id = id, !.loading = TRUE]]
    /\ list' = [list EXCEPT ![t] = NoList]
    /\ loads' = (loads \ LoadsOf(t)) \cup {Asking(t, "record", id)}
    /\ Unmount(t)
    /\ UNCHANGED <<rows, purged>>

\* Fault: the load for the record before is left to land.
JumpOnTop(t, id) ==
    /\ page[t].id \in Ids \ {id}
    /\ page' = [page EXCEPT ![t] = [@ EXCEPT !.id = id]]
    /\ loads' = loads \cup {Asking(t, "record", id)}
    /\ Left(t)
    /\ UNCHANGED <<rows, list, save, purged>>

\* The browser's history leads from one record's page to another's, and changes
\* nothing but the address.  The page stays mounted, with the record, the form
\* and the save it had, and loads again.
Jump(t, id) ==
    /\ page[t].id \in Ids \ {id}
    /\ page' = [page EXCEPT ![t] = [@ EXCEPT !.id = id]]
    /\ loads' = (loads \ LoadsOf(t)) \cup {Asking(t, "record", id)}
                    \cup {Asking(t, s, id) : s \in IF page[t].of = None THEN {} ELSE Previewed(page[t].record)}
    /\ Left(t)
    /\ UNCHANGED <<rows, list, save, purged>>

\* setRegistration and setForm, and the previews that follow the record: those
\* of sides that are gone are cleaned up, those of new ones begin to load.
Holds(t, r, landed) ==
    LET before == IF page[t].of = None THEN {} ELSE Previewed(page[t].record)
        now == Previewed(r)
    IN  /\ photos' = photos \ {p \in PhotosOf(t) : p.kind \notin now}
        /\ loads' = ((loads \ landed) \ {l \in LoadsOf(t) : l.kind \in Sides \ now})
                        \cup {Asking(t, s, page[t].id) : s \in now \ before}

RecordAnswer(l) ==
    /\ l \in loads /\ l.kind = "record"
    /\ LET r == rows[l.what]
       IN  /\ Holds(l.tab, r, {l})
           /\ page' = [page EXCEPT ![l.tab] = [@ EXCEPT !.of = l.what, !.record = r, !.edited = FALSE,
                                                        !.loading = FALSE]]
    /\ UNCHANGED <<rows, list, save, purged>>

\* Fault: only an answer ends the loading.
RecordFailsLoading(l) ==
    /\ l \in loads /\ l.kind = "record"
    /\ loads' = loads \ {l}
    /\ UNCHANGED <<rows, list, page, photos, save, purged>>

RecordFails(l) ==
    /\ l \in loads /\ l.kind = "record"
    /\ loads' = loads \ {l}
    /\ page' = [page EXCEPT ![l.tab] = [@ EXCEPT !.loading = FALSE]]
    /\ UNCHANGED <<rows, list, photos, save, purged>>

ImageAnswer(l) ==
    /\ l \in loads /\ l.kind \in Sides
    /\ loads' = loads \ {l}
    /\ photos' = photos \cup {l}
    /\ UNCHANGED <<rows, list, page, save, purged>>

ImageFails(l) ==
    /\ l \in loads /\ l.kind \in Sides
    /\ loads' = loads \ {l}
    /\ UNCHANGED <<rows, list, page, photos, save, purged>>

Ready(t) == page[t].of # None /\ ~page[t].loading

\* updateField: possible while a save is under way.
Edit(t) ==
    /\ Ready(t) /\ ~page[t].edited
    /\ page' = [page EXCEPT ![t] = [@ EXCEPT !.edited = TRUE]]
    /\ UNCHANGED <<rows, list, photos, loads, save, purged>>

\* Fault: only the photo of the front is worth a question.
AsksAboutFront(decision, r) == decision = "delete" /\ "front" \in r.images

\* decide asks before a decision that deletes images, as far as the page knows.
Asks(decision, r) == decision = "delete" /\ r.images # {}

\* Save, or a decision; declining the question does nothing.  Every field the
\* page shows is sent, for the record in the address.
Send(t, decision) ==
    /\ Ready(t) /\ ~page[t].saving
    /\ save[t].pc = "idle"
    /\ page' = [page EXCEPT ![t] = [@ EXCEPT !.saving = TRUE, !.edited = FALSE]]
    /\ save' = [save EXCEPT ![t] =
                  [pc |-> "sent", id |-> page[t].id, of |-> page[t].of, decide |-> decision,
                   confirmed |-> Asks(decision, page[t].record), here |-> TRUE, answer |-> AnyRow]]
    /\ UNCHANGED <<rows, list, photos, loads, purged>>

(***************************************************************************)
(* update, as the page sees it: one step that writes, or refuses.          *)
(***************************************************************************)
Updated(r, decision) ==
    LET purges == decision = "delete" /\ r.images # {}
    IN  [images |-> IF purges THEN {} ELSE r.images, deleted |-> r.deleted \/ purges]

Update(t) ==
    /\ save[t].pc = "sent"
    /\ LET old == rows[save[t].id]
           new == Updated(old, save[t].decide)
       IN  /\ rows' = [rows EXCEPT ![save[t].id] = new]
           /\ save' = [save EXCEPT ![t] = [@ EXCEPT !.pc = "written", !.answer = new]]
           /\ purged' = IF new.images = old.images \/ purged = "unasked" THEN purged
                        ELSE IF save[t].confirmed THEN "confirmed"
                        ELSE IF save[t].of = save[t].id THEN "unasked" ELSE "elsewhere"
    /\ UNCHANGED <<list, page, photos, loads>>

\* A colleague saves or decides in a browser of their own.
Colleague(id, decision) ==
    /\ rows' = [rows EXCEPT ![id] = Updated(@, decision)]
    /\ UNCHANGED <<list, page, photos, loads, save, purged>>

Refuse(t) ==
    /\ save[t].pc = "sent"
    /\ save' = [save EXCEPT ![t] = [@ EXCEPT !.pc = "refused"]]
    /\ UNCHANGED <<rows, list, page, photos, loads, purged>>

\* The answer replaces record and form, edits made meanwhile included, if the
\* page is still there.
SaveAnswer(t) ==
    /\ save[t].pc = "written"
    /\ save' = [save EXCEPT ![t] = NoSave]
    /\ IF save[t].here
       THEN /\ Holds(t, save[t].answer, {})
            /\ page' = [page EXCEPT ![t] = [@ EXCEPT !.of = save[t].id, !.record = save[t].answer,
                                                     !.edited = FALSE, !.saving = FALSE]]
       ELSE UNCHANGED <<page, photos, loads>>
    /\ UNCHANGED <<rows, list, purged>>

\* Refused, lost or timed out, whether or not the record was written.  A PATCH
\* the page gave up on may be written still: that is a step of Colleague.
SaveFails(t) ==
    /\ save[t].pc # "idle"
    /\ save' = [save EXCEPT ![t] = NoSave]
    /\ page' = IF save[t].here
               THEN [page EXCEPT ![t] = [@ EXCEPT !.saving = FALSE]] ELSE page
    /\ UNCHANGED <<rows, list, photos, loads, purged>>

(***************************************************************************)
(* 401: the page forgets the session and goes to the sign-in page, even if *)
(* it was a page left meanwhile that had asked.                            *)
(***************************************************************************)
Unauthorized(t) ==
    /\ \E l \in LoadsOf(t) : l.kind \in {"list", "record"}
    /\ Close(t)
    /\ UNCHANGED <<rows, purged>>

SaveUnauthorized(t) ==
    /\ save[t].pc = "sent"
    /\ list' = [list EXCEPT ![t] = NoList]
    /\ page' = [page EXCEPT ![t] = NoPage]
    /\ loads' = loads \ LoadsOf(t)
    /\ Left(t)
    /\ save' = [save EXCEPT ![t] = NoSave]
    /\ UNCHANGED <<rows, purged>>

Navigates(t) ==
    \/ Leave(t) \/ OpenDashboard(t)
    \/ \E f \in Filters : SetFilter(t, f)
    \/ \E id \in Ids : OpenRecord(t, id) \/ Jump(t, id)

Edits(t) ==
    \/ Edit(t)
    \/ \E decision \in Decisions : Send(t, decision)

Loads(l) ==
    \/ ListAnswer(l) \/ ListFails(l)
    \/ RecordAnswer(l) \/ RecordFails(l)
    \/ ImageAnswer(l) \/ ImageFails(l)

Saves(t) == SaveAnswer(t) \/ SaveFails(t)

Next ==
    \/ \E t \in Tabs : \/ Navigates(t) \/ Edits(t) \/ Update(t) \/ Refuse(t) \/ Saves(t)
                       \/ Unauthorized(t) \/ SaveUnauthorized(t)
    \/ \E l \in loads : Loads(l)
    \/ \E id \in Ids, decision \in Decisions : Colleague(id, decision)

Spec == Init /\ [][Next]_vars

\* Every call ends, in an answer or in axios's timeout of 30 s.
FairSpec ==
    /\ Spec
    /\ \A t \in Tabs : WF_vars(Saves(t))
    /\ \A t \in Tabs, id \in Ids : WF_vars(Loads(Asking(t, "record", id)))

(***************************************************************************)
(* Properties.                                                             *)
(***************************************************************************)

TypeOK ==
    /\ rows \in [Ids -> Row]
    /\ list \in [Tabs -> Dashboard]
    /\ page \in [Tabs -> Page]
    /\ photos \subseteq Load
    /\ loads \subseteq Load
    /\ save \in [Tabs -> Save]
    /\ purged \in {"never", "confirmed", "elsewhere", "unasked"}

\* What the dashboard shows, when it claims to be done, is the answer to the
\* filter it shows, however fast filters were changed and whatever answer came
\* last (the abort in Dashboard's effect).
ShowsWhatWasAsked ==
    \A t \in Tabs : list[t].open /\ ~list[t].loading /\ ~list[t].failed
                        => list[t].shown = list[t].filter

\* No decision taken on a record's own page deletes its photos without staff
\* having been asked, however old the page's copy of the record, and whatever
\* colleagues and earlier pages of the tab do meanwhile (decide).
AsksBeforeDeleting == purged # "unasked"

\* "Moving to any of these deletes the guest's ID photo, so the reviewer is told
\* before it happens" (RegistrationDetail.jsx:22).  After a jump in the history
\* the page shows, and asks about, the record before, and saves to the next.
ToldBeforeItHappens == purged \notin {"elsewhere", "unasked"}

\* What staff typed and did not send is lost only with the page, to the answer
\* of the tab's own save, or to the record the address names: never to a load
\* that was superseded (the load effect's abort).
EditsOutliveLoads ==
    [][\A t \in Tabs :
          page[t].edited /\ ~page'[t].edited =>
              \/ page'[t].id = None \/ page'[t].saving
              \/ save[t].pc = "written" \/ page'[t].of = page'[t].id]_vars

\* A photo is held in a tab only while the tab's page is at its record, and as
\* long as the page believes there is one (IdDocumentPreview's cleanup).
PhotosReleased ==
    \A p \in photos :
        /\ p.what = page[p.tab].id
        /\ page[p.tab].of # None /\ p.kind \in Previewed(page[p.tab].record)

\* A page does not wait for ever for the record it is at, nor for its save,
\* whatever fails and whoever leaves.
PageSettles ==
    \A t \in Tabs :
        /\ \A id \in Ids : (page[t].loading /\ page[t].id = id) ~> (~page[t].loading \/ page[t].id # id)
        /\ page[t].saving ~> ~page[t].saving

(***************************************************************************)
(* The pages and the handlers agree on the table: module Registrations has *)
(* the steps of update, and implements PhotoRecords as well.               *)
(***************************************************************************)
Records == INSTANCE PhotoRecords WITH
    Photos  <- Sides,
    known   <- Ids,
    photos  <- [id \in Ids |-> rows[id].images],
    deleted <- {id \in Ids : rows[id].deleted}

\* update, in one step here: what it does to a row is what the table allows.
KeepsRecords == Records!Spec
=============================================================================
