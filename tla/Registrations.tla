--------------------------- MODULE Registrations ---------------------------
(***************************************************************************)
(* The life of an ID image: stored by POST /api/document/scan, attached    *)
(* to a registration by POST /api/registrations, read by signed-in staff,  *)
(* purged by the PATCH that records the review decision, and swept when no *)
(* registration ever came to point at it.                                  *)
(*                                                                         *)
(* Every `await` on the bucket or on the database is a point where another *)
(* request can run, so each handler is one action per await.  The database *)
(* and the bucket are not covered by one transaction.                      *)
(***************************************************************************)
EXTENDS Naturals, FiniteSets

CONSTANTS
    Keys,        \* storage keys; buildKey draws 128 random bits, so a key is used once
    RegIds,      \* registration ids (cuid)
    Guests,      \* open registration forms
    Staff,       \* signed-in staff; each has at most one PATCH in flight
    Viewers,     \* document requests in flight
    Sweepers,    \* sweeps in flight: the interval's, and the scheduled request's
    Decisions,   \* the statuses staff ask for
    PromptForms, \* TRUE: no form stays open longer than ORPHAN_UPLOAD_TTL_MINUTES
    None         \* null

Statuses == {"PENDING", "APPROVED", "CHECKED_IN", "REJECTED"}

ASSUME ConstantsAssumption ==
    /\ None \notin Keys \cup RegIds \cup Staff \cup Statuses
    /\ Decisions \subseteq Statuses
    /\ PromptForms \in BOOLEAN

Sides == {"front", "back"}
PurgeAtStatuses == {"APPROVED", "CHECKED_IN", "REJECTED"}

VARIABLES
    stored,     \* keys of the objects in the bucket
    minted,     \* keys buildKey has handed out (history)
    aged,       \* keys whose object is older than the orphan cutoff
    rows,       \* the Registration table
    created,    \* ids of the rows that exist
    submitted,  \* the images each row was created with (history)
    scans,      \* scan requests between storage.save and their answer
    form,       \* the key each open form holds for each side
    rendered,   \* those keys as React last rendered the form
    job,        \* PATCH requests in flight
    view,       \* document requests in flight
    sweep       \* sweeps in flight

bucket == <<stored, minted, aged>>
table  == <<rows, created, submitted>>
guest  == <<scans, form, rendered>>
vars   == <<bucket, table, guest, job, view, sweep>>

Row  == [status : Statuses, key : [Sides -> Keys \cup {None}],
         deletedAt : BOOLEAN, reviewer : Staff \cup {None}]
Scan == [guest : Guests, side : Sides, key : Keys]
Job  == [pc : {"idle", "purge", "write"}, id : RegIds \cup {None},
         snap : [Sides -> Keys \cup {None}], status : Statuses \cup {None},
         cleared : SUBSET Sides, reviews : BOOLEAN]
View == [pc : {"idle", "read", "send"}, id : RegIds \cup {None}, key : Keys \cup {None}]
Sweep == [pc : {"idle", "query", "remove"}, keys : SUBSET Keys]

(***************************************************************************)
(* NoImages is the pair of null columns; Images drops the nulls.           *)
(***************************************************************************)
NoImages == [s \in Sides |-> None]
Images(columns) == {columns[s] : s \in Sides} \ {None}

IdleJob == [pc |-> "idle", id |-> None, snap |-> NoImages, status |-> None,
            cleared |-> {}, reviews |-> FALSE]
IdleView == [pc |-> "idle", id |-> None, key |-> None]
IdleSweep == [pc |-> "idle", keys |-> {}]
BlankRow == [status |-> "PENDING", key |-> NoImages, deletedAt |-> FALSE, reviewer |-> None]

Referenced == UNION {Images(rows[id].key) : id \in created}
HeldBy(g) == Images(form[g]) \cup Images(rendered[g])
             \cup {m.key : m \in {n \in scans : n.guest = g}}
Held == UNION {HeldBy(g) : g \in Guests}

Init ==
    /\ stored = {} /\ minted = {} /\ aged = {}
    /\ rows = [id \in RegIds |-> BlankRow]
    /\ created = {}
    /\ submitted = [id \in RegIds |-> {}]
    /\ scans = {}
    /\ form = [g \in Guests |-> NoImages]
    /\ rendered = [g \in Guests |-> NoImages]
    /\ job = [w \in Staff |-> IdleJob]
    /\ view = [v \in Viewers |-> IdleView]
    /\ sweep = [s \in Sweepers |-> IdleSweep]

(***************************************************************************)
(* Guests.                                                                 *)
(***************************************************************************)

\* Fault: the key is derived from the photo, so a second upload reuses it.
ScanSaveByContent(g, s, k) ==
    /\ k \in Keys \ stored
    /\ minted' = minted \cup {k}
    /\ stored' = stored \cup {k}
    /\ scans' = scans \cup {[guest |-> g, side |-> s, key |-> k]}
    /\ UNCHANGED <<aged, table, form, rendered, job, view, sweep>>

\* scan: the image is saved before anything is decoded.
ScanSave(g, s, k) ==
    /\ k \in Keys \ minted
    /\ minted' = minted \cup {k}
    /\ stored' = stored \cup {k}
    /\ scans' = scans \cup {[guest |-> g, side |-> s, key |-> k]}
    /\ UNCHANGED <<aged, table, form, rendered, job, view, sweep>>

\* The answer reaches the form, in whatever order decoding finished, and
\* replaces the key the slot held.  A photo of the other side of the card is
\* moved to the slot of that side, and its own slot emptied, if the ref finds
\* that slot free; the ref knows the slots as they were last rendered.
ScanAnswer(m, detected) ==
    LET moved == detected # m.side /\ rendered[m.guest][detected] = None
    IN  /\ m \in scans
        /\ scans' = scans \ {m}
        /\ form' = [form EXCEPT ![m.guest] =
                      IF moved THEN [NoImages EXCEPT ![detected] = m.key]
                      ELSE [@ EXCEPT ![m.side] = m.key]]
        /\ UNCHANGED <<rendered, bucket, table, job, view, sweep>>

\* React renders the form, and the effect brings its refs up to date.
Render(g) ==
    /\ rendered[g] # form[g]
    /\ rendered' = [rendered EXCEPT ![g] = form[g]]
    /\ UNCHANGED <<scans, form, bucket, table, job, view, sweep>>

\* The process dies, or the connection does, before the answer arrives.
ScanLost(m) ==
    /\ m \in scans
    /\ scans' = scans \ {m}
    /\ UNCHANGED <<bucket, table, form, rendered, job, view, sweep>>

\* The tab is closed: nothing remembers the keys it held.
CloseForm(g) ==
    /\ HeldBy(g) # {}
    /\ form' = [form EXCEPT ![g] = NoImages]
    /\ rendered' = [rendered EXCEPT ![g] = NoImages]
    /\ scans' = {m \in scans : m.guest # g}
    /\ UNCHANGED <<bucket, table, job, view, sweep>>

\* create.  The row takes the keys the form showed when Submit was pressed, not
\* those of answers still to be rendered; nothing looks in the bucket.  If the
\* answer is lost the form keeps its keys and the guest may press Submit again.
Create(g, id, answered) ==
    /\ id \in RegIds \ created
    /\ created' = created \cup {id}
    /\ rows' = [rows EXCEPT ![id] = [BlankRow EXCEPT !.key = rendered[g]]]
    /\ submitted' = [submitted EXCEPT ![id] = Images(rendered[g])]
    /\ form' = IF answered THEN [form EXCEPT ![g] = NoImages] ELSE form
    /\ rendered' = IF answered THEN [rendered EXCEPT ![g] = NoImages] ELSE rendered
    /\ scans' = IF answered THEN {m \in scans : m.guest # g} ELSE scans
    /\ UNCHANGED <<bucket, job, view, sweep>>

\* An object passes the orphan cutoff.
Age(k) ==
    /\ k \in stored \ aged
    /\ PromptForms => k \notin Held
    /\ aged' = aged \cup {k}
    /\ UNCHANGED <<stored, minted, table, guest, job, view, sweep>>

(***************************************************************************)
(* update: findUnique, then one storage.remove per stored side, then one   *)
(* prisma update.                                                          *)
(***************************************************************************)
\* Fault: the purge was not extended when the back side was added.
FrontSideOnly(columns) == {s \in {"front"} : columns[s] # None}

StoredSides(columns) == {s \in Sides : columns[s] # None}

\* Fault: a registration photographed on the back only is not purged.
ShouldPurgeFront(status, columns) ==
    status \in PurgeAtStatuses /\ columns["front"] # None
ShouldPurge(status, columns) == status \in PurgeAtStatuses /\ StoredSides(columns) # {}

\* The row is read; status = None is a PATCH that does not carry one.
UpdateRead(w, id, status) ==
    /\ job[w].pc = "idle"
    /\ id \in created
    /\ job' = [job EXCEPT ![w] =
                 [pc |-> IF ShouldPurge(status, rows[id].key) THEN "purge" ELSE "write",
                  id |-> id, snap |-> rows[id].key, status |-> status, cleared |-> {},
                  reviews |-> status # None /\ status # rows[id].status]]
    /\ UNCHANGED <<bucket, table, guest, view, sweep>>

\* The loop takes the front before the back.
NextSide(w, s) ==
    /\ s \in StoredSides(job[w].snap) \ job[w].cleared
    /\ s = "back" => "front" \notin StoredSides(job[w].snap) \ job[w].cleared

\* Fault: the deletion is queued and the write does not wait for it.
UpdatePurgeLater(w, s) ==
    /\ job[w].pc = "purge"
    /\ NextSide(w, s)
    /\ job' = [job EXCEPT ![w] =
                 [@ EXCEPT !.cleared = job[w].cleared \cup {s},
                           !.pc = IF job[w].cleared \cup {s} = StoredSides(job[w].snap)
                                  THEN "write" ELSE "purge"]]
    /\ UNCHANGED <<bucket, table, guest, view, sweep>>

\* Fault: removing an object that is not there is an error.
UpdatePurgeExisting(w, s) ==
    /\ job[w].snap[s] \in stored
    /\ job[w].pc = "purge"
    /\ NextSide(w, s)
    /\ stored' = stored \ {job[w].snap[s]}
    /\ job' = [job EXCEPT ![w] =
                 [@ EXCEPT !.cleared = job[w].cleared \cup {s},
                           !.pc = IF job[w].cleared \cup {s} = StoredSides(job[w].snap)
                                  THEN "write" ELSE "purge"]]
    /\ UNCHANGED <<minted, aged, table, guest, view, sweep>>

\* storage.remove succeeds, on a missing object too.
UpdatePurge(w, s) ==
    /\ job[w].pc = "purge"
    /\ NextSide(w, s)
    /\ stored' = stored \ {job[w].snap[s]}
    /\ job' = [job EXCEPT ![w] =
                 [@ EXCEPT !.cleared = job[w].cleared \cup {s},
                           !.pc = IF job[w].cleared \cup {s} = StoredSides(job[w].snap)
                                  THEN "write" ELSE "purge"]]
    /\ UNCHANGED <<minted, aged, table, guest, view, sweep>>

\* storage.remove throws and the answer is 502.  The bucket may have carried
\* out the deletion whose answer was lost.
UpdatePurgeFails(w, s, removed) ==
    /\ job[w].pc = "purge"
    /\ NextSide(w, s)
    /\ stored' = IF removed THEN stored \ {job[w].snap[s]} ELSE stored
    /\ job' = [job EXCEPT ![w] = IdleJob]
    /\ UNCHANGED <<minted, aged, table, guest, view, sweep>>

\* Fault: the reviewer is taken from the wrong id of the request.
ReviewerFromParams(w) == IF job[w].reviews THEN job[w].id ELSE rows[job[w].id].reviewer

Reviewer(w) == IF job[w].reviews THEN w ELSE rows[job[w].id].reviewer

\* Fault: the columns the payload does not name are written back as they were read.
KeysAsRead(w) == [s \in Sides |-> IF s \in job[w].cleared THEN None ELSE job[w].snap[s]]

KeysLeft(w) ==
    [s \in Sides |-> IF s \in job[w].cleared THEN None ELSE rows[job[w].id].key[s]]

\* Only the columns in `data` are written; the rest keep what they hold now.
UpdateWrite(w) ==
    /\ job[w].pc = "write"
    /\ rows' = [rows EXCEPT ![job[w].id] =
                  [status    |-> IF job[w].status = None THEN @.status ELSE job[w].status,
                   key       |-> KeysLeft(w),
                   deletedAt |-> @.deletedAt \/ job[w].cleared # {},
                   reviewer  |-> Reviewer(w)]]
    /\ job' = [job EXCEPT ![w] = IdleJob]
    /\ UNCHANGED <<bucket, created, submitted, guest, view, sweep>>

\* The process serving the request dies, or prisma throws: no more awaits run.
UpdateAborted(w) ==
    /\ job[w].pc # "idle"
    /\ job' = [job EXCEPT ![w] = IdleJob]
    /\ UNCHANGED <<bucket, table, guest, view, sweep>>

(***************************************************************************)
(* getDocument: findUnique, then storage.read of the key found there, then *)
(* the answer.  A row without the key is answered 404 at once.             *)
(***************************************************************************)
GetDocumentRow(v, id, s) ==
    /\ view[v].pc = "idle"
    /\ id \in created
    /\ rows[id].key[s] # None
    /\ view' = [view EXCEPT ![v] = [pc |-> "read", id |-> id, key |-> rows[id].key[s]]]
    /\ UNCHANGED <<bucket, table, guest, job, sweep>>

\* The bucket serves the object, or has none by that name: 404.
GetDocumentBytes(v) ==
    /\ view[v].pc = "read"
    /\ view' = [view EXCEPT ![v] =
                  IF view[v].key \in stored THEN [@ EXCEPT !.pc = "send"] ELSE IdleView]
    /\ UNCHANGED <<bucket, table, guest, job, sweep>>

\* The bytes that were read go out, whatever became of the object meanwhile.
GetDocumentSend(v) ==
    /\ view[v].pc = "send"
    /\ view' = [view EXCEPT ![v] = IdleView]
    /\ UNCHANGED <<bucket, table, guest, job, sweep>>

\* storage.read throws, or the viewer goes away.
GetDocumentFails(v) ==
    /\ view[v].pc \in {"read", "send"}
    /\ view' = [view EXCEPT ![v] = IdleView]
    /\ UNCHANGED <<bucket, table, guest, job, sweep>>

(***************************************************************************)
(* sweepOrphanedUploads: storage.list, one query over both columns, then   *)
(* storage.remove for every candidate the query did not return.            *)
(***************************************************************************)
SweepList(s) ==
    /\ sweep[s].pc = "idle"
    /\ stored \cap aged # {}
    /\ sweep' = [sweep EXCEPT ![s] = [pc |-> "query", keys |-> stored \cap aged]]
    /\ UNCHANGED <<bucket, table, guest, job, view>>

Sweeping(doomed) == IF doomed = {} THEN IdleSweep ELSE [pc |-> "remove", keys |-> doomed]

\* Fault: the query asks about the front column only.
SweepQueryFront(s) ==
    /\ sweep[s].pc = "query"
    /\ sweep' = [sweep EXCEPT ![s] =
                    Sweeping(sweep[s].keys \ {rows[id].key["front"] : id \in created})]
    /\ UNCHANGED <<bucket, table, guest, job, view>>

SweepQuery(s) ==
    /\ sweep[s].pc = "query"
    /\ sweep' = [sweep EXCEPT ![s] = Sweeping(sweep[s].keys \ Referenced)]
    /\ UNCHANGED <<bucket, table, guest, job, view>>

SweepRemove(s, k) ==
    /\ sweep[s].pc = "remove"
    /\ k \in sweep[s].keys
    /\ stored' = stored \ {k}
    /\ sweep' = [sweep EXCEPT ![s] = Sweeping(sweep[s].keys \ {k})]
    /\ UNCHANGED <<minted, aged, table, guest, job, view>>

\* storage.remove throws: logged, and the loop goes on to the next candidate.
SweepRemoveFails(s, k) ==
    /\ sweep[s].pc = "remove"
    /\ k \in sweep[s].keys
    /\ sweep' = [sweep EXCEPT ![s] = Sweeping(sweep[s].keys \ {k})]
    /\ UNCHANGED <<bucket, table, guest, job, view>>

\* Fault: a sweep that throws is still taken to be running.
SweepAbortedRunning(s) ==
    /\ sweep[s].pc # "idle"
    /\ sweep' = [sweep EXCEPT ![s] = [pc |-> "remove", keys |-> {}]]
    /\ UNCHANGED <<bucket, table, guest, job, view>>

\* The query throws, or the process stops: the next sweep starts over.
SweepAborted(s) ==
    /\ sweep[s].pc # "idle"
    /\ sweep' = [sweep EXCEPT ![s] = IdleSweep]
    /\ UNCHANGED <<bucket, table, guest, job, view>>

(***************************************************************************)
(* The specification.                                                      *)
(***************************************************************************)
GuestStep ==
    \/ \E g \in Guests, s \in Sides, k \in Keys : ScanSave(g, s, k)
    \/ \E m \in scans, detected \in Sides : ScanAnswer(m, detected)
    \/ \E g \in Guests : Render(g)
    \/ \E m \in scans : ScanLost(m)
    \/ \E g \in Guests : CloseForm(g)
    \/ \E g \in Guests, id \in RegIds, answered \in BOOLEAN : Create(g, id, answered)
    \/ \E k \in Keys : Age(k)

StaffStep ==
    \/ \E w \in Staff, id \in RegIds, status \in Decisions \cup {None} :
          UpdateRead(w, id, status)
    \/ \E w \in Staff, s \in Sides : UpdatePurge(w, s)
    \/ \E w \in Staff, s \in Sides, removed \in BOOLEAN : UpdatePurgeFails(w, s, removed)
    \/ \E w \in Staff : UpdateWrite(w)
    \/ \E w \in Staff : UpdateAborted(w)

ViewStep ==
    \/ \E v \in Viewers, id \in RegIds, s \in Sides : GetDocumentRow(v, id, s)
    \/ \E v \in Viewers : GetDocumentBytes(v)
    \/ \E v \in Viewers : GetDocumentSend(v)
    \/ \E v \in Viewers : GetDocumentFails(v)

SweepStep ==
    \/ \E s \in Sweepers : SweepList(s)
    \/ \E s \in Sweepers : SweepQuery(s)
    \/ \E s \in Sweepers, k \in Keys : SweepRemove(s, k)
    \/ \E s \in Sweepers, k \in Keys : SweepRemoveFails(s, k)
    \/ \E s \in Sweepers : SweepAborted(s)

Next == GuestStep \/ StaffStep \/ ViewStep \/ SweepStep

Spec == Init /\ [][Next]_vars

(***************************************************************************)
(* Fairness.  Objects grow old.  The sweep is on a timer (or a schedule),  *)
(* and a sweep cut short is started again, so no awaiting step of it is    *)
(* put off for ever however often processes stop.  Staff told "Please      *)
(* retry" do retry.  Guests owe nobody anything.                           *)
(***************************************************************************)
Sweeps(s) ==
    /\ SF_vars(SweepList(s))
    /\ SF_vars(SweepQuery(s))
    /\ \A k \in Keys : SF_vars(SweepRemove(s, k))

\* Every request ends, one way or another, and staff w keep asking for a
\* decision on every registration.
Decides(w) ==
    /\ WF_vars(UpdateWrite(w) \/ UpdateAborted(w))
    /\ \A id \in RegIds :
        /\ SF_vars(\E status \in Decisions : UpdateRead(w, id, status))
        /\ \A s \in Sides : SF_vars(job[w].id = id /\ UpdatePurge(w, s))
        /\ SF_vars(job[w].id = id /\ job[w].status # None /\ UpdateWrite(w))

FairSpec ==
    /\ Spec
    /\ \A k \in Keys : WF_vars(Age(k))
    /\ \A s \in Sweepers : Sweeps(s)
    /\ \A w \in Staff : Decides(w)

(***************************************************************************)
(* Properties.                                                             *)
(***************************************************************************)

\* Every variable holds a value of its type.
TypeOK ==
    /\ stored \subseteq Keys /\ minted \subseteq Keys /\ aged \subseteq Keys
    /\ rows \in [RegIds -> Row]
    /\ created \subseteq RegIds
    /\ submitted \in [RegIds -> SUBSET Keys]
    /\ scans \subseteq Scan
    /\ form \in [Guests -> [Sides -> Keys \cup {None}]]
    /\ rendered \in [Guests -> [Sides -> Keys \cup {None}]]
    /\ job \in [Staff -> Job]
    /\ view \in [Viewers -> View]
    /\ sweep \in [Sweepers -> Sweep]

\* update, PURGE_AT_STATUSES: whatever requests raced or died on the way, a
\* registration that carries a review decision has no image attached, and no
\* image it was submitted with is left in the bucket.
ReviewedImagesGone ==
    \A id \in created :
        rows[id].status \in PurgeAtStatuses =>
            rows[id].key = NoImages /\ submitted[id] \cap stored = {}

\* update, idDocumentDeletedAt: the disposal record is exact.  Set, both sides
\* are gone from the row and from the bucket; not set, the row still points at
\* every image it was submitted with, so none was dropped without a trace.
DisposalRecordExact ==
    \A id \in created :
        IF rows[id].deletedAt
        THEN rows[id].key = NoImages /\ submitted[id] \cap stored = {}
        ELSE Images(rows[id].key) = submitted[id]

\* STAFF_IMMUTABLE_FIELDS: a stale PATCH never re-points a registration at an
\* image, nor brings back a key that another request purged meanwhile.
KeysOnlyCleared ==
    [][\A id \in created, s \in Sides :
          rows'[id].key[s] \in {rows[id].key[s], None}]_vars

\* getDocument: the key is read from the row and the bytes later.  Once a review
\* decision is recorded no request gets the image out of the bucket any more, not
\* even one that had found the key in the row before.
NoImageReadAfterReview ==
    [][\A v \in Viewers :
          view[v].pc = "read" /\ view'[v].pc = "send" =>
              rows[view[v].id].status \notin PurgeAtStatuses]_vars

\* sweepOrphanedUploads: provided forms do not outlive the orphan cutoff, an
\* object the sweep has decided to delete does not become a registration's
\* image before the deletion reaches it.
SweepSparesRegistered ==
    \A s \in Sweepers : sweep[s].pc = "remove" => sweep[s].keys \cap Referenced = {}

\* sweepOrphanedUploads: an image no form and no registration knows about is
\* not kept for ever, whichever steps of whichever sweeps failed.
OrphanEventuallySwept ==
    \A k \in Keys :
        (k \in stored /\ k \notin Held \cup Referenced) ~> k \notin stored

\* update, "Please retry": a purge cut short half way never blocks the review;
\* a member of staff who keeps trying gets the decision recorded.
ReviewEventuallyRecorded ==
    \A id \in RegIds : id \in created ~> rows[id].status \in PurgeAtStatuses

(***************************************************************************)
(* The review flow keeps the promise of module Disposal.                   *)
(***************************************************************************)
Promise == INSTANCE Disposal WITH
    bucket   <- stored,
    used     <- minted,
    known    <- created,
    attached <- submitted,
    disposed <- {id \in created : rows[id].deletedAt},
    reviewed <- {id \in created : rows[id].status \in PurgeAtStatuses}

\* Every step of every request is a step of Disposal, or changes nothing there.
KeepsPromise == Promise!Spec

(***************************************************************************)
(* To whoever reads only the table, update is one step: its purge and its  *)
(* write, however far apart, are one Delete of module PhotoRecords.        *)
(***************************************************************************)
PhotosOf(id) == {<<s, rows[id].key[s]>> : s \in StoredSides(rows[id].key)}

Records == INSTANCE PhotoRecords WITH
    Ids     <- RegIds,
    Photos  <- Sides \X Keys,
    known   <- created,
    photos  <- [id \in RegIds |-> PhotosOf(id)],
    deleted <- {id \in created : rows[id].deletedAt}

\* update, "Both sides go together": whichever requests race or die, a row gains
\* no photo, loses both or none, and reports a deletion exactly when it does.
KeepsRecords == Records!Spec

(***************************************************************************)
(* The guests here handle keys as the page of module RegisterForm does:    *)
(* both implement module PhotoSlots.                                       *)
(***************************************************************************)
Slots == INSTANCE PhotoSlots WITH
    Forms   <- Guests,
    keys    <- form,
    uploads <- scans,
    spent   <- minted

\* submitScan, setSide, moveSide: while images are swept, purged and submitted
\* again, a form's keys still change by the answers to its own uploads alone, and
\* every upload has a key that no image ever had.
KeepsSlots == Slots!Spec
=============================================================================
