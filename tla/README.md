# Verification of QuickCheckIn

QuickCheckIn lets a hotel guest photograph an ID, fill in a registration form and submit it, and lets
hotel staff review it. It holds two things a mistake would hurt: photographs of identity documents,
which must be deleted once a member of staff has reviewed the registration, and staff accounts, whose
sessions must end when an operator says so. This directory holds TLA+ models of the parts of the
program where many actors meet, the TLC runs that check them on small instances, and proofs, checked
by TLAPS, that hold for any number of guests, staff, images and requests.

Everything is written from the code under `src/`. `PROJECT.json` maps each definition to the lines it
stands for.

## Inventory

| Component | State it keeps | Operations | Meets |
|---|---|---|---|
| ID images and review (`registrations.controller.js`, `document.controller.js`, `storage.js`) | objects in the bucket; `status`, two keys, `idDocumentDeletedAt`, reviewer of each row | `scan` stores, `create` attaches, `update` purges and decides, `getDocument` reads | guests, staff, the sweep; bucket and database share no transaction |
| Orphan sweep (`orphanSweeper.js`, `maintenance.routes.js`) | none between sweeps | list, query, remove one by one | bucket and table, while guests and staff work on both |
| Staff sessions (`auth.controller.js`, `auth.middleware.js`, `client.js` and the pages) | `isActive`, `tokenVersion`; a token per sign-in; `localStorage` | sign in, send, verify, look up, answer, sign out, expire | operator scripts |
| Operator scripts (`staff-access.js`, `seed.js`) | the `StaffUser` table | disable, enable, signout, signout --all, seed | sign-ins and requests under way |
| Record validation (`validation.js`, `idNumber.js`) | none | the two schemas, masking | runs inside `create` and `update`, against a row that may change before the write |
| Guest form (`RegisterForm.jsx`, `combineFields.js`, `IdUploader`, `EAadhaarPdf`) | slots, values and their sources, one scanning flag | scans of three kinds, moving a photo, autofill, submit | `scan`, `create`; answers come in any order |
| Camera panel (`QrCamera.jsx`) | a camera stream and a loop per opening | load the reader, ask for the camera, decode frames, take a photo, clean up | the form, which closes it; the browser's permission prompt; its own earlier openings |
| Staff pages (`Dashboard.jsx`, `RegistrationDetail.jsx`, `IdDocumentPreview.jsx`) | a list and its filter; a copy of the record, edits in progress; object URLs of photos | filter, load, edit, save, decide, preview | `update`; colleagues' pages; the browser's history |
| OCR (`aadhaarOcr.service.js`) | one shared worker | read a card in a time budget, replace a lost worker | every scan in flight |
| QR (`qrDecoder.service.js`, `aadhaarQr.service.js`) | compiled decoder, loaded once | decode by ZXing or a sweep; parse | scan, start-up |
| Rate limits (`rateLimit.middleware.js`) | a counter per client and window | count, refuse, give back | all routes |
| Process life cycle (`index.js`, `api/index.js`) | listener, timer, shared start-up promise | start, shut down, make ready | all of the above |

The hard behaviours, at their lines, are the `hazards` of `PROJECT.json`. The ones that shaped the
models:

- every `await` is a place where another request runs, so a value read before one may be stale after;
- the bucket and the row change one after the other, and a process may stop in between;
- answers get lost, and guests and staff try again;
- the sweep deletes on what it read some steps ago;
- a token is judged by a row that scripts change while requests are under way;
- scans share a decoder and a tesseract worker, which may never answer, and each may drop the worker the
  others hold;
- a component that leaves the screen does not stop what it awaits;
- React renders what an answer changed after the code that changed it, so the next answer may be judged on
  what was on screen before.

What makes each component correct:

- *images and review*: nothing of a reviewed registration is left in the bucket; the disposal record
  tells the truth; no stale request re-attaches what a review removed, or still gets it out of the bucket; a review always can
  be completed;
- *sweep*: it spares what a registration points at, and comes to delete what nothing points at;
- *sessions*: nobody is let in on a session that was ended, no script revives one, a refusal is never
  wrong by the time it arrives, and browsers come to forget dead tokens;
- *validation*: the rules hold for the record as stored, not only for each payload;
- *guest form*: typed beats signed beats guessed, in any order of answers and as far as the page has
  rendered them, what is submitted is what is shown, and the page stops waiting;
- *camera panel*: no order of closing, reopening and permission leaves the camera on, or hands over
  what nobody waits for;
- *staff pages*: what is on screen is what was asked for, no decision deletes photos unasked, no edits
  are lost to a late load, and a page stops waiting;
- *scan, OCR, life cycle*: once a photo is stored the guest gets its key, whatever reading it does; a
  worker that hung is not reused; every scan is answered, every shutdown ends, and a cold start is paid for
  once, and again only if it failed.

## Modules

| Module | What it is |
|---|---|
| `Disposal` | abstract: what the review flow promises about images. Six actions on a bucket and a set of registrations, no requests |
| `Registrations` | the handlers, one action per `await`, and the sweep; implements `Disposal` |
| `PhotoRecords` | abstract: the photos of the table's rows. A row gets them when it is submitted and loses all of them at once, with the report of it; implemented by `Registrations` and by `StaffPages` |
| `PhotoSlots` | abstract: the keys in a form's slots, changed only by the answer to an upload. Its one theorem is inherited by what implements it, `RegisterForm` and `Registrations` |
| `RegistrationsProofs` | theorems about `Registrations` |
| `Sessions` | abstract: sessions that begin, finish and end, accounts that are blocked, requests that are admitted |
| `StaffSessions` | sign-in, request check, pages and scripts over `tokenVersion`; implements `Sessions` |
| `StaffSessionsProofs` | theorems about `StaffSessions` |
| `RecordEdits` | the rules between fields of one record, and PATCHes validated early and written late |
| `RecordEditsProofs` | theorems about `RecordEdits` |
| `RegisterForm` | the guest's form: fields and their sources, two photo slots, camera, PDF reader, scans in flight, submit |
| `RegisterFormProofs` | theorems about `RegisterForm` |
| `DocumentScan` | `POST /api/document/scan`, await by await: storing, the shared decoder, the shared tesseract workers, the budget, the sides of the card |
| `Server` | extends `DocumentScan` with what the scans run in: a process that starts and shuts down, or a function instance with its shared preparation |
| `ServerProofs` | theorems about both |
| `QrCamera` | the camera panel: every opening with its run, and photos taken by hand |
| `QrCameraProofs` | theorems about `QrCamera` |
| `StaffPages` | the dashboard and a registration's page in browser tabs: loads, edits, saves, decisions, photos, history |
| `StaffPagesProofs` | theorems about `StaffPages` |
| `MCRegistrations`, `MCStaffSessions`, `MCRecordEdits`, `MCRegisterForm`, `MCServer`, `MCQrCamera`, `MCStaffPages` | extend the above for TLC, with the symmetry used |

A definition whose comment begins with *Fault:* is no part of a specification. It is a plausible wrong
version of the definition after it, kept to show that a property notices the difference; `PROJECT.json`
pairs it with the property it breaks.

### Registrations

State: the bucket (`stored`, and `minted` and `aged` for keys ever handed out and objects past the
orphan cutoff), the table (`rows`, `created`, and the history variable `submitted`: the images a row
was created with), the guests' side (`scans` in flight, `form`, and `rendered`, the keys the page last
rendered), and one record per PATCH (`job`),
document request (`view`) and sweep (`sweep`) in flight.

`scan` is `ScanSave`, then `ScanAnswer` or `ScanLost`; the answer moves a photo of the other side to the
other slot when that was free at the last rendering (`Render`), as the form does. `create` is one action,
`Create`, with the keys on screen when Submit is pressed; its answer may be lost, in which case the form keeps
its keys and may be submitted again. `update` is `UpdateRead`
(findUnique and everything up to the first removal), one `UpdatePurge` or `UpdatePurgeFails` per stored
side, front first, and `UpdateWrite`; it can stop after any of them (`UpdateAborted`). A removal that
fails may still have been carried out. `UpdateWrite` writes only the columns in `data`, over the row as
it is by then. `getDocument` is `GetDocumentRow`, `GetDocumentBytes` when the bucket has served the object, or has none, and
`GetDocumentSend`; `GetDocumentFails` is a read that throws or a viewer who goes away. A sweep is `SweepList`,
`SweepQuery` and a `SweepRemove` or `SweepRemoveFails` per candidate.

Left out: the text fields (see `RecordEdits`), authentication (see `StaffSessions`), what is read off an
image, `list` and `getOne`. No code deletes a registration, so a PATCH never finds its row gone at the
write (P2025).

`Registrations` implements three abstract modules: `Disposal` (bucket and rows), `PhotoRecords` (rows alone,
`KeepsRecords`) and `PhotoSlots` (forms alone, `KeepsSlots`).

### StaffSessions

A token is identified with the sign-in that made it. `login` is `LoginRead` then, after the password
comparison, `LoginSign` or `LoginRefused`, then `SaveSession` when the answer reaches the page. A request
is `Send`, `Verify` (signature and expiry), `Lookup` or `LookupFails`, and `Answer` or `AnswerLost`;
`Answer` does what the pages do, which on a 401 is to clear whatever token the browser holds by then. The
preview of a photo (`IdDocumentPreview`) does not: a 401 for an image is an `AnswerLost`.
Scripts are `OpFind` followed by one of five writes. `isActive` and `tokenVersion` are the columns.
Passwords, and the text of a token, are left out: a token verifies until it expires.

### RecordEdits

One record with its kind of ID, number and dates. Numbers are `masked`, `full` (twelve digits) or `other`
and all kinds of ID but Aadhaar are one. `Absent` is JavaScript's undefined, `None` its null: the schemas
treat them differently, and so does the model. `WholeForms` says who sends PATCHes: only the detail
page, which always sends all these fields, or any client of the API.

### RegisterForm

State: `field` (each autofilled field's text and where it came from: `sources`, with `none` for a field
without an entry), `slot` (per side, the photo shown and the key that will be submitted; a photo's key is
identified with the photo), `scanning` (`scanningSide`), and what is in flight: `scans`, `pdf`, `captures`.
`rendered` is the form as the refs and the buttons know it; `typed` and `disturbed` are history variables. Of the five autofilled fields only `idNumber` is cross-checked,
so `fullName` stands for the four others.

`submitScan` and `submitPdfQr` are split at their one `await`: `SubmitScan` (part of `HandleFile`,
`HandleScanned`, `HandleCaptured`) and `ScanAnswer` or `ScanFails`; `SubmitPdfQr` and `PdfAnswer` or
`PdfFails`. Taking a photo is an await of its own (`Capture`, then `HandleCaptured` or `CaptureFails`), and
its photo is handed over even if the guest has closed the camera meanwhile; so is the text of a PDF whose
reader has left the page (`detached`). Buttons are disabled while `scanning` is set; dropping a file on a slot
is not, and a slot only disables its own input.

The page has the form twice. Setters change `field`, `slot` and `scanning`; what a handler reads is what was last
rendered, either from the values of that rendering (buttons, `handleSubmit`) or through `sidesRef`,
`valuesRef` and `sourcesRef`, which an effect updates after it (lines 78-85). A rendering and the effect behind
it are one step, `Render`. React flushes both before anything else runs when the change is made in an event
of the guest's, so those actions end with `rendered' = Shown'`; what is set after an `await` is rendered at some later
step, perhaps after the next answer. `ApplyScan` (`applyScan` with `combineScan`) decides on `rendered` and
writes what it decided over `field`; `Placed` and `CameraSide` look for a free slot in `rendered`.

What the server makes of an image is `Answer`, external to the page: a signed code has a name or yields
nothing, and only printed text tells which side a photo is. Left out: messages and focus; what happens
inside the camera panel is in `QrCamera`. As far as keys go, the page implements `PhotoSlots` (`KeepsSlots`):
what `Registrations` lets a form do with its keys and what this page does with its slots are then the same
few steps, although one knows nothing of previews and the other nothing of the bucket.

### DocumentScan and Server

State: `zxing`, the decoder all requests share, with its failed load remembered; `current`, which is
`workerPromise`; `worker`, every tesseract worker ever created, named by the request that created it, with
the page-segmentation mode last set on it; and `request`. A request goes through `Receive` (refused, QR
text alone, or a photo), `Save` or `SaveFails`, `Decode` or `StartReading`, and then, region by region,
`SetMode` and `Recognize`, the two awaits of `readRegions` between which another request may set another
mode. `AfterRegion` is the loop of `extractCard`: the side of the slot first, the other side only if that
one is not proven, the number once; `ChooseSide` is `chooseSide`. `Budget` is the other runner of the
race: it answers and drops the current worker, but the reading goes on in the worker it holds, as in the
code. What a photo holds is chosen when the code first looks (`Outcomes`, `Verdicts`, `readable`): finding
the card in the photo and extracting names, dates and addresses from text are represented by what they may
yield. A worker may never be created and a recognition may never end; nothing in the model makes them.

`Server` adds `phase` and `code` for `index.js` and `ready`, `attempt` and `awaits` for `api/index.js`
(`host` says which of the two is deployed). `Closed` is the callback of `server.close`, enabled when no
request is in flight; `ForceExit` the ten-second timer. A request is one scan; other requests would only
add to what `Closed` waits for.

### QrCamera

`panel` is the opening on screen; `run` has, per opening, where its asynchronous function is, its stream,
what its panel shows and whether its frame was handed over; `shot` is the photo by hand. Each await of the
effect is a step, and each check of `cancelled` after one is in that step (`Unless`, `Cancelled`). `Close`
is the effect's cleanup. The form opens the panel only while nothing is being uploaded, which is in
`RegisterForm`; here it may be opened whenever it is closed. Zoom and torch after start-up, hints, and what frames hold are left out.

### StaffPages

Of a record only its photos and the report of their deletion are kept, and of a PATCH only whether its
status deletes them; field values are in `RecordEdits`. `list` and `page` are the two pages' states per
tab, `loads` the GETs in flight (a GET aborted by an effect's cleanup is removed), `save` the tab's PATCH,
`photos` the object URLs. `Jump` is the browser's history leading from one record's page to another's:
the route's element stays mounted, so record, form and `loading` are kept while the effect loads again.
`Update` is the server's `update` in one step, `Registrations` has its steps; both implement `PhotoRecords`. `purged` is history: how
the last deletion of photos by this model's tabs came about.

## What the runs check

| Run | Result | Shows |
|---|---|---|
| `registrations_safety` | holds | races of two PATCHes, a document request, a sweep and a guest over one registration with two photos: `ReviewedImagesGone`, `DisposalRecordExact`, `NoImageReadAfterReview`, and that the flow implements `Disposal`, as far as a reader of the table can tell `PhotoRecords`, and as far as the forms go `PhotoSlots` |
| `registrations_sweep` | holds | `SweepSparesRegistered` when forms do not outlive the cutoff; `OrphanEventuallySwept`, `ReviewEventuallyRecorded` |
| `sessions_safety` | holds | `DisabledSessionsEnded`, `RefusalIsFinal`, `EndedSessionsForgotten`, and that versions implement `Sessions` |
| `edits_forms` | holds | `DatesOrdered`, `AadhaarMasked`, `RecordResavable` for edits made on the detail page |
| `edits_dates` | violated | `DatesOrdered` when a PATCH may be partial |
| `edits_masking` | violated | `AadhaarMasked` when a PATCH may be partial |
| `form_scans` | holds | `TypedKept`, `SignedKept`, `OrderIrrelevant`, `SubmitsWhatItShows`, `WaitEnds`, and that the keys implement `PhotoSlots`, with two photos and a PDF read while the guest types |
| `form_busy` | violated | `BusyWhileUploading`: see below |
| `server_scans` | holds | two scans in a process or an instance: `KeyAlwaysReturned`, `AbandonedNotReused`, `CrossTalkNeedsSharing`, `CleanExitDropsNothing`, `ColdStartPaidOnce`, `ScanEnds`, `ShutdownEnds` |
| `camera_panel` | holds | three openings of the panel: `CameraReleased`, `HandsOverWhileOpen`, `ClosedRunEnds` |
| `staff_pages` | holds | a tab between dashboard and two records, and a colleague: `ShowsWhatWasAsked`, `AsksBeforeDeleting`, `PhotosReleased`, `EditsOutliveLoads`, `PageSettles` |
| `staff_history` | violated | `ToldBeforeItHappens`: see below |

The violated properties are statements of the repository's comments that the code does not keep:

1. *Dates.* `validation.js` line 93 says a stay cannot end before it starts, on update against what the
   record holds. Two overlapping partial PATCHes, one for each date, are each checked against a row
   without the other.
2. *Masking.* `schema.prisma` line 55 and `validation.js` lines 141-144 say no full Aadhaar number is
   ever stored. A PATCH that only relabels a record as Aadhaar is accepted if the number on record has
   twelve digits, and only numbers in the payload are masked. One member of staff and no race are
   enough; the detail page does not get there, because it sends the number too.
3. *Two photos.* `RegisterForm.jsx` line 54 calls `scanningSide` "Which side is mid-upload, or null". Each
   scan sets it and each answer clears it. A guest who picks both photos at once sees the first answer end
   both waits; a form submitted then goes without the second photo's key, though its slot shows it.
4. *History.* `RegistrationDetail.jsx` lines 22-23 say the reviewer is told before a decision deletes
   photos. When the browser's history leads from one record's page to another's, the page keeps the first
   record, and all its controls, until the second has loaded; a decision taken then asks (or does not ask)
   about the first record's photos, and is sent, with the first guest's fields, to the second.

Two more comments do not hold in the models, and are not runs of their own because the properties beside them
say how far they do hold:

- `RegisterForm.jsx` lines 78-80 say that everything that reads the refs runs after the effect has caught up.
  Code after an `await` need not: a printed answer right behind a signed one is combined with the form before
  it and can replace its value, and a photo can be moved over a key set just before. `SignedKept` is
  therefore about values that have been rendered, and `KeepsSlots` about slots that were free when last
  rendered. What the guest types is rendered at once, so `TypedKept` needs no such condition.
- `orphanSweeper.js` lines 11-12 say that objects past the cutoff are not relied on by an in-progress
  submission. Nothing bounds how long a form stays open, and one left open longer than
  `ORPHAN_UPLOAD_TTL_MINUTES` holds a key the sweep removes. `SweepSparesRegistered` is checked for forms that
  do not (`PromptForms`).

Behaviour the models have and no property forbids, because nothing in the repository says otherwise, is
noted at the `hazards`: an image whose bytes were read before a review is still sent after it; a PATCH can put
the status it read back over a colleague's; a failed upload leaves its preview
over the key of the photo before; the answer to a save replaces what was typed meanwhile; any reading that
fails drops the worker others use; the photo handed over by the camera is drawn after the frame that was
read.

### Bounds, and why they are enough

- `registrations_safety`: two keys, so both sides of a card can be stored, or one side twice; one
  registration, as rows only meet through shared images; two PATCHes, a document request and a sweep in
  flight. `Decisions` holds one status that purges and one that does not: the code distinguishes no
  others. A lost answer followed by a second submission leads to two rows with one image between them; that
  needs two registrations, and is covered by the proofs, which hold for any number.
- `registrations_sweep`: liveness is checked without symmetry; one PATCH is enough, as staff who decide do
  not wait for each other. Two rows would add only another copy of each obligation.
- `sessions_safety`: two sign-ins with one browser (an old and a new token), one request, two scripts;
  `MaxVersion` bounds `tokenVersion` at 2, which allows disable, enable and sign-out to overlap. It is a
  bound of the models' guards; the code has none below the range of a database integer.
- `RecordEdits`: two dates suffice to be in order or not; two PATCHes to overlap.
- `form_scans`: two photos are one overlap, one replacement of a photo by another, or one photo for each slot; one
  PDF is the third way in; two numbers are two that disagree, and as names are never compared one is enough. Each photo and PDF is used once, which bounds the
  run. `SubmitsWhatItShows` is stated for uploads that neither overlapped nor failed (`disturbed`). Otherwise it does
  not hold: a failed upload leaves its preview over the key of the photo before, and of two overlapping
  uploads one can be moved into the slot where the other is being shown.
- `server_scans`: two requests are the sharing of a worker, the loss of it to the other, and a worker made
  after one was dropped; `Slots` has a request with and one without a side. Each request is used once.
- `camera_panel`: three openings, so that the second can be closed, or replaced, while the first still
  awaits something.
- `staff_pages`, `staff_history`: one tab and a colleague, since tabs meet only in the records, where the
  colleague does all a second tab could; two records to jump between, two filters. A tab has at most one
  PATCH in flight: a page opened while that of an earlier page is under way waits with its own, which the
  code does not. That is a bound of `Send`. A PATCH the page gave up on may be written later; that is a step of
  the colleague. A dashboard's filter is the one in effect, which the search box is ahead of for 250 ms.

No run checks for deadlock: a system with all keys, registrations, sign-ins, photos, requests or openings used up
has nothing left to do, a process that has exited does nothing, and guests and staff may be idle.

### Fairness

`Registrations` (`FairSpec`): objects age (weak). The sweep's steps are strongly fair, not weakly: the
process may stop between any two, the timer or the schedule starts another sweep, and the claim is only
that not every sweep fails for ever at the same step. Staff who are told "Please retry" do
(`registrations.controller.js` lines 121-123), which is strong fairness of reading, purging and writing.
Every request ends (weak). Nothing is assumed of guests: they may never answer, submit or come back.

`StaffSessions` (`FairSpec`): whoever holds a token keeps working with it, requests get to the lookup
strongly fairly (the database is not away for ever), and refusals are not all lost. Expiry, scripts and
sign-outs are not assumed to happen.

`RegisterForm` (`FairSpec`): every request of the page ends (weak), if only by the 30 seconds' timeout of
`client.js`, line 62. Nothing is assumed of the guest, the camera or the PDF reader.

`Server` (`FairSpec`): storage answers, the decoder's load and its attempts end, timers fire, and the event
loop runs what is ready (all weak). Nothing is assumed of tesseract: it may hang in any step, and `ScanEnds`
rests on the budget's timer. Signals need not come, and requests need not be made.

`QrCamera` (`FairSpec`): awaited calls settle and timers fire (weak), except that a permission prompt may
stay unanswered, which is why `ClosedRunEnds` ends in `asking` or `done`. The guest may do nothing.

`StaffPages` (`FairSpec`): a save and the load of a record end (weak), if only by axios's timeout. Staff may
jump about in the history without end, so `PageSettles` lets a record's loading end by leaving it.

## What is proved

The theorems hold for all values of the constants; finiteness is assumed of none. The assumptions are the
named `ASSUME`s of the modules: null is not a key, an id or an account, and the like. TLC evaluates them in
every run.

**Registrations.** `TypeCorrect`, `ReviewedImagesAreGone`, `DisposalRecordIsExact`, `KeysAreOnlyCleared`,
`NoImageAfterReview`, `SweepSparesTheRegistered` and `ReviewFlowKeepsPromise`. What the runs check is not
inductive: a PATCH about to write could bring anything along. The inductive invariant `IInv` adds

- `KeysMinted`: every key anywhere was handed out, so `ScanSave` stores under none of them, and what
  a review removed does not come back;
- `RowsWithinSubmitted`: a row points at nothing but what it was submitted with;
- `SnapshotsCover`: the snapshot of a PATCH, though stale, still covers all the row points at, because keys
  are only ever cleared; and the sides it counts as cleared are gone from the bucket.

The last is the heart of the matter: it is why a decision based on a stale row still removes every
image. The two properties of document requests and of the sweep have an invariant of their own on top
(`ViewsHoldSubmitted`, and `SweepsApart`, saying that what a sweep is about to remove no form holds and no row
references). `NoImageAfterReview` says that nothing is read of a reviewed image; bytes read before may still
be on their way out. `SweepSparesTheRegistered` assumes `PromptForms`, for without it a sweep may have on its list what an open
form is about to submit. Refinement of `Disposal` is proved action by action: each either is an action there or
changes none of its variables. `ReviewsAreAtomic` says the same of `PhotoRecords`: a PATCH takes many steps and
may stop in any, yet to whoever reads the table it is one, because only `UpdateWrite` touches a row and, by
`SnapshotsCover`, clears all that is left of it. `GuestsKeepSlots` and `GuestsPhotosApart` are about open forms:
no two slots, of one form or of two, hold the same key.

**StaffSessions.** `TypeCorrect`, `DisabledAreSignedOut`, `RefusalsAreFinal`, `VersionsNeverReturn`,
`StaffSessionsKeepRules`. `IInv` adds that a token's version never exceeds its account's
(`SignInsRecorded`), that only usable sign-ins were signed (`SignedAreUsable`), that accounts not yet
seeded are as they will be (`UnseededUntouched`), that requests carry tokens which were issued
(`TokensIssued`) and that a script under way found its account (`ScriptsAimed`). With versions that only
grow, "the versions differ" is then the same as "the session was ended and stays ended", which is what the
refinement of `Sessions` needs.

**RecordEdits.** `TypeCorrect`, and for `WholeForms` `StaysInOrder`, `AadhaarStaysMasked` and
`RecordsStayResavable`: the row, and every payload on its way to it, is in order and accepted by itself; as
a whole payload replaces the whole row, no stale row matters.

Three more theorems say how far the rules hold for partial payloads, which the violated runs show they do
not in general. If no two PATCHes are between validation and write (`OneByOne`), the dates stay in order and
the record resavable (`OneByOneStaysInOrder`, `OneByOneStaysResavable`), as a payload accepted against an
acceptable row and merged into it gives an acceptable row (`WrittenIsAccepted`): what spoils dates is the
overlap alone. Masking needs that and that the Aadhaar label never travels without the number
(`NumberWithLabel`, `OneByOneStaysMasked`), which no overlap is needed to break.

**RegisterForm.** `TypeCorrect`, `TypedStays`, `SignedStays`, `OrderNeverMatters`, `PreviewsAreSubmitted`. The first
three need `Attributed`: a field with a source has a text, in the form and as rendered, and a typed one has no
source and is rendered as it is. Only typing and answers change fields (`FieldSteps`), so the rest is about
`CombineField`; that two readings commute is proved field by field. The slots need `OneRequest` and `Settled`: while nothing is disturbed, the one
upload in flight is of the photo that `scanning`'s slot shows, and every other slot has the key of what it shows.
The same invariant gives `BusyOneByOne`: the page knows that it is uploading until uploads overlap or one fails.

`PageKeepsSlots` makes no such exception: with any overlap and any failure, a slot's key changes only by the
answer to an upload, in the slot it was sent from or the one it is moved to, which was free when last rendered. The abstract uploads do not
say what was sent along with a photo, so two requests for one photo would be one there; `PhotosOnce` rules that
out. With the theorem of `PhotoSlots`, `PhotosStayApart`, it follows that the two slots never hold the same key
(`PagePhotosApart`).

**Server.** `TypeCorrect`, `KeyIsReturned`, `AbandonedStaysOut`, `CrossTalkIsShared`, `ColdStartsPayOnce`,
`CleanExitsDropNothing`. The invariant of the scans says what each stage of a request means for its record
(`Stage`: what is being read is stored, and is unanswered unless its budget ran out), that a request which
has not begun to read has not created a worker (`WorkersKnown`, so that a new worker is new), and that the
mode a request set is still set when it recognises, unless another request holds the worker (`ModesKept`).
`ColdStartPaidOnce` is inductive given the types. `CleanExitsDropNothing` adds `DrainInv`: from the listener's callback on, nothing is in flight, since
nothing is accepted any more.

**QrCamera.** `TypeCorrect`, `CameraIsReleased`, `HandsOverOnlyWhileOpen`, for any number of openings. With the
types, `CameraReleased` is inductive as it stands. That what is handed over was read off a live camera needs
`Filming`: a run past its grant has the stream as long as its panel is open, however the guest got there.

**StaffPages.** `TypeCorrect`, `ListsAreTheAsked`, `EditsAreOutlived`, `PhotosAreReleased`, `DecisionsAreAsked`, for any
number of tabs, records and filters. `Addressed` says that what is in flight was asked for by the page on
screen; `PhotosInv` that the same holds of photos on their way. `AsksInv` is the interesting one: a page, or
an answer on its way to it, knows of every photo its record still has, because records lose photos and
never gain one; so a page on its own record that sees no reason to ask finds nothing to delete. `ToldUnlessJumping` delimits what
`staff_history` shows: without a jump in the browser's history a page always holds the record it is at
(`OwnPages`), so no decision deletes photos unasked on any record. `PagesKeepRecords` and
`TableStepsAreColleagues` connect these pages with the handlers. What a page's `Update` does is a step of
`PhotoRecords`, which the many steps of `update` in `Registrations` implement, and whatever step the table
takes while the pages look away is one they allow a colleague. Two things are not covered by that: what
photos a row has at the start (the pages begin with rows already submitted), and that a page sends
what `Registrations` receives, which is a matter of the payload.

Proved and not run: `KeysOnlyCleared`, that no PATCH re-points a registration (theorem `KeysAreOnlyCleared`);
`VersionsOnlyGrow` (`VersionsNeverReturn`); the types of `QrCamera`, `RegisterForm`, `Server` and `StaffPages`;
`StaffPages`' `KeepsRecords`; `NoPhotoTwice`; and the theorems with a
hypothesis on behaviours (`OneByOne...`, `BusyOneByOne`, `ToldUnlessJumping`).

Only model-checked: the liveness properties, as reasoning about fairness is outside what the prover
supports, and the violated properties, whose counterexamples are TLC's.

## Not modelled

- `list`, `getOne`, and the pages that only show: they change nothing.
- Format checks of single fields, image heuristics (finding the card, measuring quality, the transformations
  of the jsQR sweep), extraction of fields from recognised text, QR byte formats: parsing and arithmetic
  without state. The models that need their results choose among what they may yield.
- Rate limits: options handed to `express-rate-limit`, whose counter is not in the repository.
- Express wiring, configuration, logging, containers and CI.

## Plan

Done, in this order: the image life cycle with the sweep, since the program's main promise depends on it;
sessions; record edits; the guest form; scans with their shared worker and the process they run in; the
camera panel; the staff pages. What is left to do:

1. Compose the pages with the handlers beyond photos: the field values a detail page sends, against
   `RecordEdits`, for which `StaffPages` would have to carry them.
2. Masking and the check digit as functions over bounded inputs, against reference definitions.
