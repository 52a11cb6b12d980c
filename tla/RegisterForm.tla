---------------------------- MODULE RegisterForm ----------------------------
(***************************************************************************)
(* The guest's form: two photo slots, fields that scans fill in and the    *)
(* guest may type over, and the button that submits it all.                *)
(*                                                                         *)
(* A scan may start from either slot, from the camera or from an e-Aadhaar *)
(* PDF.  Nothing makes the page wait for one to end before the next, so    *)
(* their answers arrive in any order, between keystrokes.                  *)
(*                                                                         *)
(* Code that runs after an await judges the form by refs, which an effect  *)
(* brings up to date after React has rendered; buttons and handleSubmit    *)
(* judge it by what was rendered.  A render and the effect behind it are   *)
(* one step here.  An event of the guest's is rendered before anything     *)
(* else runs; what an awaited answer changes is rendered later, maybe      *)
(* after the next answer.                                                  *)
(***************************************************************************)
EXTENDS Naturals

CONSTANTS
    Photos,  \* photos the guest may take or pick; a photo's storage key is the photo
    Pdfs,    \* e-Aadhaar PDFs the guest may open
    Names,   \* what a card or a guest may give as the name
    Numbers, \* ... and as the ID number; two agree iff they are equal
    None     \* null

Sides == {"front", "back"}
Fields == {"fullName", "idNumber"}   \* fullName stands for all but the number
Empty == ""
Texts == Names \cup Numbers
TextsOf(f) == {Empty} \cup IF f = "idNumber" THEN Numbers ELSE Names
Rank == [none |-> 0, ocr |-> 1, qr |-> 2]

ASSUME FormAssumption ==
    /\ Empty \notin Texts
    /\ None \notin Photos \cup Sides \cup {"pdf"}
    /\ {"open", "closed"} \cap Photos = {}

VARIABLES
    field,      \* each field's text, and where it came from
    typed,      \* fields whose text the guest typed (history)
    slot,       \* the photo each slot shows, and the key it will submit
    scanning,   \* scanningSide: what the page takes to be under way
    scans,      \* photo uploads in flight
    pdf,        \* PDFs: new, reading, detached (its reader is gone), asking, done
    camera,     \* closed, open, or open and taking this photo
    captures,   \* photos being taken, by a camera that may be closed by now
    used,       \* photos taken or picked
    sent,       \* editing, sending or sent
    rendered,   \* the form as the refs and the buttons know it
    disturbed   \* uploads have overlapped, or one has failed (history)

vars == <<field, typed, slot, scanning, scans, pdf, camera, captures, used, sent,
          rendered, disturbed>>

Field == [text : Texts \cup {Empty}, source : {"none", "ocr", "qr"}]
Slot == [shown : Photos \cup {None}, key : Photos \cup {None}]
Scan == [photo : Photos, side : Sides, qr : BOOLEAN]

BlankField == [text |-> Empty, source |-> "none"]

EmptySide == [shown |-> None, key |-> None]

Screen == [field : [Fields -> Field], slot : [Sides -> Slot],
           scanning : Sides \cup {"pdf", None}]

\* The form as it would be rendered now.
Shown == [field |-> field, slot |-> slot, scanning |-> scanning]

\* What one image or code yields: Empty where it yields nothing.  A signed code
\* has a name or is not taken for an Aadhaar code at all.
Reads == {r \in [Fields -> Texts \cup {Empty}] : \A f \in Fields : r[f] \in TextsOf(f)}
Nothing == [f \in Fields |-> Empty]
SignedReads == {r \in Reads : r["fullName"] # Empty} \cup {Nothing}

Init ==
    /\ field = [f \in Fields |-> BlankField]
    /\ typed = {}
    /\ slot = [s \in Sides |-> EmptySide]
    /\ scanning = None
    /\ scans = {}
    /\ pdf = [d \in Pdfs |-> "new"]
    /\ camera = "closed"
    /\ captures = {}
    /\ used = {}
    /\ sent = "editing"
    /\ rendered = Shown
    /\ disturbed = FALSE

(***************************************************************************)
(* combineScan, one field at a time.                                       *)
(***************************************************************************)

\* Fault: any scan replaces what the guest has not typed.
KeepsTyped(now, read, source) ==
    \/ read = Empty
    \/ now.text # Empty /\ now.source = "none"

Keeps(now, read, source) ==
    \/ read = Empty
    \/ now.text # Empty /\ (now.source = "none" \/ Rank[now.source] > Rank[source])

\* Fault: two numbers that do not agree are both dropped, however well read.
ContradictsAnyRank(f, now, read, source) ==
    f = "idNumber" /\ now.text \notin {Empty, read}

\* Two numbers read equally well that do not agree: neither is believed.
Contradicts(f, now, read, source) ==
    /\ f = "idNumber"
    /\ now.text \notin {Empty, read}
    /\ Rank[now.source] = Rank[source]

CombineField(f, now, read, source) ==
    IF Keeps(now, read, source) THEN now
    ELSE IF Contradicts(f, now, read, source) THEN BlankField
    ELSE [text |-> read, source |-> source]

\* applyScan: what to change is decided on the form as the refs know it, and only
\* that is written to the form there is.
ApplyScan(reads, source) ==
    [f \in Fields |-> IF Keeps(rendered.field[f], reads[f], source) THEN field[f]
                      ELSE CombineField(f, rendered.field[f], reads[f], source)]

(***************************************************************************)
(* Rendering, typing, and starting a scan.                                 *)
(***************************************************************************)

\* React renders what answers have changed, and the effect updates the refs.
Render ==
    /\ rendered # Shown
    /\ rendered' = Shown
    /\ UNCHANGED <<field, typed, slot, scanning, scans, pdf, camera, captures, used, sent,
                   disturbed>>

\* Fault: the source of a field outlives the guest's correction.
UpdateFieldText(f, text) ==
    /\ sent # "sent"
    /\ field' = [field EXCEPT ![f] = [@ EXCEPT !.text = text]]
    /\ typed' = IF text = Empty THEN typed \ {f} ELSE typed \cup {f}
    /\ UNCHANGED <<slot, scanning, scans, pdf, camera, captures, used, sent, disturbed>>
    /\ rendered' = Shown'

UpdateField(f, text) ==
    /\ sent # "sent"
    /\ field' = [field EXCEPT ![f] = [text |-> text, source |-> "none"]]
    /\ typed' = IF text = Empty THEN typed \ {f} ELSE typed \cup {f}
    /\ UNCHANGED <<slot, scanning, scans, pdf, camera, captures, used, sent, disturbed>>
    /\ rendered' = Shown'

Asking == {d \in Pdfs : pdf[d] = "asking"}
Overlap == scans # {} \/ Asking # {}

\* submitScan up to its first await: the slot shows the photo at once, and keeps
\* the key it had.
SubmitScan(p, side, qr) ==
    /\ slot' = [slot EXCEPT ![side] = [@ EXCEPT !.shown = p]]
    /\ scanning' = side
    /\ scans' = scans \cup {[photo |-> p, side |-> side, qr |-> qr]}
    /\ disturbed' = (disturbed \/ Overlap)

\* handleScanned, handleCaptured: the front if the ref finds it empty.
CameraSide == IF rendered.slot["front"].key # None THEN "back" ELSE "front"

\* A busy slot disables its file input; dropping a file on it still works.
HandleFile(p, side) ==
    /\ sent # "sent" /\ camera = "closed"
    /\ p \in Photos \ used
    /\ used' = used \cup {p}
    /\ SubmitScan(p, side, FALSE)
    /\ UNCHANGED <<field, typed, pdf, camera, captures, sent>>
    /\ rendered' = Shown'

\* The PDF reader leaves the page; a reading it has begun goes on.
Detached == [d \in Pdfs |-> IF pdf[d] = "reading" THEN "detached" ELSE pdf[d]]

OpenCamera ==
    /\ sent # "sent" /\ camera = "closed" /\ rendered.scanning = None
    /\ camera' = "open"
    /\ pdf' = Detached
    /\ UNCHANGED <<field, typed, slot, scanning, scans, captures, used, sent, disturbed>>
    /\ rendered' = Shown'

CloseCamera ==
    /\ camera # "closed"
    /\ camera' = "closed"
    /\ UNCHANGED <<field, typed, slot, scanning, scans, pdf, captures, used, sent,
                   disturbed>>
    /\ rendered' = Shown'

\* The loop decodes frames while a photo is being taken, too.
HandleScanned(p) ==
    /\ camera # "closed"
    /\ p \in Photos \ used
    /\ used' = used \cup {p}
    /\ camera' = "closed"
    /\ SubmitScan(p, CameraSide, TRUE)
    /\ UNCHANGED <<field, typed, pdf, captures, sent, rendered>>

Capture(p) ==
    /\ camera = "open"
    /\ p \in Photos \ used
    /\ used' = used \cup {p}
    /\ camera' = p
    /\ captures' = captures \cup {p}
    /\ UNCHANGED <<field, typed, slot, scanning, scans, pdf, sent, disturbed>>
    /\ rendered' = Shown'

\* The photo is handed over whatever became of the camera that took it.
HandleCaptured(p) ==
    /\ p \in captures
    /\ captures' = captures \ {p}
    /\ camera' = "closed"
    /\ SubmitScan(p, CameraSide, FALSE)
    /\ UNCHANGED <<field, typed, pdf, used, sent, rendered>>

\* toBlob gives null.
CaptureFails(p) ==
    /\ p \in captures
    /\ captures' = captures \ {p}
    /\ camera' = IF camera = p THEN "open" ELSE camera
    /\ UNCHANGED <<field, typed, slot, scanning, scans, pdf, used, sent, rendered,
                   disturbed>>

(***************************************************************************)
(* The PDF reader.                                                         *)
(***************************************************************************)
ReadPdf(d) ==
    /\ sent # "sent" /\ camera = "closed" /\ rendered.scanning = None
    /\ pdf[d] = "new" /\ \A e \in Pdfs : pdf[e] # "reading"
    /\ pdf' = [pdf EXCEPT ![d] = "reading"]
    /\ UNCHANGED <<field, typed, slot, scanning, scans, camera, captures, used, sent,
                   disturbed>>
    /\ rendered' = Shown'

\* Wrong password, no code in it, or not a PDF.
PdfUnread(d) ==
    /\ pdf[d] \in {"reading", "detached"}
    /\ pdf' = [pdf EXCEPT ![d] = "done"]
    /\ UNCHANGED <<field, typed, slot, scanning, scans, camera, captures, used, sent,
                   rendered, disturbed>>

\* submitPdfQr up to its first await.
SubmitPdfQr(d) ==
    /\ pdf[d] \in {"reading", "detached"}
    /\ pdf' = [pdf EXCEPT ![d] = "asking"]
    /\ scanning' = "pdf"
    /\ disturbed' = (disturbed \/ Overlap)
    /\ UNCHANGED <<field, typed, slot, scans, camera, captures, used, sent, rendered>>

(***************************************************************************)
(* Answers.  Whichever arrives, the page takes nothing to be under way.    *)
(***************************************************************************)

\* Fault: the key goes to the detected side, the preview stays.
KeyOnly(m, detected) == [slot EXCEPT ![detected] = [@ EXCEPT !.key = m.photo]]

\* Fault: a photo of the other side takes that side's slot, whatever is there.
PlacedOver(m, detected) ==
    IF detected # m.side
    THEN [slot EXCEPT ![detected] = [shown |-> slot[m.side].shown, key |-> m.photo],
                      ![m.side] = EmptySide]
    ELSE [slot EXCEPT ![m.side] = [@ EXCEPT !.key = m.photo]]

\* The slots after an answer: a photo of the other side is moved across, preview
\* and all, if the ref finds no key there.
Placed(m, detected) ==
    IF detected # m.side /\ rendered.slot[detected].key = None
    THEN [slot EXCEPT ![detected] = [shown |-> slot[m.side].shown, key |-> m.photo],
                      ![m.side] = EmptySide]
    ELSE [slot EXCEPT ![m.side] = [@ EXCEPT !.key = m.photo]]

\* What the server may have made of a photo: a code sent along is not looked for
\* again, and only printed text tells the side.
Answer(m, reads, source, detected) ==
    \/ source = "qr" /\ reads \in SignedReads /\ detected = m.side
    \/ source = "ocr" /\ ~m.qr /\ reads # Nothing

ScanAnswer(m, reads, source, detected) ==
    /\ m \in scans
    /\ Answer(m, reads, source, detected)
    /\ scans' = scans \ {m}
    /\ slot' = Placed(m, detected)
    /\ field' = ApplyScan(reads, source)
    /\ scanning' = None
    /\ UNCHANGED <<typed, pdf, camera, captures, used, sent, rendered, disturbed>>

\* Unreachable, timed out, refused: the slot goes on showing the photo.
ScanFails(m) ==
    /\ m \in scans
    /\ scans' = scans \ {m}
    /\ scanning' = None
    /\ disturbed' = TRUE
    /\ UNCHANGED <<field, typed, slot, pdf, camera, captures, used, sent, rendered>>

PdfAnswer(d, reads) ==
    /\ d \in Asking
    /\ reads \in SignedReads
    /\ pdf' = [pdf EXCEPT ![d] = "done"]
    /\ field' = ApplyScan(reads, "qr")
    /\ scanning' = None
    /\ UNCHANGED <<typed, slot, scans, camera, captures, used, sent, rendered, disturbed>>

\* Fault: only an answer ends the wait.
PdfFailsWaiting(d) ==
    /\ d \in Asking
    /\ pdf' = [pdf EXCEPT ![d] = "done"]
    /\ UNCHANGED <<field, typed, slot, scanning, scans, camera, captures, used, sent,
                   rendered, disturbed>>

PdfFails(d) ==
    /\ d \in Asking
    /\ pdf' = [pdf EXCEPT ![d] = "done"]
    /\ scanning' = None
    /\ UNCHANGED <<field, typed, slot, scans, camera, captures, used, sent, rendered,
                   disturbed>>

(***************************************************************************)
(* handleSubmit.                                                           *)
(***************************************************************************)

\* The button is enabled, and validate finds what it asks for.
Submittable ==
    /\ sent = "editing" /\ rendered.scanning = None
    /\ rendered.field["fullName"].text # Empty
    /\ rendered.slot["front"].key # None

HandleSubmit ==
    /\ Submittable
    /\ sent' = "sending"
    /\ UNCHANGED <<field, typed, slot, scanning, scans, pdf, camera, captures, used,
                   disturbed>>
    /\ rendered' = Shown'

\* The thank-you page replaces the form, its camera and its PDF reader.
Submitted ==
    /\ sent = "sending"
    /\ sent' = "sent"
    /\ camera' = "closed"
    /\ pdf' = Detached
    /\ UNCHANGED <<field, typed, slot, scanning, scans, captures, used, rendered,
                   disturbed>>

SubmitFails ==
    /\ sent = "sending"
    /\ sent' = "editing"
    /\ UNCHANGED <<field, typed, slot, scanning, scans, pdf, camera, captures, used,
                   rendered, disturbed>>

(***************************************************************************)
(* The specification.                                                      *)
(***************************************************************************)
GuestStep ==
    \/ Render
    \/ \E f \in Fields : \E text \in TextsOf(f) : UpdateField(f, text)
    \/ \E p \in Photos, side \in Sides : HandleFile(p, side)
    \/ OpenCamera
    \/ CloseCamera
    \/ \E p \in Photos : HandleScanned(p)
    \/ \E p \in Photos : Capture(p)
    \/ \E p \in Photos : HandleCaptured(p)
    \/ \E p \in Photos : CaptureFails(p)
    \/ \E d \in Pdfs : ReadPdf(d)
    \/ \E d \in Pdfs : PdfUnread(d)
    \/ \E d \in Pdfs : SubmitPdfQr(d)
    \/ HandleSubmit

AnswerStep ==
    \/ \E m \in scans, reads \in Reads, source \in {"ocr", "qr"}, detected \in Sides :
          ScanAnswer(m, reads, source, detected)
    \/ \E m \in scans : ScanFails(m)
    \/ \E d \in Pdfs, reads \in Reads : PdfAnswer(d, reads)
    \/ \E d \in Pdfs : PdfFails(d)
    \/ Submitted
    \/ SubmitFails

Next == GuestStep \/ AnswerStep

Spec == Init /\ [][Next]_vars

(***************************************************************************)
(* Fairness: every request of the page ends, if only by axios' timeout.    *)
(***************************************************************************)
ScanEnds(p) ==
    \E m \in scans :
        /\ m.photo = p /\ scans' = scans \ {m}
        /\ \/ ScanFails(m)
           \/ \E reads \in Reads, source \in {"ocr", "qr"}, detected \in Sides :
                 ScanAnswer(m, reads, source, detected)

PdfEnds(d) == PdfFails(d) \/ \E reads \in Reads : PdfAnswer(d, reads)

FairSpec ==
    /\ Spec
    /\ \A p \in Photos : WF_vars(ScanEnds(p))
    /\ \A d \in Pdfs : WF_vars(PdfEnds(d))

(***************************************************************************)
(* Properties.                                                             *)
(***************************************************************************)

\* Every variable holds a value of its type.
TypeOK ==
    /\ field \in [Fields -> Field]
    /\ typed \subseteq Fields
    /\ slot \in [Sides -> Slot]
    /\ scanning \in Sides \cup {"pdf", None}
    /\ scans \subseteq Scan
    /\ pdf \in [Pdfs -> {"new", "reading", "detached", "asking", "done"}]
    /\ camera \in {"open", "closed"} \cup Photos
    /\ captures \subseteq Photos
    /\ used \subseteq Photos
    /\ sent \in {"editing", "sending", "sent"}
    /\ rendered \in Screen
    /\ disturbed \in BOOLEAN

\* combineScan, updateField: what the guest typed stays as typed, whichever
\* scans were under way when they typed it and in whatever order they end.
TypedKept ==
    [][\A f \in typed : field'[f].text # field[f].text =>
          \E text \in TextsOf(f) : UpdateField(f, text)]_vars

\* RANK: once the page has rendered a value off a signed code, it gives way to the
\* guest and to another signed code, never to printed text, however late the
\* printed text arrives and whatever else is under way.
SignedKept ==
    [][\A f \in Fields :
          field[f].source = "qr" /\ rendered.field[f] = field[f] /\ field'[f] # field[f] =>
          \/ \E text \in TextsOf(f) : UpdateField(f, text)
          \/ \E reads \in SignedReads :
                field'[f] = CombineField(f, field[f], reads[f], "qr")]_vars

\* combineScan: a signed and a printed reading of the card leave each field the
\* same whichever is combined first, as long as the codes on it agree.
OrderIrrelevant ==
    \A f \in Fields : \A signed, printed \in TextsOf(f) :
        (f = "idNumber" /\ field[f].source = "qr" => signed \in {Empty, field[f].text})
        => CombineField(f, CombineField(f, field[f], signed, "qr"), printed, "ocr")
           = CombineField(f, CombineField(f, field[f], printed, "ocr"), signed, "qr")

\* setSide, moveSide: provided uploads neither overlapped nor failed, each slot
\* submits the photo it shows, wherever the server moved it.
SubmitsWhatItShows ==
    ~disturbed /\ scanning = None => \A s \in Sides : slot[s].key = slot[s].shown

\* scanningSide: "Which side is mid-upload, or null".  While a photo is being
\* read the page knows it, and keeps the submit button disabled.
BusyWhileUploading == scans # {} => scanning # None

\* The `finally` of every scan: the page does not wait for ever.
WaitEnds == scanning # None ~> scanning = None

(***************************************************************************)
(* As far as keys go, the page implements module PhotoSlots, as do the     *)
(* guests of module Registrations.                                         *)
(***************************************************************************)
Forms == {"page"}
KeysOf(slots) == [s \in Sides |-> slots[s].key]

Slots == INSTANCE PhotoSlots WITH
    Keys     <- Photos,
    keys     <- [f \in Forms |-> KeysOf(slot)],
    rendered <- [f \in Forms |-> KeysOf(rendered.slot)],
    uploads  <- {[guest |-> "page", side |-> m.side, key |-> m.photo] : m \in scans},
    spent    <- used \ captures

\* submitScan, setSide, moveSide: however uploads overlap or fail, a slot's key is
\* changed by the answer to an upload and by nothing else, and that answer fills
\* the slot it was sent from or, if free when last rendered, the one of the side it
\* was found to be, and then empties its own.
KeepsSlots == Slots!Spec
=============================================================================
