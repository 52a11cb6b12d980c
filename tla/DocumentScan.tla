---------------------------- MODULE DocumentScan ----------------------------
(***************************************************************************)
(* What POST /api/document/scan does with a photo once it is stored: the   *)
(* QR decoder is tried first, and the printed text of the card is read     *)
(* when no QR comes out.                                                   *)
(*                                                                         *)
(* Two things are shared by all the requests of a process: the compiled    *)
(* decoder (zxingReady) and one tesseract worker (workerPromise).  A       *)
(* reading has a time budget; one that exceeds it is abandoned, not        *)
(* stopped, and goes on using the worker it holds.                         *)
(*                                                                         *)
(* What a photo holds is chosen where the code first looks at it, and any  *)
(* attempt may fail.  A photo that Jimp cannot open (a WEBP, a corrupt     *)
(* file) is one that neither the jsQR sweep nor the reading can use.       *)
(***************************************************************************)
CONSTANTS
    Requests,  \* scan requests; the worker a request creates bears its name
    Slots,     \* the sides the upload slots name, None for a request without one
    None       \* null

Sides == {"front", "back"}

ASSUME ScansAssumption == None \notin Requests \cup Sides /\ Slots \subseteq Sides \cup {None}

Other(side) == IF side = "front" THEN "back" ELSE "front"

\* FRONT_REGIONS and BACK_REGIONS, and the page-segmentation mode of each.
Regions == {"identity", "address", "number"}
OwnRegion(side) == IF side = "front" THEN "identity" ELSE "address"
Psm(region) == IF region = "address" THEN "block" ELSE "column"

\* What the text of a region is good for: a date of birth, a gender or an
\* address proves the side; a name or the number does not.
Outcomes(region) ==
    CASE region = "identity" -> {"blank", "text", "proof"}
      [] region = "address"  -> {"blank", "proof"}
      [] region = "number"   -> {"blank", "text"}

VARIABLES
    zxing,    \* the decoder shared by all requests
    current,  \* workerPromise
    worker,   \* the tesseract workers ever created
    request   \* scan requests, and the readings they started

scanVars == <<zxing, current, worker, request>>

Worker == [pc : {"none", "creating", "ready", "failed"}, mode : {"block", "column", None}]

Request == [pc : {"new", "save", "decode", "worker", "mode", "recognize", "done"},
            stored : BOOLEAN,
            worker : Requests \cup {None}, slot : Sides \cup {None}, readable : BOOLEAN,
            side : Sides, read : [Regions -> {"unread", "blank", "text", "proof"}],
            garbled : BOOLEAN,   \* history: a region was recognised in another's mode
            ocr : {"none", "running", "over", "failed", "timeout"},
            answer : {"none", "fields", "printed", "message", "refused", "error"}]

Blank == [pc |-> "new", stored |-> FALSE, worker |-> None, slot |-> None, readable |-> FALSE,
          side |-> "front", read |-> [r \in Regions |-> "unread"], garbled |-> FALSE,
          ocr |-> "none", answer |-> "none"]

ScanInit ==
    /\ zxing = "cold"
    /\ current = None
    /\ worker = [q \in Requests |-> [pc |-> "none", mode |-> None]]
    /\ request = [q \in Requests |-> Blank]

InFlight(q) == request[q].pc # "new" /\ request[q].answer = "none"

Becomes(q, r) == request' = [request EXCEPT ![q] = r]

(***************************************************************************)
(* The request up to its photo being stored.                               *)
(***************************************************************************)

\* An upload multer rejects, bytes that are no image, or neither a photo nor QR
\* text: 400 or 413, and nothing stored.
Refuse(q) ==
    /\ request[q].pc = "new"
    /\ Becomes(q, [request[q] EXCEPT !.pc = "done", !.answer = "refused"])
    /\ UNCHANGED <<zxing, current, worker>>

\* QR text alone, read from a PDF on the guest's own device.
ReceiveText(q, verdict) ==
    /\ request[q].pc = "new"
    /\ Becomes(q, [request[q] EXCEPT !.pc = "done", !.answer = verdict])
    /\ UNCHANGED <<zxing, current, worker>>

ReceivePhoto(q) ==
    /\ request[q].pc = "new"
    /\ Becomes(q, [request[q] EXCEPT !.pc = "save"])
    /\ UNCHANGED <<zxing, current, worker>>

\* A photo that came with its QR text goes straight to the parser.
SaveWithText(q, verdict) ==
    /\ request[q].pc = "save"
    /\ Becomes(q, [request[q] EXCEPT !.pc = "done", !.stored = TRUE, !.answer = verdict])
    /\ UNCHANGED <<zxing, current, worker>>

\* prepareZXing: the first to need the decoder starts its load.
WarmUp == zxing' = IF zxing = "cold" THEN "loading" ELSE zxing

Save(q) ==
    /\ request[q].pc = "save"
    /\ Becomes(q, [request[q] EXCEPT !.pc = "decode", !.stored = TRUE])
    /\ WarmUp
    /\ UNCHANGED <<current, worker>>

\* storage.save throws: the error handler answers 500, and nothing is stored.
SaveFails(q) ==
    /\ request[q].pc = "save"
    /\ Becomes(q, [request[q] EXCEPT !.pc = "done", !.answer = "error"])
    /\ UNCHANGED <<zxing, current, worker>>

(***************************************************************************)
(* The QR decoder.  A failed load is remembered as such.                   *)
(***************************************************************************)
Settled == zxing \in {"ready", "failed"}

ZXingLoads(outcome) ==
    /\ zxing = "loading"
    /\ zxing' = outcome
    /\ UNCHANGED <<current, worker, request>>

\* ZXing reads a QR, or the jsQR sweep does where ZXing was not to be had or
\* faulted; the text is parsed into fields or a message.
Decode(q, verdict) ==
    /\ request[q].pc = "decode"
    /\ Settled
    /\ Becomes(q, [request[q] EXCEPT !.pc = "done", !.answer = verdict])
    /\ UNCHANGED <<zxing, current, worker>>

GetWorker(q) ==
    LET w == IF current = None THEN q ELSE current
    IN  /\ current' = w
        /\ worker' = IF current = None
                     THEN [worker EXCEPT ![q] = [@ EXCEPT !.pc = "creating"]] ELSE worker

\* Fault: an image that cannot be opened fails the request.
StartReadingUncaught(q, slot, readable) ==
    /\ request[q].pc = "decode"
    /\ Settled
    /\ IF readable
       THEN /\ GetWorker(q)
            /\ Becomes(q, [request[q] EXCEPT !.pc = "worker", !.worker = current', !.slot = slot,
                                             !.readable = readable, !.ocr = "running"])
       ELSE /\ Becomes(q, [request[q] EXCEPT !.pc = "done", !.answer = "error"])
            /\ UNCHANGED <<current, worker>>
    /\ UNCHANGED zxing

\* No QR, or an image that cannot be opened: the printed text is tried, on the
\* worker there is, or on a new one.
StartReading(q, slot, readable) ==
    /\ request[q].pc = "decode"
    /\ Settled
    /\ GetWorker(q)
    /\ Becomes(q, [request[q] EXCEPT !.pc = "worker", !.worker = current', !.slot = slot,
                                     !.readable = readable, !.ocr = "running"])
    /\ UNCHANGED zxing

(***************************************************************************)
(* The tesseract workers.  Creating one may fail, or never end.            *)
(***************************************************************************)
WorkerCreated(w) ==
    /\ worker[w].pc = "creating"
    /\ worker' = [worker EXCEPT ![w] = [@ EXCEPT !.pc = "ready"]]
    /\ UNCHANGED <<zxing, current, request>>

\* Whichever worker workerPromise names by now is dropped.
WorkerFails(w) ==
    /\ worker[w].pc = "creating"
    /\ worker' = [worker EXCEPT ![w] = [@ EXCEPT !.pc = "failed"]]
    /\ current' = None
    /\ UNCHANGED <<zxing, request>>

(***************************************************************************)
(* The end of a reading: the race against the budget is won by whichever   *)
(* comes first, and the loser changes nothing.                             *)
(***************************************************************************)

Ended(r, ocr, answer) ==
    [Blank EXCEPT !.pc = "done", !.stored = TRUE, !.worker = r.worker, !.garbled = r.garbled,
                  !.ocr = IF r.answer = "none" THEN ocr ELSE r.ocr,
                  !.answer = IF r.answer = "none" THEN answer ELSE r.answer]

\* Fault: the worker is kept when a reading fails or times out.
DroppedNever(q) == current' = current

\* The catch drops whatever workerPromise names, and it runs once per request.
Dropped(q) == current' = IF request[q].answer = "none" THEN None ELSE current

\* getWorker rejected, or the image cannot be opened.
ReadingFails(q) ==
    /\ request[q].pc = "worker"
    /\ LET w == worker[request[q].worker]
       IN  w.pc = "failed" \/ (w.pc = "ready" /\ ~request[q].readable)
    /\ Dropped(q)
    /\ Becomes(q, Ended(request[q], "failed", "message"))
    /\ UNCHANGED <<zxing, worker>>

\* Fault: the catch forgets the answer the guest is waiting for.
BudgetUnanswered(q) ==
    /\ request[q].ocr = "running"
    /\ Dropped(q)
    /\ Becomes(q, [request[q] EXCEPT !.ocr = "timeout"])
    /\ UNCHANGED <<zxing, worker>>

\* OCR_BUDGET_MS.  The reading itself goes on.
Budget(q) ==
    /\ request[q].ocr = "running"
    /\ Dropped(q)
    /\ Becomes(q, [request[q] EXCEPT !.ocr = "timeout", !.answer = "message"])
    /\ UNCHANGED <<zxing, worker>>

(***************************************************************************)
(* The reading.                                                            *)
(***************************************************************************)

\* Once the card is cropped: the side of the slot first, without a slot the front.
Begin(q) ==
    /\ request[q].pc = "worker"
    /\ worker[request[q].worker].pc = "ready"
    /\ request[q].readable
    /\ Becomes(q, [request[q] EXCEPT !.pc = "mode",
                                     !.side = IF request[q].slot = None THEN "front" ELSE request[q].slot])
    /\ UNCHANGED <<zxing, current, worker>>

\* The next region of the side; the number is read once, whichever side asks.
Region(r) == IF r.read[OwnRegion(r.side)] = "unread" THEN OwnRegion(r.side) ELSE "number"

\* Fault: the mode is set once for the request, not for each region.
SetModeOnce(q) ==
    /\ request[q].pc = "mode"
    /\ worker' = IF \A r \in Regions : request[q].read[r] = "unread"
                 THEN [worker EXCEPT ![request[q].worker] = [@ EXCEPT !.mode = Psm(Region(request[q]))]]
                 ELSE worker
    /\ Becomes(q, [request[q] EXCEPT !.pc = "recognize"])
    /\ UNCHANGED <<zxing, current>>

\* setParameters, on a worker that others may be using.
SetMode(q) ==
    /\ request[q].pc = "mode"
    /\ worker' = [worker EXCEPT ![request[q].worker] = [@ EXCEPT !.mode = Psm(Region(request[q]))]]
    /\ Becomes(q, [request[q] EXCEPT !.pc = "recognize"])
    /\ UNCHANGED <<zxing, current>>

Evidence(side, read) == read[OwnRegion(side)] = "proof"

ChooseSide(slot, read) ==
    IF slot # None
    THEN IF ~Evidence(slot, read) /\ Evidence(Other(slot), read) THEN Other(slot) ELSE slot
    ELSE IF Evidence("front", read) THEN "front"
    ELSE IF Evidence("back", read) THEN "back" ELSE None

\* Some field of the chosen side came out.  A number printed inside another
\* block counts as the number's own.
Populated(side, read) ==
    read["number"] = "text" \/ (side # None /\ read[OwnRegion(side)] \in {"text", "proof"})

\* A region that fails is a region without text.  After the last region of a
\* side the other one is read, unless this one is proven.
AfterRegion(r) ==
    IF r.read[OwnRegion(r.side)] = "unread" \/ r.read["number"] = "unread"
    THEN [r EXCEPT !.pc = "mode"]
    ELSE IF ~Evidence(r.side, r.read) /\ r.read[OwnRegion(Other(r.side))] = "unread"
    THEN [r EXCEPT !.pc = "mode", !.side = Other(r.side)]
    ELSE Ended(r, "over", IF Populated(ChooseSide(r.slot, r.read), r.read) THEN "printed" ELSE "message")

Recognize(q, outcome) ==
    /\ request[q].pc = "recognize"
    /\ LET region == Region(request[q])
       IN  /\ outcome \in Outcomes(region)
           /\ Becomes(q, AfterRegion(
                 [request[q] EXCEPT !.read = [@ EXCEPT ![region] = outcome],
                                    !.garbled = @ \/ worker[request[q].worker].mode # Psm(region)]))
    /\ UNCHANGED <<zxing, current, worker>>

(***************************************************************************)
(* Next.                                                                   *)
(***************************************************************************)
Verdicts == {"fields", "message"}   \* parseAadhaarQr: an Aadhaar QR, or another

Receive(q) ==
    \/ Refuse(q) \/ ReceivePhoto(q)
    \/ \E verdict \in Verdicts : ReceiveText(q, verdict)

Store(q) ==
    \/ Save(q) \/ SaveFails(q)
    \/ \E verdict \in Verdicts : SaveWithText(q, verdict)

ReadQr(q) ==
    \/ \E verdict \in Verdicts : Decode(q, verdict)
    \/ \E slot \in Slots, readable \in BOOLEAN : StartReading(q, slot, readable)

ReadPrint(q) ==
    \/ Begin(q) \/ SetMode(q) \/ ReadingFails(q)
    \/ \E outcome \in {"blank", "text", "proof"} : Recognize(q, outcome)

Tesseract == \E w \in Requests : WorkerCreated(w) \/ WorkerFails(w)

LoadZXing == \E outcome \in {"ready", "failed"} : ZXingLoads(outcome)

ScanNext ==
    \/ LoadZXing
    \/ Tesseract
    \/ \E q \in Requests : Receive(q) \/ Store(q) \/ ReadQr(q) \/ ReadPrint(q) \/ Budget(q)
=============================================================================
