------------------------- MODULE RegisterFormProofs -------------------------
(***************************************************************************)
(* Proofs about module RegisterForm, for any number of photos, PDFs and    *)
(* texts.                                                                  *)
(***************************************************************************)
EXTENDS RegisterForm, TLAPS

LEMMA RankValues == Rank["none"] = 0 /\ Rank["ocr"] = 1 /\ Rank["qr"] = 2
  BY DEF Rank

LEMMA Blanks == BlankField \in Field /\ EmptySide \in Slot /\ Nothing \in Reads
  BY DEF BlankField, Field, EmptySide, Slot, Nothing, Reads, TextsOf

LEMMA TextsAreTexts ==
  /\ \A f \in Fields : TextsOf(f) \subseteq Texts \cup {Empty}
  /\ \A reads \in Reads, f \in Fields : reads[f] \in Texts \cup {Empty}
  BY DEF TextsOf, Texts, Reads

LEMMA SignedAreReads == SignedReads \subseteq Reads
  BY Blanks DEF SignedReads

LEMMA CombineType ==
  ASSUME NEW f \in Fields, NEW now \in Field, NEW read \in Texts \cup {Empty},
         NEW source \in {"ocr", "qr"}
  PROVE  CombineField(f, now, read, source) \in Field
  BY Blanks DEF CombineField, Field

LEMMA ApplyType ==
  ASSUME TypeOK, NEW reads \in Reads, NEW source \in {"ocr", "qr"}
  PROVE  ApplyScan(reads, source) \in [Fields -> Field]
  <1> SUFFICES ASSUME NEW f \in Fields
               PROVE  /\ field[f] \in Field
                      /\ CombineField(f, rendered.field[f], reads[f], source) \in Field
    BY DEF ApplyScan
  <1>1. rendered.field[f] \in Field /\ field[f] \in Field
    BY DEF TypeOK, Screen
  <1> QED
    BY <1>1, CombineType, TextsAreTexts

\* What is rendered of a well-typed form is well typed.
LEMMA ShownType ==
  ASSUME NEW f \in [Fields -> Field], NEW s \in [Sides -> Slot],
         NEW busy \in Sides \cup {"pdf", None}
  PROVE  [field |-> f, slot |-> s, scanning |-> busy] \in Screen
  BY DEF Screen

LEMMA PlacedType ==
  ASSUME slot \in [Sides -> Slot], NEW m \in Scan, NEW detected \in Sides
  PROVE  Placed(m, detected) \in [Sides -> Slot]
  BY Blanks DEF Placed, Slot, Scan

LEMMA SubmitScanType ==
  ASSUME TypeOK, NEW p \in Photos, NEW side \in Sides, NEW qr \in BOOLEAN, SubmitScan(p, side, qr)
  PROVE  /\ slot' \in [Sides -> Slot]
         /\ scanning' \in Sides \cup {"pdf", None}
         /\ scans' \subseteq Scan
         /\ disturbed' \in BOOLEAN
  <1>1. [slot[side] EXCEPT !.shown = p] \in Slot
    BY DEF TypeOK, Slot
  <1>2. [photo |-> p, side |-> side, qr |-> qr] \in Scan
    BY DEF Scan
  <1>3. Overlap \in BOOLEAN
    BY DEF Overlap
  <1> QED
    BY <1>1, <1>2, <1>3 DEF TypeOK, SubmitScan

LEMMA InitType == Init => TypeOK
  <1> SUFFICES ASSUME Init PROVE TypeOK
    OBVIOUS
  <1>1. field \in [Fields -> Field] /\ slot \in [Sides -> Slot] /\ scanning = None
    BY Blanks DEF Init
  <1>2. rendered \in Screen
    BY <1>1, ShownType DEF Init, Shown
  <1> QED
    BY <1>1, <1>2 DEF Init, TypeOK

LEMMA TypeStep == TypeOK /\ [Next]_vars => TypeOK'
  <1> SUFFICES ASSUME TypeOK, [Next]_vars PROVE TypeOK'
    OBVIOUS
  <1>1. ASSUME NEW f \in Fields, NEW text \in TextsOf(f), UpdateField(f, text)
        PROVE  TypeOK'
    <2>1. [text |-> text, source |-> "none"] \in Field
      BY TextsAreTexts DEF Field
    <2>2. field' \in [Fields -> Field]
      BY <1>1, <2>1 DEF UpdateField, TypeOK
    <2> QED
      BY <1>1, <2>2, ShownType DEF UpdateField, TypeOK, Shown
  <1>2. ASSUME NEW p \in Photos, NEW side \in Sides, HandleFile(p, side) PROVE TypeOK'
    BY <1>2, SubmitScanType, ShownType DEF HandleFile, TypeOK, Shown
  <1>3. CASE OpenCamera
    BY <1>3, ShownType DEF OpenCamera, Detached, TypeOK, Shown
  <1>4. CASE CloseCamera
    BY <1>4, ShownType DEF CloseCamera, TypeOK, Shown
  <1>5. ASSUME NEW p \in Photos, HandleScanned(p) PROVE TypeOK'
    <2>1. CameraSide \in Sides
      BY DEF CameraSide, Sides
    <2> QED
      BY <1>5, <2>1, SubmitScanType DEF HandleScanned, TypeOK
  <1>6. ASSUME NEW p \in Photos, Capture(p) PROVE TypeOK'
    BY <1>6, ShownType DEF Capture, TypeOK, Shown
  <1>7. ASSUME NEW p \in Photos, HandleCaptured(p) PROVE TypeOK'
    <2>1. CameraSide \in Sides
      BY DEF CameraSide, Sides
    <2> QED
      BY <1>7, <2>1, SubmitScanType DEF HandleCaptured, TypeOK
  <1>8. ASSUME NEW p \in Photos, CaptureFails(p) PROVE TypeOK'
    BY <1>8 DEF CaptureFails, TypeOK
  <1>9. ASSUME NEW d \in Pdfs, ReadPdf(d) PROVE TypeOK'
    BY <1>9, ShownType DEF ReadPdf, TypeOK, Shown
  <1>10. ASSUME NEW d \in Pdfs, PdfUnread(d) PROVE TypeOK'
    BY <1>10 DEF PdfUnread, TypeOK
  <1>11. ASSUME NEW d \in Pdfs, SubmitPdfQr(d) PROVE TypeOK'
    BY <1>11 DEF SubmitPdfQr, Overlap, TypeOK
  <1>12. CASE HandleSubmit
    BY <1>12, ShownType DEF HandleSubmit, TypeOK, Shown
  <1>13. ASSUME NEW m \in scans, NEW reads \in Reads, NEW source \in {"ocr", "qr"},
                NEW detected \in Sides, ScanAnswer(m, reads, source, detected)
         PROVE  TypeOK'
    <2>1. Placed(m, detected) \in [Sides -> Slot]
      BY PlacedType DEF TypeOK
    <2>2. ApplyScan(reads, source) \in [Fields -> Field]
      BY ApplyType
    <2> QED
      BY <1>13, <2>1, <2>2 DEF ScanAnswer, TypeOK
  <1>14. ASSUME NEW m \in scans, ScanFails(m) PROVE TypeOK'
    BY <1>14 DEF ScanFails, TypeOK
  <1>15. ASSUME NEW d \in Pdfs, NEW reads \in Reads, PdfAnswer(d, reads) PROVE TypeOK'
    <2>1. ApplyScan(reads, "qr") \in [Fields -> Field]
      BY ApplyType
    <2> QED
      BY <1>15, <2>1 DEF PdfAnswer, TypeOK
  <1>16. ASSUME NEW d \in Pdfs, PdfFails(d) PROVE TypeOK'
    BY <1>16 DEF PdfFails, TypeOK
  <1>17. CASE Submitted
    BY <1>17 DEF Submitted, Detached, TypeOK
  <1>18. CASE SubmitFails
    BY <1>18 DEF SubmitFails, TypeOK
  <1>19. CASE Render
    BY <1>19, ShownType DEF Render, TypeOK, Shown
  <1>20. CASE UNCHANGED vars
    BY <1>20 DEF vars, TypeOK
  <1> QED
    BY <1>1, <1>2, <1>3, <1>4, <1>5, <1>6, <1>7, <1>8, <1>9, <1>10, <1>11, <1>12, <1>13,
       <1>14, <1>15, <1>16, <1>17, <1>18, <1>19, <1>20 DEF Next, GuestStep, AnswerStep

\* Every reachable state is well typed.
THEOREM TypeCorrect == Spec => []TypeOK
  BY InitType, TypeStep, PTL DEF Spec

(***************************************************************************)
(* The fields.  Only typing and answers change them, and a field is filled *)
(* by a scan or typed by the guest, never both.  What the guest has typed  *)
(* is rendered, so every answer sees it.                                   *)
(***************************************************************************)
Sourced(form) == \A f \in Fields : form[f].source # "none" => form[f].text # Empty

TypedSeen ==
    \A f \in typed :
        /\ field[f].text # Empty /\ field[f].source = "none"
        /\ rendered.field[f] = field[f]

Attributed == Sourced(field) /\ Sourced(rendered.field) /\ TypedSeen

FieldInv == TypeOK /\ Attributed

\* An answer to a scan, as the fields see it.
Combined ==
    /\ UNCHANGED <<typed, rendered>>
    /\ \/ \E reads \in Reads : field' = ApplyScan(reads, "ocr")
       \/ \E reads \in SignedReads : field' = ApplyScan(reads, "qr")

\* A step the fields know nothing of, unless that they are rendered.
Seen ==
    /\ UNCHANGED <<field, typed>>
    /\ rendered'.field \in {rendered.field, field}

LEMMA FieldSteps ==
  ASSUME [Next]_vars
  PROVE  \/ \E f \in Fields : \E text \in TextsOf(f) : UpdateField(f, text)
         \/ Combined
         \/ Seen
  <1> USE DEF ScanFails, PdfFails, Submitted, SubmitFails, vars, Shown, Seen
  <1>1. ASSUME NEW m \in scans, NEW reads \in Reads, NEW source \in {"ocr", "qr"},
               NEW detected \in Sides, ScanAnswer(m, reads, source, detected)
        PROVE  Combined
    BY <1>1 DEF ScanAnswer, Answer, Combined
  <1>2. ASSUME NEW d \in Pdfs, NEW reads \in Reads, PdfAnswer(d, reads) PROVE Combined
    BY <1>2 DEF PdfAnswer, Combined
  <1>3. ASSUME UNCHANGED <<field, typed>>, rendered' \in {rendered, Shown, Shown'}
        PROVE  Seen
    BY <1>3
  <1>4. CASE GuestStep
    <2> HIDE DEF Seen, Shown
    <2> QED
      BY <1>3, <1>4
         DEF GuestStep, HandleFile, OpenCamera, CloseCamera, HandleScanned, Capture,
             HandleCaptured, CaptureFails, ReadPdf, PdfUnread, SubmitPdfQr, HandleSubmit, Render
  <1>5. CASE AnswerStep
    BY <1>1, <1>2, <1>5 DEF AnswerStep
  <1> QED
    BY <1>4, <1>5 DEF Next

\* Combining leaves a field the guest typed, and blames what it fills on a scan.
LEMMA ApplyAttributes ==
  ASSUME FieldInv, NEW f \in Fields, NEW reads \in Reads, NEW source \in {"ocr", "qr"}
  PROVE  LET new == ApplyScan(reads, source)[f] IN
         /\ new.source # "none" => new.text # Empty
         /\ f \in typed => new = field[f]
  <1>1. CASE Keeps(rendered.field[f], reads[f], source)
    BY <1>1 DEF ApplyScan, FieldInv, Attributed, Sourced
  <1>2. CASE ~Keeps(rendered.field[f], reads[f], source)
    <2>1. reads[f] # Empty /\ f \notin typed
      BY <1>2 DEF Keeps, FieldInv, Attributed, TypedSeen
    <2>2. ApplyScan(reads, source)[f] \in {BlankField, [text |-> reads[f], source |-> source]}
      BY <1>2 DEF ApplyScan, CombineField
    <2> QED
      BY <2>1, <2>2 DEF BlankField
  <1> QED
    BY <1>1, <1>2

LEMMA FieldInvStep == FieldInv /\ [Next]_vars => FieldInv'
  <1> SUFFICES ASSUME FieldInv, [Next]_vars PROVE Attributed'
    BY TypeStep DEF FieldInv
  <1> USE DEF FieldInv
  <1>1. ASSUME NEW f \in Fields, NEW text \in TextsOf(f), UpdateField(f, text)
        PROVE  Attributed'
    <2>1. field'[f] = [text |-> text, source |-> "none"] /\ \A g \in Fields \ {f} : field'[g] = field[g]
      BY <1>1 DEF UpdateField, TypeOK
    <2>2. rendered'.field = field' /\ typed' \subseteq typed \cup {f} /\ (f \in typed' => text # Empty)
      BY <1>1 DEF UpdateField, Shown
    <2>3. typed' \subseteq Fields
      BY <1>1 DEF UpdateField, TypeOK
    <2> QED
      BY <2>1, <2>2, <2>3 DEF Attributed, Sourced, TypedSeen, TypeOK
  <1>2. CASE Combined
    <2>1. PICK reads \in Reads, source \in {"ocr", "qr"} : field' = ApplyScan(reads, source)
      BY <1>2, SignedAreReads DEF Combined
    <2>2. \A f \in Fields : /\ field'[f].source # "none" => field'[f].text # Empty
                            /\ f \in typed => field'[f] = field[f]
      BY <2>1, ApplyAttributes
    <2>3. typed \subseteq Fields
      BY DEF TypeOK
    <2> QED
      BY <1>2, <2>2, <2>3 DEF Combined, Attributed, Sourced, TypedSeen
  <1>3. CASE Seen
    <2>1. typed \subseteq Fields
      BY DEF TypeOK
    <2> QED
      BY <1>3, <2>1 DEF Seen, Attributed, Sourced, TypedSeen
  <1> QED
    BY <1>1, <1>2, <1>3, FieldSteps

LEMMA FieldInvHolds == Spec => []FieldInv
  <1>1. Init => FieldInv
    BY InitType DEF Init, FieldInv, Attributed, Sourced, TypedSeen, BlankField, Shown
  <1> QED
    BY <1>1, FieldInvStep, PTL DEF Spec

\* combineScan, updateField: what the guest typed stays as typed, whichever
\* scans were under way when they typed it.
THEOREM TypedStays == Spec => TypedKept
  <1>1. FieldInv /\ [Next]_vars =>
          [\A f \in typed : field'[f].text # field[f].text =>
              \E text \in TextsOf(f) : UpdateField(f, text)]_vars
    <2> SUFFICES ASSUME FieldInv, [Next]_vars, NEW f \in typed,
                        field'[f].text # field[f].text
                 PROVE  \E text \in TextsOf(f) : UpdateField(f, text)
      OBVIOUS
    <2>0. f \in Fields
      BY DEF FieldInv, TypeOK
    <2>1. ASSUME NEW g \in Fields, NEW text \in TextsOf(g), UpdateField(g, text)
          PROVE  g = f
      BY <2>0, <2>1 DEF UpdateField, FieldInv, TypeOK
    <2>2. CASE Combined
      <3>1. PICK reads \in Reads, source \in {"ocr", "qr"} : field' = ApplyScan(reads, source)
        BY <2>2, SignedAreReads DEF Combined
      <3> QED
        BY <2>0, <3>1, ApplyAttributes
    <2>3. CASE Seen
      BY <2>3 DEF Seen
    <2> QED
      BY <2>1, <2>2, <2>3, FieldSteps
  <1> QED
    BY <1>1, FieldInvHolds, PTL DEF Spec, TypedKept

\* RANK: once rendered, a value off a signed code gives way to the guest and to
\* another signed code, never to printed text.
THEOREM SignedStays == Spec => SignedKept
  <1>1. FieldInv /\ [Next]_vars =>
          [\A f \in Fields :
             field[f].source = "qr" /\ rendered.field[f] = field[f] /\ field'[f] # field[f] =>
             \/ \E text \in TextsOf(f) : UpdateField(f, text)
             \/ \E reads \in SignedReads :
                   field'[f] = CombineField(f, field[f], reads[f], "qr")]_vars
    <2> SUFFICES ASSUME FieldInv, [Next]_vars, NEW f \in Fields,
                        field[f].source = "qr", rendered.field[f] = field[f],
                        field'[f] # field[f]
                 PROVE  \/ \E text \in TextsOf(f) : UpdateField(f, text)
                        \/ \E reads \in SignedReads :
                              field'[f] = CombineField(f, field[f], reads[f], "qr")
      OBVIOUS
    <2>1. ASSUME NEW g \in Fields, NEW text \in TextsOf(g), UpdateField(g, text)
          PROVE  g = f
      BY <2>1 DEF UpdateField, FieldInv, TypeOK
    <2>2. ASSUME NEW reads \in Reads, field' = ApplyScan(reads, "ocr") PROVE FALSE
      <3>1. Keeps(rendered.field[f], reads[f], "ocr")
        BY RankValues DEF Keeps, FieldInv, Attributed, Sourced
      <3> QED
        BY <2>2, <3>1 DEF ApplyScan
    <2>3. ASSUME NEW reads \in SignedReads, field' = ApplyScan(reads, "qr")
          PROVE  field'[f] = CombineField(f, field[f], reads[f], "qr")
      BY <2>3 DEF ApplyScan, CombineField
    <2>4. CASE Seen
      BY <2>4 DEF Seen
    <2> QED
      BY <2>1, <2>2, <2>3, <2>4, FieldSteps DEF Combined
  <1> QED
    BY <1>1, FieldInvHolds, PTL DEF Spec, SignedKept

\* One field, a signed and a printed reading of it: the order does not matter.
LEMMA Commutes ==
  ASSUME NEW f \in Fields, NEW now \in Field, NEW signed \in Texts \cup {Empty},
         NEW printed \in Texts \cup {Empty},
         now.source # "none" => now.text # Empty,
         f = "idNumber" /\ now.source = "qr" => signed \in {Empty, now.text}
  PROVE  CombineField(f, CombineField(f, now, signed, "qr"), printed, "ocr")
         = CombineField(f, CombineField(f, now, printed, "ocr"), signed, "qr")
  <1> USE RankValues DEF CombineField, Keeps, Contradicts, BlankField, Field
  <1>1. CASE now.source = "none" /\ now.text # Empty
    BY <1>1
  <1>2. CASE now.source = "none" /\ now.text = Empty
    BY <1>2
  <1>3. CASE now.source = "ocr"
    BY <1>3
  <1>4. CASE now.source = "qr"
    BY <1>4
  <1> QED
    BY <1>1, <1>2, <1>3, <1>4

\* combineScan: a signed and a printed reading leave each field the same whichever
\* comes first, in every form the page can hold.
THEOREM OrderNeverMatters == Spec => []OrderIrrelevant
  <1>1. FieldInv => OrderIrrelevant
    <2> SUFFICES ASSUME FieldInv, NEW f \in Fields,
                        NEW signed \in TextsOf(f), NEW printed \in TextsOf(f),
                        f = "idNumber" /\ field[f].source = "qr"
                            => signed \in {Empty, field[f].text}
                 PROVE  CombineField(f, CombineField(f, field[f], signed, "qr"), printed, "ocr")
                        = CombineField(f, CombineField(f, field[f], printed, "ocr"), signed, "qr")
      BY DEF OrderIrrelevant
    <2>1. field[f] \in Field /\ (field[f].source # "none" => field[f].text # Empty)
      BY DEF FieldInv, Attributed, Sourced, TypeOK
    <2> QED
      BY <2>1, Commutes, TextsAreTexts
  <1> QED
    BY <1>1, FieldInvHolds, PTL

(***************************************************************************)
(* The slots.  While uploads neither overlap nor fail, the one request in  *)
(* flight is the one scanningSide names, and every other slot is settled.  *)
(***************************************************************************)
OneRequest ==
    /\ \A m \in scans, n \in scans : m = n
    /\ \A d \in Asking, e \in Asking : d = e
    /\ \A d \in Asking : scans = {} /\ scanning = "pdf"

Settled ==
    /\ \A m \in scans : scanning = m.side /\ slot[m.side].shown = m.photo
    /\ \A s \in Sides : (\A m \in scans : m.side # s) => slot[s].key = slot[s].shown

SlotInv == TypeOK /\ (~disturbed => OneRequest /\ Settled)

LEMMA SubmitScanSettles ==
  ASSUME SlotInv, NEW p \in Photos, NEW side \in Sides, NEW qr \in BOOLEAN,
         SubmitScan(p, side, qr), pdf' = pdf, ~disturbed'
  PROVE  (OneRequest /\ Settled)'
  <1> DEFINE m == [photo |-> p, side |-> side, qr |-> qr]
  <1>1. ~disturbed /\ scans = {} /\ Asking = {}
    BY DEF SubmitScan, Overlap
  <1>2. scans' = {m} /\ m.photo = p /\ m.side = side /\ Asking' = {}
    BY <1>1 DEF SubmitScan, Asking
  <1>3. slot'[side].shown = p /\ \A s \in Sides \ {side} : slot'[s] = slot[s]
    BY DEF SubmitScan, SlotInv, TypeOK, Slot
  <1>4. \A s \in Sides : slot[s].key = slot[s].shown
    BY <1>1 DEF SlotInv, Settled
  <1>5. OneRequest'
    BY <1>2 DEF OneRequest
  <1>6. scanning' = side
    BY DEF SubmitScan
  <1> HIDE DEF m
  <1>7. Settled'
    BY <1>2, <1>3, <1>4, <1>6 DEF Settled
  <1> QED
    BY <1>5, <1>7

\* The answer to the one upload in flight settles both slots.
LEMMA AnswerSettles ==
  ASSUME SlotInv, OneRequest, Settled, NEW m \in scans, NEW detected \in Sides
  PROVE  \A s \in Sides : Placed(m, detected)[s].key = Placed(m, detected)[s].shown
  <1>1. m.side \in Sides /\ slot[m.side].shown = m.photo
    BY DEF SlotInv, TypeOK, Scan, Settled
  <1>2. \A s \in Sides \ {m.side} : slot[s].key = slot[s].shown
    BY DEF OneRequest, Settled
  <1>3. CASE detected # m.side /\ rendered.slot[detected].key = None
    BY <1>1, <1>2, <1>3 DEF Placed, EmptySide, Sides, SlotInv, TypeOK
  <1>4. CASE ~(detected # m.side /\ rendered.slot[detected].key = None)
    <2>1. Placed(m, detected) = [slot EXCEPT ![m.side] = [@ EXCEPT !.key = m.photo]]
      BY <1>4 DEF Placed
    <2> QED
      BY <1>1, <1>2, <2>1 DEF SlotInv, TypeOK, Slot
  <1> QED
    BY <1>3, <1>4

LEMMA SlotInvStep == SlotInv /\ [Next]_vars => SlotInv'
  <1> SUFFICES ASSUME SlotInv, [Next]_vars, ~disturbed' PROVE (OneRequest /\ Settled)'
    BY TypeStep DEF SlotInv
  <1>t. TypeOK
    BY DEF SlotInv
  <1>1. ASSUME NEW f \in Fields, NEW text \in TextsOf(f), UpdateField(f, text)
        PROVE  (OneRequest /\ Settled)'
    BY <1>1 DEF UpdateField, SlotInv, OneRequest, Settled, Asking
  <1>2. ASSUME NEW p \in Photos, NEW side \in Sides, HandleFile(p, side)
        PROVE  (OneRequest /\ Settled)'
    BY <1>2, SubmitScanSettles DEF HandleFile
  <1>3. CASE OpenCamera
    BY <1>3, <1>t DEF OpenCamera, Detached, SlotInv, OneRequest, Settled, Asking, TypeOK
  <1>4. CASE CloseCamera
    BY <1>4 DEF CloseCamera, SlotInv, OneRequest, Settled, Asking
  <1>5. ASSUME NEW p \in Photos, HandleScanned(p) PROVE (OneRequest /\ Settled)'
    BY <1>5, SubmitScanSettles DEF HandleScanned, CameraSide, Sides
  <1>6. ASSUME NEW p \in Photos, Capture(p) PROVE (OneRequest /\ Settled)'
    BY <1>6 DEF Capture, SlotInv, OneRequest, Settled, Asking
  <1>7. ASSUME NEW p \in Photos, HandleCaptured(p) PROVE (OneRequest /\ Settled)'
    BY <1>7, SubmitScanSettles DEF HandleCaptured, CameraSide, Sides
  <1>8. ASSUME NEW p \in Photos, CaptureFails(p) PROVE (OneRequest /\ Settled)'
    BY <1>8 DEF CaptureFails, SlotInv, OneRequest, Settled, Asking
  <1>9. ASSUME NEW d \in Pdfs, ReadPdf(d) PROVE (OneRequest /\ Settled)'
    BY <1>9, <1>t DEF ReadPdf, SlotInv, OneRequest, Settled, Asking, TypeOK
  <1>10. ASSUME NEW d \in Pdfs, PdfUnread(d) PROVE (OneRequest /\ Settled)'
    BY <1>10, <1>t DEF PdfUnread, SlotInv, OneRequest, Settled, Asking, TypeOK
  <1>11. ASSUME NEW d \in Pdfs, SubmitPdfQr(d) PROVE (OneRequest /\ Settled)'
    <2>1. ~disturbed /\ scans = {} /\ Asking = {}
      BY <1>11 DEF SubmitPdfQr, Overlap
    <2>2. Asking' = {d}
      BY <1>11, <1>t, <2>1 DEF SubmitPdfQr, Asking, TypeOK
    <2> QED
      BY <1>11, <2>1, <2>2 DEF SubmitPdfQr, SlotInv, OneRequest, Settled
  <1>12. CASE HandleSubmit
    BY <1>12 DEF HandleSubmit, SlotInv, OneRequest, Settled, Asking
  <1>13. ASSUME NEW m \in scans, NEW reads \in Reads, NEW source \in {"ocr", "qr"},
                NEW detected \in Sides, ScanAnswer(m, reads, source, detected)
         PROVE  (OneRequest /\ Settled)'
    <2>1. ~disturbed /\ OneRequest /\ Settled
      BY <1>13 DEF ScanAnswer, SlotInv
    <2>2. scans' = {} /\ Asking' = {}
      BY <1>13, <2>1 DEF ScanAnswer, OneRequest, Asking
    <2>3. \A s \in Sides : slot'[s].key = slot'[s].shown
      BY <1>13, <2>1, AnswerSettles DEF ScanAnswer
    <2> QED
      BY <2>2, <2>3 DEF OneRequest, Settled
  <1>14. ASSUME NEW m \in scans, ScanFails(m) PROVE FALSE
    BY <1>14 DEF ScanFails
  <1>15. ASSUME NEW d \in Pdfs, PdfFails(d) \/ \E reads \in Reads : PdfAnswer(d, reads)
         PROVE  (OneRequest /\ Settled)'
    <2>1. /\ ~disturbed /\ OneRequest /\ Settled
          /\ scans = {} /\ scans' = scans /\ slot' = slot
          /\ pdf' = [pdf EXCEPT ![d] = "done"] /\ d \in Asking /\ scanning' = None
      BY <1>15 DEF PdfFails, PdfAnswer, SlotInv, OneRequest
    <2>2. Asking' = {}
      BY <1>t, <2>1 DEF OneRequest, Asking, TypeOK
    <2> QED
      BY <2>1, <2>2 DEF OneRequest, Settled
  <1>17. CASE Submitted
    BY <1>17, <1>t DEF Submitted, Detached, SlotInv, OneRequest, Settled, Asking, TypeOK
  <1>18. CASE SubmitFails
    BY <1>18 DEF SubmitFails, SlotInv, OneRequest, Settled, Asking
  <1>19. CASE Render
    BY <1>19 DEF Render, SlotInv, OneRequest, Settled, Asking
  <1>20. CASE UNCHANGED vars
    BY <1>20 DEF vars, SlotInv, OneRequest, Settled, Asking
  <1> QED
    BY <1>1, <1>2, <1>3, <1>4, <1>5, <1>6, <1>7, <1>8, <1>9, <1>10, <1>11, <1>12, <1>13,
       <1>14, <1>15, <1>17, <1>18, <1>19, <1>20 DEF Next, GuestStep, AnswerStep

\* setSide, moveSide: provided uploads neither overlapped nor failed, each slot
\* submits the photo it shows, wherever the server moved it.
THEOREM PreviewsAreSubmitted == Spec => []SubmitsWhatItShows
  <1>1. Init => SlotInv
    BY InitType DEF Init, SlotInv, OneRequest, Settled, Asking, EmptySide
  <1>2. SlotInv => SubmitsWhatItShows
    <2> SUFFICES ASSUME SlotInv, ~disturbed, scanning = None, NEW s \in Sides
                 PROVE  slot[s].key = slot[s].shown
      BY DEF SubmitsWhatItShows
    <2>1. scans = {}
      BY FormAssumption DEF SlotInv, Settled, TypeOK, Scan
    <2> QED
      BY <2>1 DEF SlotInv, Settled
  <1> QED
    BY <1>1, <1>2, SlotInvStep, PTL DEF Spec

\* scanningSide: the page forgets a photo that is being read only after two
\* uploads overlapped, or one failed.  BusyWhileUploading itself does not hold.
BusyUntilDisturbed == ~disturbed => BusyWhileUploading

\* One upload at a time keeps the submit button disabled until it has ended.
THEOREM BusyOneByOne == Spec => []BusyUntilDisturbed
  <1>1. Init => SlotInv
    BY InitType DEF Init, SlotInv, OneRequest, Settled, Asking, EmptySide
  <1>2. SlotInv => BusyUntilDisturbed
    <2> SUFFICES ASSUME SlotInv, ~disturbed, NEW m \in scans
                 PROVE  scanning # None
      BY DEF BusyUntilDisturbed, BusyWhileUploading
    <2> QED
      BY FormAssumption DEF SlotInv, Settled, TypeOK, Scan
  <1> QED
    BY <1>1, <1>2, SlotInvStep, PTL DEF Spec

(***************************************************************************)
(* The keys implement module PhotoSlots, overlapping and failing uploads   *)
(* included.  The abstract uploads do not say what was sent along with a   *)
(* photo, so two uploads of one photo would be one there: there are none,  *)
(* because a photo is used once, and sent only after it was taken.         *)
(***************************************************************************)
PhotosOnce ==
    /\ captures \subseteq used
    /\ \A m \in scans : m.photo \in used \ captures
    /\ \A m \in scans, n \in scans : m.photo = n.photo => m = n

PhotoInv == TypeOK /\ PhotosOnce

\* What starts an upload, as the slots see it.
LEMMA SubmitScanOnce ==
  ASSUME PhotoInv, NEW p \in Photos, NEW side \in Sides, NEW qr \in BOOLEAN,
         SubmitScan(p, side, qr), p \notin used \/ p \in captures,
         used' = used \cup {p}, captures' = captures \ {p}
  PROVE  PhotosOnce'
  <1> DEFINE m == [photo |-> p, side |-> side, qr |-> qr]
  <1>1. scans' = scans \cup {m} /\ m.photo = p
    BY DEF SubmitScan
  <1>2. \A n \in scans : n.photo # p /\ n.photo \in used \ captures
    BY DEF PhotoInv, PhotosOnce
  <1> HIDE DEF m
  <1> QED
    BY <1>1, <1>2 DEF PhotoInv, PhotosOnce

\* Every other step sends nothing, and takes at most a photo not yet used.
LEMMA NothingSent ==
  ASSUME PhotoInv, scans' \subseteq scans,
         \/ captures' \subseteq captures /\ used' = used
         \/ \E p \in Photos \ used : captures' = captures \cup {p} /\ used' = used \cup {p}
  PROVE  PhotosOnce'
  BY DEF PhotoInv, PhotosOnce

LEMMA PhotoInvStep == PhotoInv /\ [Next]_vars => PhotoInv'
  <1> SUFFICES ASSUME PhotoInv, [Next]_vars PROVE PhotosOnce'
    BY TypeStep DEF PhotoInv
  <1>1. ASSUME NEW p \in Photos, NEW side \in Sides, HandleFile(p, side) PROVE PhotosOnce'
    <2>1. p \notin captures
      BY <1>1 DEF HandleFile, PhotoInv, PhotosOnce
    <2> QED
      BY <1>1, <2>1, SubmitScanOnce DEF HandleFile
  <1>2. CameraSide \in Sides
    BY DEF CameraSide, Sides
  <1>3. ASSUME NEW p \in Photos, HandleScanned(p) PROVE PhotosOnce'
    <2>1. p \notin captures
      BY <1>3 DEF HandleScanned, PhotoInv, PhotosOnce
    <2> QED
      BY <1>2, <1>3, <2>1, SubmitScanOnce DEF HandleScanned
  <1>4. ASSUME NEW p \in Photos, HandleCaptured(p) PROVE PhotosOnce'
    <2>1. p \in used
      BY <1>4 DEF HandleCaptured, PhotoInv, PhotosOnce
    <2> QED
      BY <1>2, <1>4, <2>1, SubmitScanOnce DEF HandleCaptured
  <1>5. CASE GuestStep
    BY <1>1, <1>3, <1>4, <1>5, NothingSent
       DEF GuestStep, UpdateField, OpenCamera, CloseCamera, Capture, CaptureFails, ReadPdf,
           PdfUnread, SubmitPdfQr, HandleSubmit, Render
  <1>6. CASE AnswerStep
    BY <1>6, NothingSent
       DEF AnswerStep, ScanAnswer, ScanFails, PdfAnswer, PdfFails, Submitted, SubmitFails
  <1>7. CASE UNCHANGED vars
    BY <1>7, NothingSent DEF vars
  <1> QED
    BY <1>5, <1>6, <1>7 DEF Next

LEMMA PhotoInvHolds == Spec => []PhotoInv
  <1>1. Init => PhotoInv
    BY InitType DEF Init, PhotoInv, PhotosOnce
  <1> QED
    BY <1>1, PhotoInvStep, PTL DEF Spec

\* The abstract view of the page.
Held == [f \in Forms |-> KeysOf(slot)]
Seeing == [f \in Forms |-> KeysOf(rendered.slot)]
Sent(m) == [guest |-> "page", side |-> m.side, key |-> m.photo]
Uploads == {Sent(m) : m \in scans}

\* Rendering keys that have not changed, in the words of PhotoSlots.
LEMMA ShownKeys ==
  ASSUME KeysOf(slot') = KeysOf(slot), rendered' = Shown'
  PROVE  Seeing' = [Seeing EXCEPT !["page"] = Held["page"]]
  <1>1. KeysOf(rendered'.slot) = KeysOf(slot)
    BY DEF Shown
  <1> QED
    BY <1>1 DEF Seeing, Held, Forms

LEMMA SubmitScanBegins ==
  ASSUME PhotoInv, NEW p \in Photos, NEW side \in Sides, NEW qr \in BOOLEAN,
         SubmitScan(p, side, qr), p \notin used \/ p \in captures,
         used' = used \cup {p}, captures' = captures \ {p}, rendered' \in {rendered, Shown'}
  PROVE  Slots!Begin("page", side, p)
  <1>1. p \notin used \ captures /\ used' \ captures' = (used \ captures) \cup {p}
    BY DEF PhotoInv, PhotosOnce
  <1>2. Uploads' = Uploads \cup {[guest |-> "page", side |-> side, key |-> p]}
    <2> DEFINE m == [photo |-> p, side |-> side, qr |-> qr]
    <2>1. scans' = scans \cup {m}
      BY DEF SubmitScan
    <2>2. Sent(m) = [guest |-> "page", side |-> side, key |-> p]
      BY DEF Sent
    <2> HIDE DEF m
    <2> QED
      BY <2>1, <2>2, Zenon DEF Uploads
  <1>3. \A s \in Sides : slot'[s].key = slot[s].key
    BY DEF SubmitScan, PhotoInv, TypeOK, Slot
  <1>4. KeysOf(slot') = KeysOf(slot)
    BY <1>3 DEF KeysOf
  <1>5. Held' = Held
    BY <1>4 DEF Held
  <1>6. Seeing' \in {Seeing, [Seeing EXCEPT !["page"] = Held["page"]]}
    <2>1. CASE rendered' = rendered
      BY <2>1 DEF Seeing
    <2>2. CASE rendered' = Shown'
      BY <1>4, <2>2, ShownKeys
    <2> QED
      BY <2>1, <2>2
  <1> QED
    BY <1>1, <1>2, <1>5, <1>6 DEF Slots!Begin, Held, Seeing, Uploads, Sent

LEMMA UploadEnds ==
  ASSUME PhotoInv, NEW m \in scans, scans' = scans \ {m}
  PROVE  Sent(m) \in Uploads /\ Uploads' = Uploads \ {Sent(m)}
  <1>1. \A n \in scans : Sent(n) = Sent(m) => n = m
    BY DEF PhotoInv, PhotosOnce, Sent
  <1>2. Uploads' = {Sent(n) : n \in scans \ {m}}
    BY DEF Uploads
  <1> QED
    BY <1>1, <1>2 DEF Uploads

\* The keys of the slots after an answer, in the words of PhotoSlots.
LEMMA PlacedKeys ==
  ASSUME TypeOK, NEW m \in Scan, NEW detected \in Sides, slot' = Placed(m, detected)
  PROVE  Held' = [Held EXCEPT !["page"] =
                    IF detected # m.side /\ Seeing["page"][detected] = None
                    THEN [Slots!NoKeys EXCEPT ![detected] = m.photo]
                    ELSE [Held["page"] EXCEPT ![m.side] = m.photo]]
  <1> DEFINE keys == [s \in Sides |-> slot'[s].key]
  <1>1. m.side \in Sides /\ \A s \in Sides : slot[s] \in Slot
    BY DEF TypeOK, Scan
  <1>2. Held' = [f \in Forms |-> keys]
    BY DEF Held, KeysOf
  <1>3. /\ Held["page"] = [s \in Sides |-> slot[s].key]
        /\ Seeing["page"][detected] = rendered.slot[detected].key
    BY DEF Held, Seeing, KeysOf, Forms
  <1>4. CASE detected # m.side /\ rendered.slot[detected].key = None
    <2>1. slot'[detected].key = m.photo /\ slot'[m.side] = EmptySide
      BY <1>1, <1>4 DEF Placed, TypeOK
    <2>2. keys = [Slots!NoKeys EXCEPT ![detected] = m.photo]
      BY <1>1, <1>4, <2>1 DEF Slots!NoKeys, Slots!Sides, Sides, EmptySide
    <2> QED
      BY <1>2, <1>3, <1>4, <2>2 DEF Held, Forms
  <1>5. CASE ~(detected # m.side /\ rendered.slot[detected].key = None)
    <2>1. slot' = [slot EXCEPT ![m.side] = [slot[m.side] EXCEPT !.key = m.photo]]
      BY <1>5 DEF Placed
    <2>2. slot'[m.side].key = m.photo /\ \A s \in Sides \ {m.side} : slot'[s] = slot[s]
      BY <1>1, <2>1 DEF TypeOK, Slot
    <2>3. keys = [Held["page"] EXCEPT ![m.side] = m.photo]
      BY <1>1, <1>3, <2>2
    <2> QED
      BY <1>2, <1>3, <1>5, <2>3 DEF Held, Forms
  <1> QED
    BY <1>4, <1>5

LEMMA AnswerKeepsSlots ==
  ASSUME PhotoInv, NEW m \in scans, NEW reads \in Reads, NEW source \in {"ocr", "qr"},
         NEW detected \in Sides, ScanAnswer(m, reads, source, detected)
  PROVE  Slots!Answer(Sent(m), detected)
  <1>1. m \in Scan
    BY DEF PhotoInv, TypeOK
  <1>2. Sent(m) \in Uploads /\ Uploads' = Uploads \ {Sent(m)}
    BY UploadEnds DEF ScanAnswer
  <1>3. /\ Sent(m).guest = "page" /\ Sent(m).side = m.side /\ Sent(m).key = m.photo
    BY DEF Sent
  <1>4. Held' = [Held EXCEPT !["page"] =
                   IF detected # m.side /\ Seeing["page"][detected] = None
                   THEN [Slots!NoKeys EXCEPT ![detected] = m.photo]
                   ELSE [Held["page"] EXCEPT ![m.side] = m.photo]]
    BY <1>1, PlacedKeys DEF PhotoInv, ScanAnswer
  <1>5. UNCHANGED <<used, captures>> /\ Seeing' = Seeing
    BY DEF ScanAnswer, Seeing
  <1> QED
    BY <1>2, <1>3, <1>4, <1>5 DEF Slots!Answer, Held, Seeing, Uploads, Sent

LEMMA StepKeepsSlots ==
  PhotoInv /\ [Next]_vars => Slots!Next \/ UNCHANGED Slots!vars
  <1> SUFFICES ASSUME PhotoInv, [Next]_vars PROVE Slots!Next \/ UNCHANGED Slots!vars
    OBVIOUS
  <1>0. "page" \in Forms /\ Slots!Sides = Sides /\ CameraSide \in Sides
    BY DEF Forms, Slots!Sides, Sides, CameraSide
  <1>1. ASSUME NEW p \in Photos, NEW side \in Sides, HandleFile(p, side) PROVE Slots!Next
    <2>1. p \notin captures
      BY <1>1 DEF HandleFile, PhotoInv, PhotosOnce
    <2>2. Slots!Begin("page", side, p)
      BY <1>1, <2>1, SubmitScanBegins DEF HandleFile
    <2> QED
      BY <1>0, <2>2 DEF Slots!Next
  <1>2. ASSUME NEW p \in Photos, HandleScanned(p) PROVE Slots!Next
    <2>1. p \notin captures
      BY <1>2 DEF HandleScanned, PhotoInv, PhotosOnce
    <2>2. Slots!Begin("page", CameraSide, p)
      BY <1>0, <1>2, <2>1, SubmitScanBegins DEF HandleScanned
    <2> QED
      BY <1>0, <2>2 DEF Slots!Next
  <1>3. ASSUME NEW p \in Photos, HandleCaptured(p) PROVE Slots!Next
    <2>1. p \in used
      BY <1>3 DEF HandleCaptured, PhotoInv, PhotosOnce
    <2>2. Slots!Begin("page", CameraSide, p)
      BY <1>0, <1>3, <2>1, SubmitScanBegins DEF HandleCaptured
    <2> QED
      BY <1>0, <2>2 DEF Slots!Next
  <1>4. ASSUME NEW p \in Photos, CaptureFails(p) PROVE Slots!Waste(p)
    <2>1. used' \ captures' = (used \ captures) \cup {p}
      BY <1>4 DEF CaptureFails, PhotoInv, PhotosOnce
    <2> QED
      BY <1>4, <2>1 DEF CaptureFails, Slots!Waste
  <1>5. ASSUME NEW m \in scans, NEW reads \in Reads, NEW source \in {"ocr", "qr"},
               NEW detected \in Sides, ScanAnswer(m, reads, source, detected)
        PROVE  Slots!Next
    <2>1. Slots!Answer(Sent(m), detected) /\ Sent(m) \in Uploads
      BY <1>5, AnswerKeepsSlots, UploadEnds DEF ScanAnswer
    <2> QED
      BY <1>0, <2>1 DEF Slots!Next, Uploads, Sent
  <1>6. ASSUME NEW m \in scans, ScanFails(m) PROVE Slots!Next
    <2>1. Sent(m) \in Uploads /\ Uploads' = Uploads \ {Sent(m)}
      BY <1>6, UploadEnds DEF ScanFails
    <2>2. Slots!Lose(Sent(m))
      BY <1>6, <2>1 DEF ScanFails, Slots!Lose, Uploads, Sent
    <2> QED
      BY <2>1, <2>2 DEF Slots!Next, Uploads, Sent
  <1>7. ASSUME UNCHANGED <<slot, scans, rendered>>, used' \ captures' = used \ captures
        PROVE  UNCHANGED Slots!vars
    BY <1>7 DEF Slots!vars
  <1>8. ASSUME UNCHANGED <<slot, scans>>, used' \ captures' = used \ captures,
               rendered' = Shown'
        PROVE  Slots!Next
    <2>1. Seeing' = [Seeing EXCEPT !["page"] = Held["page"]]
      BY <1>8, ShownKeys
    <2>2. Held' = Held /\ Uploads' = Uploads
      BY <1>8 DEF Held, Uploads, Sent
    <2>3. Slots!Render("page")
      BY <1>8, <2>1, <2>2 DEF Slots!Render, Seeing, Held, Uploads, Sent
    <2> QED
      BY <1>0, <2>3 DEF Slots!Next
  <1>9. ASSUME NEW p \in Photos, Capture(p) PROVE Slots!Next
    <2>1. used' \ captures' = used \ captures
      BY <1>9 DEF Capture, PhotoInv, PhotosOnce
    <2> QED
      BY <1>8, <1>9, <2>1 DEF Capture
  <1>10. CASE Render
    BY <1>8, <1>10 DEF Render, Shown
  <1>11. CASE GuestStep
    BY <1>1, <1>2, <1>3, <1>4, <1>7, <1>8, <1>9, <1>10, <1>11
       DEF GuestStep, UpdateField, OpenCamera, CloseCamera, ReadPdf, PdfUnread, SubmitPdfQr,
           HandleSubmit, Slots!Next
  <1>12. CASE AnswerStep
    BY <1>5, <1>6, <1>7, <1>12
       DEF AnswerStep, PdfAnswer, PdfFails, Submitted, SubmitFails
  <1>13. CASE UNCHANGED vars
    BY <1>7, <1>13 DEF vars
  <1> QED
    BY <1>11, <1>12, <1>13 DEF Next

\* submitScan, setSide, moveSide: overlapping and failing uploads included, a
\* slot's key changes only as module PhotoSlots lets it.
THEOREM PageKeepsSlots == Spec => KeepsSlots
  <1>1. Init => Slots!Init
    <2> SUFFICES ASSUME Init PROVE Slots!Init
      OBVIOUS
    <2>1. \A s \in Sides : slot[s].key = None
      BY DEF Init, EmptySide
    <2>2. KeysOf(slot) = Slots!NoKeys /\ rendered.slot = slot
      BY <2>1 DEF Init, Shown, KeysOf, Slots!NoKeys, Slots!Sides, Sides
    <2> QED
      BY <2>2 DEF Init, Slots!Init
  <1>2. PhotoInv /\ [Next]_vars => [Slots!Next]_Slots!vars
    BY StepKeepsSlots
  <1> QED
    BY <1>1, <1>2, PhotoInvHolds, PTL DEF Spec, KeepsSlots, Slots!Spec

\* moveSide: the two keys the page submits are never one photo, and neither is a
\* photo whose upload has not ended.
THEOREM PagePhotosApart == Spec => []Slots!NoPhotoTwice
  BY PageKeepsSlots, Slots!PhotosStayApart DEF KeepsSlots
=============================================================================
