-------------------------- MODULE RecordEditsProofs --------------------------
(***************************************************************************)
(* Proofs about module RecordEdits, for any number of staff and any dates. *)
(* When every PATCH carries the whole form, each write replaces the record *)
(* by one that was validated in full, so no overlap of edits can spoil it. *)
(***************************************************************************)
EXTENDS RecordEdits, TLAPS

\* What a validated and masked whole form is.
Sound(columns) ==
    /\ columns \in Row
    /\ InOrder(columns.checkInDate, columns.checkOutDate)
    /\ columns.idType = "AADHAAR" => columns.idNumber \in {"masked", None}

IInv ==
    /\ TypeOK
    /\ Sound(row)
    /\ \A w \in Staff : job[w].pc = "write" => Sound(job[w].data)

LEMMA RowIsData == Row \subseteq Data
  BY DEF Row, Data

LEMMA PayloadIsData == Payload \subseteq Data
  BY RowIsData DEF Payload

LEMMA NoRecordInRow == NoRecord \in Row
  BY DEF NoRecord, Row, IdTypes

LEMMA IdleInJob == IdleJob \in Job
  BY DEF IdleJob, Job, Data

\* Masking keeps the shape of a payload.
LEMMA MaskedType ==
  ASSUME NEW data \in Data, NEW existing \in Row
  PROVE  /\ MaskAadhaarField(data, existing) \in Data
         /\ data \in Row => MaskAadhaarField(data, existing) \in Row
  BY DEF MaskAadhaarField, Data, Row, IdNumbers

\* A write over a row gives a row.
LEMMA MergedType ==
  ASSUME NEW columns \in Row, NEW data \in Data
  PROVE  Merged(columns, data) \in Row
  BY DEF Merged, Given, Row, Data

\* A whole form replaces the row.
LEMMA MergedWhole ==
  ASSUME NEW columns \in Row, NEW data \in Row
  PROVE  Merged(columns, data) = data
  BY EditsAssumption DEF Merged, Given, Row

\* validated, then masked: a whole form is sound whatever row it was checked
\* against.
LEMMA AcceptedIsSound ==
  ASSUME NEW data \in Row, NEW existing \in Row, Accepted(data, existing)
  PROVE  Sound(MaskAadhaarField(data, existing))
  <1>1. /\ data.idType # Absent /\ data.idNumber # Absent
        /\ data.checkInDate # Absent /\ data.checkOutDate # Absent
    BY EditsAssumption DEF Row
  <1>2. EffectiveIdType(data, existing) = data.idType
    BY <1>1 DEF EffectiveIdType, Given
  <1>3. InOrder(data.checkInDate, data.checkOutDate)
    BY <1>1 DEF Accepted, CheckDateOrder, Given
  <1>4. data.idType = "AADHAAR" => data.idNumber = None \/ data.idNumber \in {"masked", "full"}
    BY <1>1, <1>2 DEF Accepted, CheckAadhaarNumber, LooksLikeAadhaar
  <1>5. MaskAadhaarField(data, existing) \in Row
    BY RowIsData, MaskedType
  <1> QED
    BY <1>2, <1>3, <1>4, <1>5, EditsAssumption DEF Sound, MaskAadhaarField, Row, IdNumbers

LEMMA TypeStep == TypeOK /\ [Next]_vars => TypeOK'
  <1> SUFFICES ASSUME TypeOK, [Next]_vars PROVE TypeOK'
    OBVIOUS
  <1> USE DEF TypeOK
  <1>1. ASSUME NEW payload \in Payload, Create(payload) PROVE TypeOK'
    BY <1>1, PayloadIsData, NoRecordInRow, MaskedType, MergedType DEF Create
  <1>2. ASSUME NEW w \in Staff, NEW payload \in Payload, UpdateRead(w, payload) PROVE TypeOK'
    <2>1. MaskAadhaarField(payload, row) \in Data
      BY PayloadIsData, MaskedType
    <2> QED
      BY <1>2, <2>1 DEF UpdateRead, Job
  <1>3. ASSUME NEW w \in Staff, UpdateWrite(w) PROVE TypeOK'
    <2>1. Merged(row, job[w].data) \in Row
      BY MergedType DEF Job
    <2> QED
      BY <1>3, <2>1, IdleInJob DEF UpdateWrite
  <1>4. ASSUME NEW w \in Staff, UpdateAborted(w) PROVE TypeOK'
    BY <1>4, IdleInJob DEF UpdateAborted
  <1> QED
    BY <1>1, <1>2, <1>3, <1>4 DEF Next, vars

LEMMA InitIInv == Init => IInv
  <1> SUFFICES ASSUME Init PROVE IInv
    OBVIOUS
  <1>1. TypeOK
    BY NoRecordInRow, IdleInJob DEF Init, TypeOK
  <1>2. Sound(NoRecord)
    BY NoRecordInRow, EditsAssumption DEF Sound, NoRecord, InOrder
  <1> QED
    BY <1>1, <1>2 DEF Init, IInv, IdleJob

LEMMA IInvStep ==
  ASSUME WholeForms
  PROVE  IInv /\ [Next]_vars => IInv'
  <1> SUFFICES ASSUME IInv, [Next]_vars PROVE IInv'
    OBVIOUS
  <1>0. TypeOK' /\ TypeOK /\ Payload = Row
    BY TypeStep DEF IInv, Payload
  <1>1. ASSUME NEW payload \in Payload, Create(payload) PROVE IInv'
    <2> DEFINE data == MaskAadhaarField(payload, NoRecord)
    <2>1. Sound(data)
      BY <1>0, <1>1, NoRecordInRow, AcceptedIsSound DEF Create
    <2>2. row' = data
      BY <1>1, <2>1, NoRecordInRow, MergedWhole DEF Create, Sound
    <2> QED
      BY <1>0, <1>1, <2>1, <2>2 DEF Create, IInv
  <1>2. ASSUME NEW w \in Staff, NEW payload \in Payload, UpdateRead(w, payload) PROVE IInv'
    <2>1. Sound(MaskAadhaarField(payload, row))
      BY <1>0, <1>2, AcceptedIsSound DEF UpdateRead, TypeOK
    <2> QED
      BY <1>0, <1>2, <2>1 DEF UpdateRead, IInv, TypeOK
  <1>3. ASSUME NEW w \in Staff, UpdateWrite(w) PROVE IInv'
    <2>1. Sound(job[w].data)
      BY <1>3 DEF UpdateWrite, IInv
    <2>2. row' = job[w].data
      BY <1>0, <1>3, <2>1, MergedWhole DEF UpdateWrite, Sound, TypeOK
    <2> QED
      BY <1>0, <1>3, <2>1, <2>2 DEF UpdateWrite, IInv, TypeOK, IdleJob
  <1>4. ASSUME NEW w \in Staff, UpdateAborted(w) PROVE IInv'
    BY <1>0, <1>4 DEF UpdateAborted, IInv, TypeOK, IdleJob
  <1>5. CASE UNCHANGED vars
    BY <1>0, <1>5 DEF vars, IInv
  <1> QED
    BY <1>1, <1>2, <1>3, <1>4, <1>5 DEF Next

LEMMA IInvHolds ==
  ASSUME WholeForms
  PROVE  Spec => []IInv
  <1>1. IInv /\ [Next]_vars => IInv'
    BY IInvStep
  <1> QED
    BY InitIInv, <1>1, PTL DEF Spec

THEOREM TypeCorrect == Spec => []TypeOK
  <1>1. Init => TypeOK
    BY InitIInv DEF IInv
  <1> QED
    BY <1>1, TypeStep, PTL DEF Spec

\* checkDateOrder: as long as every PATCH carries both dates, no overlap of
\* edits leaves a stay that ends before it starts.
THEOREM StaysInOrder ==
  ASSUME WholeForms
  PROVE  Spec => []DatesOrdered
  <1>1. IInv => DatesOrdered
    BY DEF IInv, Sound, DatesOrdered
  <1> QED
    BY <1>1, IInvHolds, PTL

\* maskAadhaarField: as long as the kind of ID and the number travel together,
\* no record labelled Aadhaar ever holds a full number.
THEOREM AadhaarStaysMasked ==
  ASSUME WholeForms
  PROVE  Spec => []AadhaarMasked
  <1>1. IInv => AadhaarMasked
    BY EditsAssumption DEF IInv, Sound, AadhaarMasked, IdNumbers
  <1> QED
    BY <1>1, IInvHolds, PTL

\* isMaskedAadhaar: what the detail page shows can always be saved back.
THEOREM RecordsStayResavable ==
  ASSUME WholeForms
  PROVE  Spec => []RecordResavable
  <1>1. IInv => RecordResavable
    <2> SUFFICES ASSUME IInv PROVE Accepted(row, row)
      BY DEF RecordResavable
    <2>1. Sound(row)
      BY DEF IInv
    <2>2. CheckDateOrder(row, row)
      BY <2>1 DEF Sound, CheckDateOrder, Given
    <2>3. CheckAadhaarNumber(row, row)
      BY <2>1 DEF Sound, CheckAadhaarNumber, EffectiveIdType, Given, LooksLikeAadhaar
    <2> QED
      BY <2>2, <2>3 DEF Accepted
  <1> QED
    BY <1>1, IInvHolds, PTL

-----------------------------------------------------------------------------
(***************************************************************************)
(* Any client of the API, one PATCH at a time.  What spoils the dates of a *)
(* record is not that a PATCH may be partial, but that two may overlap: a  *)
(* PATCH validated against the row it is written over leaves a record that *)
(* passes validation again.  AadhaarMasked asks for more, as one partial   *)
(* PATCH is enough to break it.                                            *)
(***************************************************************************)

\* No two PATCHes are between their validation and their write.
OneByOne == \A u, v \in Staff : job[u].pc = "write" /\ job[v].pc = "write" => u = v

AloneInv ==
    /\ TypeOK
    /\ Accepted(row, row)
    /\ \A w \in Staff : job[w].pc = "write" =>
          exists /\ Accepted(Merged(row, job[w].data), Merged(row, job[w].data))

\* A payload accepted against an acceptable record, masked and written over it,
\* gives an acceptable record: the two schemas leave no gap between them.
LEMMA WrittenIsAccepted ==
  ASSUME NEW data \in Data, NEW existing \in Row,
         Accepted(existing, existing), Accepted(data, existing)
  PROVE  LET merged == Merged(existing, MaskAadhaarField(data, existing))
         IN  merged \in Row /\ Accepted(merged, merged)
  <1> DEFINE masked == MaskAadhaarField(data, existing)
             merged == Merged(existing, masked)
  <1>1. masked \in Data /\ merged \in Row
    BY MaskedType, MergedType
  <1>2. /\ masked.idType = data.idType
        /\ masked.checkInDate = data.checkInDate
        /\ masked.checkOutDate = data.checkOutDate
    BY DEF MaskAadhaarField, Data
  <1>3. /\ merged.idType = EffectiveIdType(data, existing)
        /\ merged.checkInDate = Given(data.checkInDate, existing.checkInDate)
        /\ merged.checkOutDate = Given(data.checkOutDate, existing.checkOutDate)
        /\ merged.idNumber = Given(masked.idNumber, existing.idNumber)
    BY <1>2 DEF Merged, EffectiveIdType
  <1>4. \A columns \in Row :
           /\ CheckDateOrder(columns, columns) <=> InOrder(columns.checkInDate, columns.checkOutDate)
           /\ CheckAadhaarNumber(columns, columns) <=>
                 (columns.idType # "AADHAAR" \/ columns.idNumber = None
                    \/ LooksLikeAadhaar(columns.idNumber))
    BY EditsAssumption DEF Row, CheckDateOrder, CheckAadhaarNumber, EffectiveIdType, Given
  <1>5. CheckDateOrder(merged, merged)
    BY <1>1, <1>3, <1>4 DEF Accepted, CheckDateOrder
  <1>6. ASSUME merged.idType = "AADHAAR"
        PROVE  merged.idNumber = None \/ LooksLikeAadhaar(merged.idNumber)
    <2>1. EffectiveIdType(data, existing) = "AADHAAR"
      BY <1>3, <1>6
    <2>2. CASE data.idNumber \in IdNumbers
      <3>1. masked.idNumber = "masked"
        BY <2>1, <2>2 DEF MaskAadhaarField, Data
      <3> QED
        BY <1>3, <3>1, EditsAssumption DEF Given, LooksLikeAadhaar, IdNumbers
    <2>3. CASE data.idNumber = None
      BY <1>3, <2>3, EditsAssumption DEF Given, MaskAadhaarField
    <2>4. CASE data.idNumber = Absent
      <3>1. merged.idNumber = existing.idNumber
        BY <1>3, <2>4, EditsAssumption DEF Given, MaskAadhaarField
      <3>2. CheckAadhaarNumber(data, existing) /\ CheckAadhaarNumber(existing, existing)
        BY DEF Accepted
      <3>3. \/ data.idType # "AADHAAR"
            \/ existing.idNumber = None
            \/ LooksLikeAadhaar(existing.idNumber)
        BY <2>1, <2>4, <3>2, EditsAssumption DEF CheckAadhaarNumber, LooksLikeAadhaar, IdNumbers
      <3>4. CASE data.idType # "AADHAAR"
        <4>1. existing.idType = "AADHAAR"
          BY <2>1, <3>4 DEF EffectiveIdType, Given
        <4> QED
          BY <1>4, <3>1, <3>2, <4>1
      <3> QED
        BY <3>1, <3>3, <3>4
    <2> QED
      BY <2>2, <2>3, <2>4 DEF Data
  <1> QED
    BY <1>1, <1>4, <1>5, <1>6 DEF Accepted

LEMMA AloneInit == Init => AloneInv
  <1> SUFFICES ASSUME Init PROVE AloneInv
    OBVIOUS
  <1>1. TypeOK
    BY InitIInv DEF IInv
  <1>2. Accepted(NoRecord, NoRecord)
    BY EditsAssumption
       DEF Accepted, NoRecord, CheckDateOrder, CheckAadhaarNumber, InOrder, Given
  <1> QED
    BY <1>1, <1>2 DEF Init, AloneInv, IdleJob

LEMMA AloneStep == AloneInv /\ OneByOne /\ [Next]_vars => AloneInv'
  <1> SUFFICES ASSUME AloneInv, OneByOne, [Next]_vars PROVE AloneInv'
    OBVIOUS
  <1>0. TypeOK /\ TypeOK'
    BY TypeStep DEF AloneInv
  <1>1. ASSUME NEW payload \in Payload, Create(payload) PROVE AloneInv'
    <2>1. Accepted(NoRecord, NoRecord)
      BY EditsAssumption
         DEF Accepted, NoRecord, CheckDateOrder, CheckAadhaarNumber, InOrder, Given
    <2>2. Accepted(row', row')
      BY <1>1, <2>1, NoRecordInRow, PayloadIsData, WrittenIsAccepted DEF Create
    <2> QED
      BY <1>0, <1>1, <2>2 DEF Create, AloneInv
  <1>2. ASSUME NEW w \in Staff, NEW payload \in Payload, UpdateRead(w, payload) PROVE AloneInv'
    <2> DEFINE merged == Merged(row, MaskAadhaarField(payload, row))
    <2>1. Accepted(merged, merged)
      BY <1>0, <1>2, PayloadIsData, WrittenIsAccepted DEF UpdateRead, AloneInv, TypeOK
    <2> QED
      BY <1>0, <1>2, <2>1 DEF UpdateRead, AloneInv, TypeOK
  <1>3. ASSUME NEW w \in Staff, UpdateWrite(w) PROVE AloneInv'
    <2>1. Accepted(row', row')
      BY <1>3 DEF UpdateWrite, AloneInv
    <2>2. \A u \in Staff : job'[u].pc # "write"
      BY <1>0, <1>3 DEF UpdateWrite, OneByOne, TypeOK, IdleJob
    <2> QED
      BY <1>0, <2>1, <2>2 DEF AloneInv
  <1>4. ASSUME NEW w \in Staff, UpdateAborted(w) PROVE AloneInv'
    BY <1>0, <1>4 DEF UpdateAborted, AloneInv, TypeOK, IdleJob
  <1>5. CASE UNCHANGED vars
    BY <1>0, <1>5 DEF vars, AloneInv
  <1> QED
    BY <1>1, <1>2, <1>3, <1>4, <1>5 DEF Next

LEMMA AloneHolds == Spec /\ []OneByOne => []AloneInv
  BY AloneInit, AloneStep, PTL DEF Spec

\* checkDateOrder: whatever parts of the record PATCHes carry, as long as they
\* do not overlap no stay on record ends before it starts.
THEOREM OneByOneStaysInOrder == Spec /\ []OneByOne => []DatesOrdered
  <1>1. AloneInv => DatesOrdered
    <2> SUFFICES ASSUME AloneInv PROVE InOrder(row.checkInDate, row.checkOutDate)
      BY DEF DatesOrdered
    <2> QED
      BY EditsAssumption DEF AloneInv, TypeOK, Accepted, CheckDateOrder, Given, Row
  <1> QED
    BY <1>1, AloneHolds, PTL

\* isMaskedAadhaar: as long as PATCHes do not overlap, a record can be opened
\* and saved unchanged, whichever client wrote it.
THEOREM OneByOneStaysResavable == Spec /\ []OneByOne => []RecordResavable
  <1>1. AloneInv => RecordResavable
    BY DEF AloneInv, RecordResavable
  <1> QED
    BY <1>1, AloneHolds, PTL

\* Whoever labels a record Aadhaar sends its number along, be it null.
NumberWithLabel ==
    \A w \in Staff : job[w].pc = "write" /\ job[w].data.idType = "AADHAAR"
                        => job[w].data.idNumber # Absent

FullUnderLabel(columns) == columns.idType = "AADHAAR" /\ columns.idNumber = "full"

MaskedInv ==
    /\ TypeOK
    /\ ~FullUnderLabel(row)
    /\ \A w \in Staff : job[w].pc = "write" => exists /\ ~FullUnderLabel(Merged(row, job[w].data))

\* What is masked in a payload is masked in the record it is written over; what
\* the payload does not carry was masked there, if it had the label.
LEMMA WrittenIsMasked ==
  ASSUME NEW data \in Data, NEW existing \in Row, ~FullUnderLabel(existing),
         data.idType = "AADHAAR" => \/ MaskAadhaarField(data, existing).idNumber # Absent
                                    \/ existing.idNumber # "full"
  PROVE  ~FullUnderLabel(Merged(existing, MaskAadhaarField(data, existing)))
  <1> DEFINE masked == MaskAadhaarField(data, existing)
             merged == Merged(existing, masked)
  <1>1. masked.idType = data.idType
    BY DEF MaskAadhaarField, Data
  <1>2. /\ merged.idType = EffectiveIdType(data, existing)
        /\ merged.idNumber = Given(masked.idNumber, existing.idNumber)
    BY <1>1 DEF Merged, EffectiveIdType
  <1> SUFFICES ASSUME EffectiveIdType(data, existing) = "AADHAAR" PROVE merged.idNumber # "full"
    BY <1>2 DEF FullUnderLabel
  <1>3. CASE data.idNumber \in IdNumbers
    <2>1. masked.idNumber = "masked"
      BY <1>3 DEF MaskAadhaarField, Data
    <2> QED
      BY <1>2, <2>1, EditsAssumption DEF Given, IdNumbers
  <1>4. CASE data.idNumber = None
    <2>1. masked.idNumber = None
      BY <1>4, EditsAssumption DEF MaskAadhaarField
    <2> QED
      BY <1>2, <2>1, EditsAssumption DEF Given, IdNumbers
  <1>5. CASE data.idNumber = Absent
    <2>1. masked.idNumber = Absent
      BY <1>5, EditsAssumption DEF MaskAadhaarField
    <2>2. data.idType = "AADHAAR" \/ existing.idType = "AADHAAR"
      BY DEF EffectiveIdType, Given
    <2> QED
      BY <1>2, <2>1, <2>2 DEF Given, FullUnderLabel
  <1> QED
    BY <1>3, <1>4, <1>5 DEF Data

LEMMA MaskedInit == Init => MaskedInv
  <1> SUFFICES ASSUME Init PROVE MaskedInv
    OBVIOUS
  <1>1. TypeOK
    BY InitIInv DEF IInv
  <1> QED
    BY <1>1, EditsAssumption DEF Init, MaskedInv, IdleJob, NoRecord, FullUnderLabel, IdNumbers

LEMMA MaskedStep == MaskedInv /\ OneByOne /\ NumberWithLabel' /\ [Next]_vars => MaskedInv'
  <1> SUFFICES ASSUME MaskedInv, OneByOne, NumberWithLabel', [Next]_vars PROVE MaskedInv'
    OBVIOUS
  <1>0. TypeOK /\ TypeOK'
    BY TypeStep DEF MaskedInv
  <1>1. ASSUME NEW payload \in Payload, Create(payload) PROVE MaskedInv'
    <2>1. NoRecord.idNumber # "full"
      BY EditsAssumption DEF NoRecord, IdNumbers
    <2>2. ~FullUnderLabel(row')
      BY <1>1, <2>1, NoRecordInRow, PayloadIsData, WrittenIsMasked DEF Create, FullUnderLabel
    <2> QED
      BY <1>0, <1>1, <2>2 DEF Create, MaskedInv
  <1>2. ASSUME NEW w \in Staff, NEW payload \in Payload, UpdateRead(w, payload) PROVE MaskedInv'
    <2> DEFINE masked == MaskAadhaarField(payload, row)
    <2>1. job'[w].pc = "write" /\ job'[w].data = masked
      BY <1>0, <1>2 DEF UpdateRead, TypeOK
    <2>2. masked.idType = payload.idType
      BY PayloadIsData DEF MaskAadhaarField, Data
    <2>3. payload.idType = "AADHAAR" => masked.idNumber # Absent
      BY <2>1, <2>2 DEF NumberWithLabel
    <2> HIDE DEF masked
    <2>4. ~FullUnderLabel(Merged(row, masked))
      BY <1>0, <2>3, PayloadIsData, WrittenIsMasked DEF masked, MaskedInv, TypeOK
    <2> QED
      BY <1>0, <1>2, <2>1, <2>4 DEF UpdateRead, MaskedInv, TypeOK
  <1>3. ASSUME NEW w \in Staff, UpdateWrite(w) PROVE MaskedInv'
    <2>1. ~FullUnderLabel(row')
      BY <1>3 DEF UpdateWrite, MaskedInv
    <2>2. \A u \in Staff : job'[u].pc # "write"
      BY <1>0, <1>3 DEF UpdateWrite, OneByOne, TypeOK, IdleJob
    <2> QED
      BY <1>0, <2>1, <2>2 DEF MaskedInv
  <1>4. ASSUME NEW w \in Staff, UpdateAborted(w) PROVE MaskedInv'
    BY <1>0, <1>4 DEF UpdateAborted, MaskedInv, TypeOK, IdleJob
  <1>5. CASE UNCHANGED vars
    BY <1>0, <1>5 DEF vars, MaskedInv
  <1> QED
    BY <1>1, <1>2, <1>3, <1>4, <1>5 DEF Next

\* maskAadhaarField: what lets a full number through is a label sent without the
\* number, or two PATCHes that overlap, and nothing else.
THEOREM OneByOneStaysMasked == Spec /\ []OneByOne /\ []NumberWithLabel => []AadhaarMasked
  <1>1. MaskedInv => AadhaarMasked
    BY DEF MaskedInv, FullUnderLabel, AadhaarMasked
  <1> QED
    BY <1>1, MaskedInit, MaskedStep, PTL DEF Spec
=============================================================================
