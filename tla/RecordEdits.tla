---------------------------- MODULE RecordEdits ----------------------------
(***************************************************************************)
(* The fields of one registration that have rules between them: the kind   *)
(* of ID and its number, and the two dates of the stay.  A PATCH is        *)
(* validated against the row as findUnique returned it and written later,  *)
(* column by column, over the row as it is by then.                        *)
(*                                                                         *)
(* The detail page always sends every field it shows; the API takes any    *)
(* part of a record.                                                       *)
(***************************************************************************)
EXTENDS Naturals

CONSTANTS
    Staff,       \* signed-in staff; each has at most one PATCH in flight
    Days,        \* the dates a stay can start or end on
    WholeForms,  \* TRUE: every PATCH is sent by the detail page
    Absent,      \* undefined: the payload does not carry the field
    None         \* null

IdTypes == {"AADHAAR", "PASSPORT"}   \* PASSPORT stands for every other kind
IdNumbers == {"masked",              \* XXXX XXXX 1234
              "full",                \* twelve digits
              "other"}               \* anything else a guest may type

ASSUME EditsAssumption ==
    /\ Days \subseteq Nat
    /\ WholeForms \in BOOLEAN
    /\ Absent # None
    /\ {Absent, None} \cap Days = {}
    /\ {Absent, None} \cap (IdTypes \cup IdNumbers) = {}

VARIABLES
    exists,  \* the registration was submitted
    row,     \* its columns
    job      \* PATCH requests in flight, between validation and write

vars == <<exists, row, job>>

Row == [idType : IdTypes, idNumber : IdNumbers \cup {None},
        checkInDate : Days \cup {None}, checkOutDate : Days \cup {None}]

Data == [idType : IdTypes \cup {Absent}, idNumber : IdNumbers \cup {None, Absent},
         checkInDate : Days \cup {None, Absent}, checkOutDate : Days \cup {None, Absent}]

Job == [pc : {"idle", "write"}, data : Data]

Payload == IF WholeForms THEN Row ELSE Data

\* Column defaults, and what `existing = {}` amounts to when a guest submits.
NoRecord == [idType |-> "AADHAAR", idNumber |-> None,
             checkInDate |-> None, checkOutDate |-> None]

IdleJob == [pc |-> "idle",
            data |-> [idType |-> Absent, idNumber |-> Absent,
                      checkInDate |-> Absent, checkOutDate |-> Absent]]

Given(value, stored) == IF value # Absent THEN value ELSE stored

(***************************************************************************)
(* The schemas.                                                            *)
(***************************************************************************)

\* Fault: only a number printed on a card is one, not the form it is stored in.
PrintedAadhaar(number) == number = "full"

LooksLikeAadhaar(number) == number \in {"masked", "full"}

\* Fault: the kind of ID on record wins over the one in the payload.
EffectiveIdTypeStored(data, existing) == existing.idType

EffectiveIdType(data, existing) == Given(data.idType, existing.idType)

\* A missing date orders with everything.
InOrder(checkIn, checkOut) == {checkIn, checkOut} \subseteq Days => checkOut >= checkIn

\* Fault: the check-out date is compared with the check-in date on record.
CheckDateOrderStored(data, existing) ==
    LET checkIn  == existing.checkInDate
        checkOut == Given(data.checkOutDate, existing.checkOutDate)
    IN  InOrder(checkIn, checkOut)

CheckDateOrder(data, existing) ==
    LET checkIn  == Given(data.checkInDate, existing.checkInDate)
        checkOut == Given(data.checkOutDate, existing.checkOutDate)
    IN  InOrder(checkIn, checkOut)

CheckAadhaarNumber(data, existing) ==
    \/ EffectiveIdType(data, existing) # "AADHAAR"
    \/ /\ data.idNumber = Absent
       /\ \/ data.idType # "AADHAAR"
          \/ existing.idNumber = None
          \/ LooksLikeAadhaar(existing.idNumber)
    \/ data.idNumber = None
    \/ LooksLikeAadhaar(data.idNumber)

\* A string is masked under an Aadhaar label; a payload without one is left.
MaskAadhaarField(data, existing) ==
    IF data.idNumber \in IdNumbers /\ EffectiveIdType(data, existing) = "AADHAAR"
    THEN [data EXCEPT !.idNumber = "masked"] ELSE data

Accepted(data, existing) ==
    CheckDateOrder(data, existing) /\ CheckAadhaarNumber(data, existing)

\* Fault: a cleared number becomes undefined, and nothing strips it.
MergedVerbatim(columns, data) ==
    [data EXCEPT !.idNumber = IF data.idNumber = None THEN Absent ELSE data.idNumber]

\* stripUndefined, and an update that leaves the other columns alone.
Merged(columns, data) ==
    [idType       |-> Given(data.idType, columns.idType),
     idNumber     |-> Given(data.idNumber, columns.idNumber),
     checkInDate  |-> Given(data.checkInDate, columns.checkInDate),
     checkOutDate |-> Given(data.checkOutDate, columns.checkOutDate)]

(***************************************************************************)
(* The handlers.                                                           *)
(***************************************************************************)
Init ==
    /\ exists = FALSE
    /\ row = NoRecord
    /\ job = [w \in Staff |-> IdleJob]

\* create; the form posts every field, another client may leave some out.
Create(payload) ==
    /\ ~exists
    /\ Accepted(payload, NoRecord)
    /\ exists' = TRUE
    /\ row' = Merged(NoRecord, MaskAadhaarField(payload, NoRecord))
    /\ UNCHANGED job

\* update up to its first await after findUnique; a payload that is refused
\* with a 400 changes nothing.
UpdateRead(w, payload) ==
    /\ job[w].pc = "idle"
    /\ exists
    /\ Accepted(payload, row)
    /\ job' = [job EXCEPT ![w] = [pc |-> "write", data |-> MaskAadhaarField(payload, row)]]
    /\ UNCHANGED <<exists, row>>

UpdateWrite(w) ==
    /\ job[w].pc = "write"
    /\ row' = Merged(row, job[w].data)
    /\ job' = [job EXCEPT ![w] = IdleJob]
    /\ UNCHANGED exists

\* The purge or the write fails, or the process stops.
UpdateAborted(w) ==
    /\ job[w].pc = "write"
    /\ job' = [job EXCEPT ![w] = IdleJob]
    /\ UNCHANGED <<exists, row>>

Next ==
    \/ \E payload \in Payload : Create(payload)
    \/ \E w \in Staff, payload \in Payload : UpdateRead(w, payload)
    \/ \E w \in Staff : UpdateWrite(w)
    \/ \E w \in Staff : UpdateAborted(w)

Spec == Init /\ [][Next]_vars

(***************************************************************************)
(* Properties.                                                             *)
(***************************************************************************)

\* Every variable holds a value of its type.
TypeOK ==
    /\ exists \in BOOLEAN
    /\ row \in Row
    /\ job \in [Staff -> Job]

\* checkDateOrder: a stay on record never ends before it starts, whichever
\* edits overlapped.
DatesOrdered == InOrder(row.checkInDate, row.checkOutDate)

\* maskAadhaarField: a record labelled Aadhaar never holds a full number.
AadhaarMasked == row.idType = "AADHAAR" => row.idNumber # "full"

\* isMaskedAadhaar: whatever edits overlapped, staff who open a record and
\* save it unchanged are not told that something in it is wrong.
RecordResavable == Accepted(row, row)
=============================================================================
