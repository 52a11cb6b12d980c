---------------------------- MODULE ServerProofs ----------------------------
(***************************************************************************)
(* Proofs about modules DocumentScan and Server, for any number of scan    *)
(* requests and any slots.                                                 *)
(*                                                                         *)
(* The safety properties follow from one inductive invariant: what the     *)
(* stage of a request says of its record (Stage), that a request that has  *)
(* not started reading has no worker of its name yet (WorkersKnown), that  *)
(* a mode is replaced only by a request that shares the worker (ModesKept) *)
(* and what the phases of a shutdown leave in flight (DrainInv).           *)
(***************************************************************************)
EXTENDS Server, TLAPS

Reading == {"worker", "mode", "recognize"}
GivenUp == {"failed", "timeout"}

Stage(r) ==
    /\ r.pc \in {"new", "save"} => ~r.stored
    /\ r.pc \in {"new", "save", "decode"} =>
          r.worker = None /\ r.ocr = "none" /\ r.answer = "none" /\ ~r.garbled
    /\ r.pc \in Reading =>
          /\ r.stored /\ r.worker # None
          /\ \/ r.ocr = "running" /\ r.answer = "none"
             \/ r.ocr = "timeout" /\ r.answer = "message"
    /\ r.pc = "done" => r.answer # "none" /\ r.ocr # "running"
    /\ r.pc = "decode" => r.stored
    /\ r.stored => r.answer \in {"none", "fields", "printed", "message"}
    /\ r.ocr # "none" \/ r.garbled => r.worker # None

Stages == \A q \in Requests : Stage(request[q])

WorkersKnown ==
    /\ \A q \in Requests :
          /\ request[q].pc \in {"new", "save", "decode"} => worker[q].pc = "none"
          /\ request[q].worker # None => worker[request[q].worker].pc # "none"
    /\ current # None => worker[current].pc # "none"

Shared(q) == \E p \in Requests \ {q} : request[p].worker = request[q].worker

ModesKept ==
    \A q \in Requests : request[q].pc = "recognize" =>
        worker[request[q].worker].mode = Psm(Region(request[q])) \/ Shared(q)

ScanTypeOK ==
    /\ zxing \in {"cold", "loading", "ready", "failed"}
    /\ current \in Requests \cup {None}
    /\ worker \in [Requests -> Worker]
    /\ request \in [Requests -> Request]

(***************************************************************************)
(* The records a request goes through.                                     *)
(***************************************************************************)
LEMMA BlankType == Blank \in Request /\ Stage(Blank)
  BY DEF Blank, Request, Stage, Sides, Regions, Reading

LEMMA EndedFields ==
  ASSUME NEW r \in Request, NEW ocr \in {"over", "failed"}, NEW answer \in {"printed", "message"},
         Stage(r), r.pc \in Reading
  PROVE  /\ Ended(r, ocr, answer) \in Request /\ Stage(Ended(r, ocr, answer))
         /\ Ended(r, ocr, answer).pc = "done"
         /\ Ended(r, ocr, answer).worker = r.worker
         /\ Ended(r, ocr, answer).garbled = r.garbled
         /\ Ended(r, ocr, answer).ocr \in {r.ocr, ocr}
         /\ r.answer # "none" => Ended(r, ocr, answer).ocr = r.ocr
         /\ r.answer # "none" => Ended(r, ocr, answer).answer = r.answer
  <1> DEFINE o == IF r.answer = "none" THEN ocr ELSE r.ocr
             a == IF r.answer = "none" THEN answer ELSE r.answer
             read == [region \in Regions |-> "unread"]
             e == [pc |-> "done", stored |-> TRUE, worker |-> r.worker, slot |-> None,
                   readable |-> FALSE, side |-> "front", read |-> read,
                   garbled |-> r.garbled, ocr |-> o, answer |-> a]
  <1>1. Ended(r, ocr, answer) = e
    <2>1. Ended(r, ocr, answer) =
            [Blank EXCEPT !.pc = "done", !.stored = TRUE, !.worker = r.worker, !.garbled = r.garbled,
                          !.ocr = o, !.answer = a]
      BY Zenon DEF Ended
    <2>2. Blank = [pc |-> "new", stored |-> FALSE, worker |-> None, slot |-> None, readable |-> FALSE,
                   side |-> "front", read |-> read, garbled |-> FALSE, ocr |-> "none", answer |-> "none"]
      BY DEF Blank
    <2> HIDE DEF o, a, read
    <2> QED
      BY <2>1, <2>2
  <1>2. /\ o \in {"failed", "over", "timeout"} /\ a \in {"printed", "message"}
        /\ o \in {r.ocr, ocr} /\ (r.answer # "none" => o = r.ocr /\ a = r.answer)
    BY DEF Stage, Reading
  <1>3. r.worker \in Requests /\ r.worker # None /\ r.garbled \in BOOLEAN
    BY DEF Stage, Reading, Request
  <1>4. read \in [Regions -> {"unread", "blank", "text", "proof"}]
    OBVIOUS
  <1> HIDE DEF o, a, read
  <1>5. e \in Request
    BY <1>2, <1>3, <1>4 DEF Request, Sides
  <1>6. Stage(e)
    BY <1>2, <1>3, ScansAssumption DEF Stage, Reading
  <1> QED
    BY <1>1, <1>2, <1>5, <1>6

LEMMA AfterRegionFields ==
  ASSUME NEW r \in Request, Stage(r), r.pc \in Reading
  PROVE  /\ AfterRegion(r) \in Request /\ Stage(AfterRegion(r))
         /\ AfterRegion(r).pc \in {"mode", "done"}
         /\ AfterRegion(r).worker = r.worker
         /\ AfterRegion(r).garbled = r.garbled
         /\ AfterRegion(r).ocr \in {r.ocr, "over"}
         /\ r.answer # "none" => AfterRegion(r).answer = r.answer
  <1>1. Other(r.side) \in Sides
    BY DEF Other, Sides
  <1>2. /\ [r EXCEPT !.pc = "mode"] \in Request /\ Stage([r EXCEPT !.pc = "mode"])
        /\ [r EXCEPT !.pc = "mode", !.side = Other(r.side)] \in Request
        /\ Stage([r EXCEPT !.pc = "mode", !.side = Other(r.side)])
    BY <1>1 DEF Request, Stage, Reading
  <1>3. \A answer \in {"printed", "message"} :
           /\ Ended(r, "over", answer) \in Request /\ Stage(Ended(r, "over", answer))
           /\ Ended(r, "over", answer).pc = "done"
           /\ Ended(r, "over", answer).worker = r.worker
           /\ Ended(r, "over", answer).garbled = r.garbled
           /\ Ended(r, "over", answer).ocr \in {r.ocr, "over"}
           /\ r.answer # "none" => Ended(r, "over", answer).answer = r.answer
    BY EndedFields
  <1>4. \/ AfterRegion(r) = [r EXCEPT !.pc = "mode"]
        \/ AfterRegion(r) = [r EXCEPT !.pc = "mode", !.side = Other(r.side)]
        \/ \E answer \in {"printed", "message"} : AfterRegion(r) = Ended(r, "over", answer)
    BY DEF AfterRegion
  <1>5. CASE AfterRegion(r) = [r EXCEPT !.pc = "mode"]
    BY <1>5, <1>2 DEF Request
  <1>6. CASE AfterRegion(r) = [r EXCEPT !.pc = "mode", !.side = Other(r.side)]
    BY <1>6, <1>2 DEF Request
  <1>7. CASE \E answer \in {"printed", "message"} : AfterRegion(r) = Ended(r, "over", answer)
    BY <1>7, <1>3 DEF Stage
  <1> QED
    BY <1>4, <1>5, <1>6, <1>7

(***************************************************************************)
(* What a scan's step does.  Most move one request along its stages, and   *)
(* leave the workers alone but for dropping the current one.               *)
(***************************************************************************)
Follows(old, r) ==
    /\ Stage(r)
    /\ r.worker = old.worker
    /\ r.garbled => old.garbled
    /\ r.pc \in {"new", "save", "decode"} => old.pc \in {"new", "save"}
    /\ r.pc = "recognize" => old.pc = "recognize" /\ Region(r) = Region(old)
    /\ old.answer # "none" => r.answer = old.answer

Moves(q) ==
    /\ UNCHANGED worker
    /\ current' \in {current, None}
    /\ \E r \in Request :
          /\ Becomes(q, r)
          /\ Follows(request[q], r)
          /\ r.ocr \in GivenUp => request[q].ocr \in GivenUp \/ current' = None

LEMMA ReceiveMoves ==
  ASSUME ScanTypeOK, Stages, NEW q \in Requests, Receive(q)
  PROVE  Moves(q) /\ UNCHANGED zxing
  <1> USE DEF ScanTypeOK, Stages, Moves, Follows
  <1> DEFINE old == request[q]
  <1>1. old \in Request /\ Stage(old) /\ old.pc = "new" /\ old.answer = "none"
    BY DEF Receive, Refuse, ReceiveText, ReceivePhoto, Stage
  <1>2. CASE Refuse(q)
    <2>1. LET r == [old EXCEPT !.pc = "done", !.answer = "refused"]
          IN  r \in Request /\ Stage(r) /\ r.worker = old.worker /\ r.ocr = "none"
              /\ r.garbled = old.garbled /\ r.pc = "done" /\ r.answer # "none"
      BY <1>1 DEF Request, Stage, Reading
    <2> QED
      BY <1>1, <1>2, <2>1 DEF Refuse, GivenUp
  <1>3. ASSUME NEW verdict \in Verdicts, ReceiveText(q, verdict) PROVE Moves(q) /\ UNCHANGED zxing
    <2>1. LET r == [old EXCEPT !.pc = "done", !.answer = verdict]
          IN  r \in Request /\ Stage(r) /\ r.worker = old.worker /\ r.ocr = "none"
              /\ r.garbled = old.garbled /\ r.pc = "done" /\ r.answer # "none"
      BY <1>1 DEF Request, Stage, Verdicts, Reading
    <2> QED
      BY <1>1, <1>3, <2>1 DEF ReceiveText, GivenUp
  <1>4. CASE ReceivePhoto(q)
    <2>1. LET r == [old EXCEPT !.pc = "save"]
          IN  r \in Request /\ Stage(r) /\ r.worker = old.worker /\ r.ocr = "none"
              /\ r.garbled = old.garbled /\ r.pc = "save" /\ r.answer = old.answer
      BY <1>1 DEF Request, Stage, Reading
    <2> QED
      BY <1>4, <1>1, <2>1 DEF ReceivePhoto, GivenUp
  <1> QED
    BY <1>2, <1>3, <1>4 DEF Receive

LEMMA StoreMoves ==
  ASSUME ScanTypeOK, Stages, NEW q \in Requests, Store(q)
  PROVE  Moves(q) /\ zxing' \in {zxing, "loading"}
  <1> USE DEF ScanTypeOK, Stages, Moves, Follows
  <1> DEFINE old == request[q]
  <1>1. old \in Request /\ Stage(old) /\ old.pc = "save" /\ old.answer = "none"
    BY DEF Store, Save, SaveFails, SaveWithText, Stage
  <1>2. CASE Save(q)
    <2>1. LET r == [old EXCEPT !.pc = "decode", !.stored = TRUE]
          IN  r \in Request /\ Stage(r) /\ r.worker = old.worker /\ r.ocr = "none"
              /\ r.garbled = old.garbled /\ r.pc = "decode" /\ r.answer = old.answer
      BY <1>1 DEF Request, Stage, Reading
    <2> QED
      BY <1>2, <1>1, <2>1 DEF Save, WarmUp, GivenUp
  <1>3. CASE SaveFails(q)
    <2>1. LET r == [old EXCEPT !.pc = "done", !.answer = "error"]
          IN  r \in Request /\ Stage(r) /\ r.worker = old.worker /\ r.ocr = "none"
              /\ r.garbled = old.garbled /\ r.pc = "done" /\ r.answer # "none"
      BY <1>1 DEF Request, Stage, Reading
    <2> QED
      BY <1>1, <1>3, <2>1 DEF SaveFails, GivenUp
  <1>4. ASSUME NEW verdict \in Verdicts, SaveWithText(q, verdict)
        PROVE  Moves(q) /\ zxing' \in {zxing, "loading"}
    <2>1. LET r == [old EXCEPT !.pc = "done", !.stored = TRUE, !.answer = verdict]
          IN  r \in Request /\ Stage(r) /\ r.worker = old.worker /\ r.ocr = "none"
              /\ r.garbled = old.garbled /\ r.pc = "done" /\ r.answer # "none"
      BY <1>1 DEF Request, Stage, Verdicts, Reading
    <2> QED
      BY <1>1, <1>4, <2>1 DEF SaveWithText, GivenUp
  <1> QED
    BY <1>2, <1>3, <1>4 DEF Store

LEMMA ReadingMoves ==
  ASSUME ScanTypeOK, Stages, NEW q \in Requests,
         Budget(q) \/ Begin(q) \/ ReadingFails(q) \/ \E verdict \in Verdicts : Decode(q, verdict)
  PROVE  Moves(q) /\ UNCHANGED zxing
  <1> USE DEF ScanTypeOK, Stages, Moves, Follows
  <1> DEFINE old == request[q]
  <1>1. old \in Request /\ Stage(old)
    OBVIOUS
  <1>2. ASSUME NEW verdict \in Verdicts, Decode(q, verdict) PROVE Moves(q) /\ UNCHANGED zxing
    <2>1. old.pc = "decode" /\ old.answer = "none"
      BY <1>1, <1>2 DEF Decode, Stage
    <2>2. LET r == [old EXCEPT !.pc = "done", !.answer = verdict]
          IN  r \in Request /\ Stage(r) /\ r.worker = old.worker /\ r.ocr = "none"
              /\ r.garbled = old.garbled /\ r.pc = "done" /\ r.answer # "none"
      BY <1>1, <2>1 DEF Request, Stage, Verdicts, Reading
    <2> QED
      BY <1>2, <2>1, <2>2 DEF Decode, GivenUp
  <1>3. CASE Budget(q)
    <2>1. old.ocr = "running"
      BY <1>3 DEF Budget
    <2>2. old.pc \in Reading /\ old.answer = "none"
      BY <1>1, <2>1 DEF Stage, Request, Reading
    <2>3. LET r == [old EXCEPT !.ocr = "timeout", !.answer = "message"]
          IN  r \in Request /\ Stage(r) /\ r.worker = old.worker /\ r.pc = old.pc /\ r.garbled = old.garbled
              /\ r.answer # "none" /\ Region(r) = Region(old)
      BY <1>1, <2>2 DEF Request, Stage, Reading, Region
    <2>4. current' = None
      BY <1>3, <2>2 DEF Budget, Dropped
    <2> QED
      BY <1>3, <2>2, <2>3, <2>4 DEF Budget, Reading
  <1>4. CASE Begin(q)
    <2> DEFINE side == IF old.slot = None THEN "front" ELSE old.slot
    <2>1. old.pc = "worker" /\ side \in Sides
      BY <1>1, <1>4 DEF Begin, Request, Sides
    <2> HIDE DEF side
    <2>2. LET r == [old EXCEPT !.pc = "mode", !.side = side]
          IN  r \in Request /\ Stage(r) /\ r.worker = old.worker /\ r.ocr = old.ocr
              /\ r.garbled = old.garbled /\ r.pc = "mode" /\ r.answer = old.answer
      BY <1>1, <2>1 DEF Request, Stage, Reading
    <2>3. Becomes(q, [old EXCEPT !.pc = "mode", !.side = side]) /\ UNCHANGED <<zxing, current, worker>>
      BY <1>4 DEF Begin, side
    <2> QED
      BY <2>2, <2>3
  <1>5. CASE ReadingFails(q)
    <2> DEFINE r == Ended(old, "failed", "message")
    <2>1. old.pc \in Reading
      BY <1>5 DEF ReadingFails, Reading
    <2>2. /\ r \in Request /\ Stage(r) /\ r.pc = "done" /\ r.worker = old.worker
          /\ r.garbled = old.garbled
          /\ (old.answer # "none" => r.ocr = old.ocr /\ r.answer = old.answer)
      BY <1>1, <2>1, EndedFields
    <2>3. Becomes(q, r) /\ UNCHANGED <<zxing, worker>> /\ Dropped(q)
      BY <1>5 DEF ReadingFails
    <2>4. current' = (IF old.answer = "none" THEN None ELSE current)
      BY <2>3 DEF Dropped
    <2>5. r.answer # "none"
      BY <2>2 DEF Stage
    <2> HIDE DEF r
    <2> QED
      BY <2>2, <2>3, <2>4, <2>5
  <1> QED
    BY <1>2, <1>3, <1>4, <1>5

\* A reading takes the worker there is, or brings one of its own name into being.
TakesWorker(q) ==
    \E r \in Request :
        /\ Becomes(q, r)
        /\ Stage(r)
        /\ r.pc = "worker" /\ r.ocr = "running" /\ ~r.garbled
        /\ r.worker = current'
        /\ \/ current # None /\ current' = current /\ UNCHANGED worker
           \/ /\ current = None /\ current' = q
              /\ \E w \in Worker : w.pc = "creating" /\ worker' = [worker EXCEPT ![q] = w]

LEMMA ReadingStarts ==
  ASSUME ScanTypeOK, Stages, NEW q \in Requests, NEW slot \in Slots, NEW readable \in BOOLEAN,
         StartReading(q, slot, readable)
  PROVE  request[q].pc = "decode" /\ TakesWorker(q) /\ UNCHANGED zxing
  <1> DEFINE old == request[q]
             w == [worker[q] EXCEPT !.pc = "creating"]
  <1>1. old \in Request /\ Stage(old) /\ old.pc = "decode" /\ slot \in Sides \cup {None}
    BY ScansAssumption DEF StartReading, ScanTypeOK, Stages
  <1>2. w \in Worker /\ w.pc = "creating"
    BY DEF ScanTypeOK, Worker
  <1>3. PICK c \in Requests : current' = c /\ c = IF current = None THEN q ELSE current
    BY DEF StartReading, GetWorker, ScanTypeOK
  <1>4. c # None
    BY ScansAssumption
  <1> DEFINE r == [old EXCEPT !.pc = "worker", !.worker = c, !.slot = slot,
                              !.readable = readable, !.ocr = "running"]
  <1>5. Becomes(q, r) /\ UNCHANGED zxing
    BY <1>3 DEF StartReading
  <1>6. r \in Request /\ Stage(r) /\ r.pc = "worker" /\ r.ocr = "running" /\ ~r.garbled /\ r.worker = c
    BY <1>1, <1>4 DEF Request, Stage, Reading
  <1>7. \/ current # None /\ c = current /\ UNCHANGED worker
        \/ current = None /\ c = q /\ worker' = [worker EXCEPT ![q] = w]
    BY <1>3 DEF StartReading, GetWorker
  <1> HIDE DEF r, w
  <1> QED
    BY <1>1, <1>2, <1>3, <1>5, <1>6, <1>7 DEF TakesWorker

\* The mode of the request's next region, on the request's worker.
SetsMode(q) ==
    /\ UNCHANGED current
    /\ \E r \in Request, w \in Worker :
          /\ Becomes(q, r)
          /\ worker' = [worker EXCEPT ![request[q].worker] = w]
          /\ Stage(r) /\ r.pc = "recognize"
          /\ r.worker = request[q].worker /\ r.garbled = request[q].garbled
          /\ r.ocr = request[q].ocr /\ r.answer = request[q].answer
          /\ w.pc = worker[request[q].worker].pc /\ w.mode = Psm(Region(r))

LEMMA RegionTypes ==
  ASSUME NEW r \in Request
  PROVE  Region(r) \in Regions /\ Psm(Region(r)) \in {"block", "column"}
  BY DEF Region, Psm, OwnRegion, Regions

LEMMA ModeIsSet ==
  ASSUME ScanTypeOK, Stages, NEW q \in Requests, SetMode(q)
  PROVE  request[q].pc = "mode" /\ SetsMode(q) /\ UNCHANGED zxing
  <1> DEFINE old == request[q]
             mode == Psm(Region(old))
             r == [old EXCEPT !.pc = "recognize"]
             w == [worker[old.worker] EXCEPT !.mode = mode]
  <1>1. old \in Request /\ Stage(old) /\ old.pc = "mode"
    BY DEF SetMode, ScanTypeOK, Stages
  <1>2. r \in Request /\ Stage(r) /\ r.pc = "recognize" /\ r.worker = old.worker
        /\ r.garbled = old.garbled /\ r.ocr = old.ocr /\ r.answer = old.answer /\ Region(r) = Region(old)
    BY <1>1 DEF Request, Stage, Reading, Region
  <1>3. mode \in {"block", "column"} /\ worker[old.worker] \in Worker
    BY <1>1, RegionTypes DEF Stage, Reading, Request, ScanTypeOK
  <1>4. Becomes(q, r) /\ worker' = [worker EXCEPT ![old.worker] = w] /\ UNCHANGED <<zxing, current>>
    BY DEF SetMode
  <1>5. mode = Psm(Region(r))
    BY <1>2
  <1> HIDE DEF mode, r
  <1>6. w \in Worker /\ w.pc = worker[old.worker].pc /\ w.mode = mode
    BY <1>3 DEF Worker
  <1> HIDE DEF w
  <1> QED
    BY <1>1, <1>2, <1>4, <1>5, <1>6 DEF SetsMode

\* A region's text, garbled when the worker's mode is not the region's.
Recognizes(q) ==
    /\ UNCHANGED <<worker, current>>
    /\ \E r \in Request :
          /\ Becomes(q, r)
          /\ Stage(r) /\ r.pc \in {"mode", "done"}
          /\ r.worker = request[q].worker
          /\ r.garbled => request[q].garbled \/ worker[request[q].worker].mode # Psm(Region(request[q]))
          /\ r.ocr \in {request[q].ocr, "over"}
          /\ request[q].answer # "none" => r.answer = request[q].answer

LEMMA RegionIsRecognized ==
  ASSUME ScanTypeOK, Stages, NEW q \in Requests, NEW outcome \in {"blank", "text", "proof"},
         Recognize(q, outcome)
  PROVE  request[q].pc = "recognize" /\ Recognizes(q) /\ UNCHANGED zxing
  <1> DEFINE old == request[q]
             read == [old.read EXCEPT ![Region(old)] = outcome]
             garbled == old.garbled \/ worker[old.worker].mode # Psm(Region(old))
             r == [old EXCEPT !.read = read, !.garbled = garbled]
  <1>1. old \in Request /\ Stage(old) /\ old.pc = "recognize"
    BY DEF Recognize, ScanTypeOK, Stages
  <1>2. read \in [Regions -> {"unread", "blank", "text", "proof"}] /\ garbled \in BOOLEAN
    BY <1>1, RegionTypes DEF Request
  <1>3. Becomes(q, AfterRegion(r)) /\ UNCHANGED <<zxing, current, worker>>
    BY DEF Recognize
  <1>4. garbled => old.garbled \/ worker[old.worker].mode # Psm(Region(old))
    OBVIOUS
  <1> HIDE DEF read, garbled
  <1>5. /\ r \in Request /\ Stage(r) /\ r.pc \in Reading
        /\ r.worker = old.worker /\ r.garbled = garbled /\ r.ocr = old.ocr /\ r.answer = old.answer
    BY <1>1, <1>2 DEF Request, Stage, Reading
  <1> HIDE DEF r
  <1>6. /\ AfterRegion(r) \in Request /\ Stage(AfterRegion(r)) /\ AfterRegion(r).pc \in {"mode", "done"}
        /\ AfterRegion(r).worker = old.worker /\ AfterRegion(r).garbled = garbled
        /\ AfterRegion(r).ocr \in {old.ocr, "over"}
        /\ old.answer # "none" => AfterRegion(r).answer = old.answer
    BY <1>5, AfterRegionFields
  <1> QED
    BY <1>1, <1>3, <1>4, <1>6 DEF Recognizes

WorkerEvent(w) ==
    /\ worker[w].pc = "creating"
    /\ \E v \in Worker : /\ worker' = [worker EXCEPT ![w] = v]
                         /\ v.pc # "none" /\ v.mode = worker[w].mode
    /\ current' \in {current, None}
    /\ UNCHANGED request

LEMMA WorkerEvents ==
  ASSUME ScanTypeOK, NEW w \in Requests, WorkerCreated(w) \/ WorkerFails(w)
  PROVE  WorkerEvent(w) /\ UNCHANGED zxing
  <1>1. \A pc \in {"ready", "failed"} :
           LET v == [worker[w] EXCEPT !.pc = pc]
           IN  v \in Worker /\ v.pc # "none" /\ v.mode = worker[w].mode
    BY DEF ScanTypeOK, Worker
  <1> QED
    BY <1>1 DEF WorkerCreated, WorkerFails, WorkerEvent

\* A step of the scans, by what it does to requests and workers.
ScanStep ==
    \/ UNCHANGED <<current, worker, request>>
    \/ \E w \in Requests : WorkerEvent(w)
    \/ \E q \in Requests : \/ Moves(q)
                           \/ request[q].pc = "decode" /\ TakesWorker(q)
                           \/ request[q].pc = "mode" /\ SetsMode(q)
                           \/ request[q].pc = "recognize" /\ Recognizes(q)

LEMMA ScanSteps ==
  ASSUME ScanTypeOK, Stages, ScanNext
  PROVE  ScanStep /\ zxing' \in {"cold", "loading", "ready", "failed"}
  <1> USE DEF ScanTypeOK
  <1>1. CASE LoadZXing
    BY <1>1 DEF LoadZXing, ZXingLoads, ScanStep
  <1>2. CASE Tesseract
    BY <1>2, WorkerEvents DEF Tesseract, ScanStep
  <1>3. ASSUME NEW q \in Requests, Receive(q) PROVE ScanStep /\ UNCHANGED zxing
    BY <1>3, ReceiveMoves DEF ScanStep
  <1>4. ASSUME NEW q \in Requests, Store(q) PROVE ScanStep /\ zxing' \in {zxing, "loading"}
    BY <1>4, StoreMoves DEF ScanStep
  <1>5. ASSUME NEW q \in Requests, ReadQr(q) PROVE ScanStep /\ UNCHANGED zxing
    BY <1>5, ReadingMoves, ReadingStarts DEF ReadQr, ScanStep
  <1>6. ASSUME NEW q \in Requests, ReadPrint(q) PROVE ScanStep /\ UNCHANGED zxing
    BY <1>6, ReadingMoves, ModeIsSet, RegionIsRecognized DEF ReadPrint, ScanStep
  <1>7. ASSUME NEW q \in Requests, Budget(q) PROVE ScanStep /\ UNCHANGED zxing
    BY <1>7, ReadingMoves DEF ScanStep
  <1> QED
    BY <1>1, <1>2, <1>3, <1>4, <1>5, <1>6, <1>7 DEF ScanNext

(***************************************************************************)
(* The invariant of the scans.                                             *)
(***************************************************************************)
ScanInv ==
    /\ current \in Requests \cup {None}
    /\ worker \in [Requests -> Worker]
    /\ request \in [Requests -> Request]
    /\ Stages
    /\ WorkersKnown
    /\ ModesKept
    /\ AbandonedNotReused
    /\ CrossTalkNeedsSharing

LEMMA EventKeeps ==
  ASSUME ScanInv, NEW w \in Requests, WorkerEvent(w)
  PROVE  ScanInv'
  <1> USE DEF ScanInv
  <1>1. PICK v \in Worker : /\ worker' = [worker EXCEPT ![w] = v]
                            /\ v.pc # "none" /\ v.mode = worker[w].mode
    BY DEF WorkerEvent
  <1>2. UNCHANGED request /\ current' \in {current, None} /\ worker[w].pc = "creating"
    BY DEF WorkerEvent
  <1>3. worker' \in [Requests -> Worker] /\ Stages'
    BY <1>1, <1>2 DEF Stages
  <1>4. WorkersKnown'
    BY <1>1, <1>2, ScansAssumption DEF WorkersKnown, Request
  <1>5. ModesKept'
    BY <1>1, <1>2, ScansAssumption DEF ModesKept, Shared
  <1>6. AbandonedNotReused'
    BY <1>2 DEF AbandonedNotReused, Stages, Stage
  <1>7. CrossTalkNeedsSharing'
    BY <1>2 DEF CrossTalkNeedsSharing
  <1> QED
    BY <1>2, <1>3, <1>4, <1>5, <1>6, <1>7

LEMMA MovesKeeps ==
  ASSUME ScanInv, NEW q \in Requests, Moves(q)
  PROVE  ScanInv'
  <1> USE DEF ScanInv
  <1>1. PICK r \in Request :
           /\ Becomes(q, r)
           /\ Follows(request[q], r)
           /\ r.ocr \in GivenUp => request[q].ocr \in GivenUp \/ current' = None
    BY DEF Moves
  <1>2. /\ request' = [request EXCEPT ![q] = r]
        /\ UNCHANGED worker /\ current' \in {current, None}
        /\ Stage(r) /\ r.worker = request[q].worker /\ (r.garbled => request[q].garbled)
        /\ r.pc \in {"new", "save", "decode"} => request[q].pc \in {"new", "save"}
        /\ r.pc = "recognize" => request[q].pc = "recognize" /\ Region(r) = Region(request[q])
    BY <1>1 DEF Moves, Becomes, Follows
  <1>3. request' \in [Requests -> Request] /\ Stages'
    BY <1>2 DEF Stages
  <1>4. \A p \in Requests : request'[p].worker = request[p].worker
    BY <1>2
  <1>5. WorkersKnown'
    BY <1>2, <1>4 DEF WorkersKnown
  <1>6. \A p \in Requests : Shared(p) => Shared(p)'
    BY <1>4 DEF Shared
  <1>7. ModesKept'
    BY <1>2, <1>4, <1>6 DEF ModesKept
  <1>8. AbandonedNotReused'
    BY <1>1, <1>2, <1>4 DEF AbandonedNotReused, GivenUp, Stages, Stage
  <1>9. CrossTalkNeedsSharing'
    BY <1>2, <1>4 DEF CrossTalkNeedsSharing
  <1> QED
    BY <1>2, <1>3, <1>5, <1>7, <1>8, <1>9

LEMMA TakingKeeps ==
  ASSUME ScanInv, NEW q \in Requests, request[q].pc = "decode", TakesWorker(q)
  PROVE  ScanInv'
  <1> USE DEF ScanInv
  <1>1. PICK r \in Request :
           /\ Becomes(q, r)
           /\ Stage(r)
           /\ r.pc = "worker" /\ r.ocr = "running" /\ ~r.garbled
           /\ r.worker = current'
           /\ \/ current # None /\ current' = current /\ UNCHANGED worker
              \/ /\ current = None /\ current' = q
                 /\ \E w \in Worker : w.pc = "creating" /\ worker' = [worker EXCEPT ![q] = w]
    BY DEF TakesWorker
  <1>2. request' = [request EXCEPT ![q] = r] /\ request[q].worker = None /\ worker[q].pc = "none"
    BY <1>1 DEF Becomes, Stages, Stage, WorkersKnown
  <1>3. request' \in [Requests -> Request] /\ Stages'
    BY <1>1, <1>2 DEF Stages
  <1>4. worker' \in [Requests -> Worker] /\ current' \in Requests \cup {None}
    BY <1>1
  <1>5. \A p \in Requests : request[p].worker # q
    BY <1>2, ScansAssumption DEF WorkersKnown
  <1>6. \A v \in Requests \ {q} : worker'[v] = worker[v]
    BY <1>1
  <1>7. WorkersKnown'
    <2>1. CASE current # None
      BY <1>1, <1>2, <2>1, ScansAssumption DEF WorkersKnown
    <2>2. CASE current = None
      BY <1>1, <1>2, <2>2, ScansAssumption DEF WorkersKnown, Request
    <2> QED
      BY <2>1, <2>2
  <1>8. ModesKept'
    <2> SUFFICES ASSUME NEW p \in Requests, request'[p].pc = "recognize"
                 PROVE  worker'[request'[p].worker].mode = Psm(Region(request'[p])) \/ Shared(p)'
      BY DEF ModesKept
    <2>1. p # q /\ request'[p] = request[p]
      BY <1>1, <1>2
    <2>2. request[p].worker \in Requests \ {q}
      BY <1>5, <2>1 DEF Stages, Stage, Reading, Request
    <2>3. worker'[request[p].worker] = worker[request[p].worker]
      BY <1>6, <2>2
    <2>4. Shared(p) => Shared(p)'
      BY <1>2, <2>1, <2>2, ScansAssumption DEF Shared
    <2> QED
      BY <2>1, <2>3, <2>4 DEF ModesKept
  <1>9. AbandonedNotReused'
    <2> SUFFICES ASSUME NEW p \in Requests, request'[p].ocr \in GivenUp
                 PROVE  current' # request'[p].worker
      BY DEF AbandonedNotReused, GivenUp
    <2>1. request'[p] = request[p]
      BY <1>1, <1>2 DEF GivenUp
    <2> QED
      BY <1>1, <1>5, <2>1 DEF AbandonedNotReused, GivenUp
  <1>10. CrossTalkNeedsSharing'
    <2> SUFFICES ASSUME NEW p \in Requests, request'[p].garbled
                 PROVE  \E o \in Requests \ {p} : request'[o].worker = request'[p].worker
      BY DEF CrossTalkNeedsSharing
    <2>1. p # q /\ request'[p] = request[p]
      BY <1>1, <1>2
    <2>2. PICK o \in Requests \ {p} : request[o].worker = request[p].worker
      BY <2>1 DEF CrossTalkNeedsSharing
    <2>3. request[p].worker # None
      BY <2>1 DEF Stages, Stage
    <2>4. o # q
      BY <1>2, <2>2, <2>3
    <2> QED
      BY <1>2, <2>1, <2>2, <2>4
  <1> QED
    BY <1>3, <1>4, <1>7, <1>8, <1>9, <1>10

LEMMA ModeKeeps ==
  ASSUME ScanInv, NEW q \in Requests, request[q].pc = "mode", SetsMode(q)
  PROVE  ScanInv'
  <1> USE DEF ScanInv
  <1>1. PICK r \in Request, w \in Worker :
           /\ Becomes(q, r)
           /\ worker' = [worker EXCEPT ![request[q].worker] = w]
           /\ Stage(r) /\ r.pc = "recognize"
           /\ r.worker = request[q].worker /\ r.garbled = request[q].garbled
           /\ r.ocr = request[q].ocr /\ r.answer = request[q].answer
           /\ w.pc = worker[request[q].worker].pc /\ w.mode = Psm(Region(r))
    BY DEF SetsMode
  <1>2. request' = [request EXCEPT ![q] = r] /\ UNCHANGED current
    BY <1>1 DEF SetsMode, Becomes
  <1>3. request' \in [Requests -> Request] /\ Stages' /\ worker' \in [Requests -> Worker]
    BY <1>1, <1>2 DEF Stages
  <1>4. request[q].worker \in Requests
    BY DEF Stages, Stage, Reading, Request
  <1>5. \A p \in Requests : request'[p].worker = request[p].worker
    BY <1>1, <1>2
  <1>6. \A v \in Requests : worker'[v].pc = worker[v].pc
    BY <1>1, <1>4
  <1>7. WorkersKnown'
    <2>1. \A p \in Requests : request'[p].pc \in {"new", "save", "decode"} => request'[p] = request[p]
      BY <1>1, <1>2
    <2> QED
      BY <1>2, <1>5, <1>6, <2>1, ScansAssumption DEF WorkersKnown, Request
  <1>8. ModesKept'
    <2> SUFFICES ASSUME NEW p \in Requests, request'[p].pc = "recognize"
                 PROVE  worker'[request'[p].worker].mode = Psm(Region(request'[p])) \/ Shared(p)'
      BY DEF ModesKept
    <2>1. CASE p = q
      BY <1>1, <1>2, <1>4, <2>1
    <2>2. CASE p # q /\ request[p].worker = request[q].worker
      BY <1>5, <2>2 DEF Shared
    <2>3. CASE p # q /\ request[p].worker # request[q].worker
      <3>1. request'[p] = request[p] /\ worker'[request[p].worker] = worker[request[p].worker]
        BY <1>1, <1>2, <1>4, <2>3 DEF Stages, Stage, Reading, Request
      <3>2. Shared(p) => Shared(p)'
        BY <1>5 DEF Shared
      <3> QED
        BY <3>1, <3>2 DEF ModesKept
    <2> QED
      BY <2>1, <2>2, <2>3
  <1>9. AbandonedNotReused'
    BY <1>1, <1>2, <1>5 DEF AbandonedNotReused
  <1>10. CrossTalkNeedsSharing'
    BY <1>1, <1>2, <1>5 DEF CrossTalkNeedsSharing
  <1> QED
    BY <1>2, <1>3, <1>7, <1>8, <1>9, <1>10

LEMMA RecognitionKeeps ==
  ASSUME ScanInv, NEW q \in Requests, request[q].pc = "recognize", Recognizes(q)
  PROVE  ScanInv'
  <1> USE DEF ScanInv
  <1>1. PICK r \in Request :
           /\ Becomes(q, r)
           /\ Stage(r) /\ r.pc \in {"mode", "done"}
           /\ r.worker = request[q].worker
           /\ r.garbled => request[q].garbled \/ worker[request[q].worker].mode # Psm(Region(request[q]))
           /\ r.ocr \in {request[q].ocr, "over"}
           /\ request[q].answer # "none" => r.answer = request[q].answer
    BY DEF Recognizes
  <1>2. request' = [request EXCEPT ![q] = r] /\ UNCHANGED <<worker, current>>
    BY <1>1 DEF Recognizes, Becomes
  <1>3. request' \in [Requests -> Request] /\ Stages'
    BY <1>1, <1>2 DEF Stages
  <1>4. \A p \in Requests : request'[p].worker = request[p].worker
    BY <1>1, <1>2
  <1>5. WorkersKnown'
    BY <1>1, <1>2, <1>4 DEF WorkersKnown
  <1>6. ModesKept'
    <2>1. \A p \in Requests : Shared(p) => Shared(p)'
      BY <1>4 DEF Shared
    <2> QED
      BY <1>1, <1>2, <1>4, <2>1 DEF ModesKept
  <1>7. AbandonedNotReused'
    BY <1>1, <1>2, <1>4 DEF AbandonedNotReused
  <1>8. CrossTalkNeedsSharing'
    <2> SUFFICES ASSUME NEW p \in Requests, request'[p].garbled
                 PROVE  \E o \in Requests \ {p} : request'[o].worker = request'[p].worker
      BY DEF CrossTalkNeedsSharing
    <2>1. request[p].garbled \/ Shared(p)
      BY <1>1, <1>2 DEF ModesKept
    <2>2. \E o \in Requests \ {p} : request[o].worker = request[p].worker
      BY <2>1 DEF CrossTalkNeedsSharing, Shared
    <2> QED
      BY <1>4, <2>2
  <1> QED
    BY <1>2, <1>3, <1>5, <1>6, <1>7, <1>8

LEMMA ScanStepKeeps ==
  ASSUME ScanInv, ScanStep
  PROVE  ScanInv'
  <1>1. CASE UNCHANGED <<current, worker, request>>
    BY <1>1 DEF ScanInv, Stages, WorkersKnown, ModesKept, Shared, AbandonedNotReused, CrossTalkNeedsSharing
  <1> QED
    BY <1>1, EventKeeps, MovesKeeps, TakingKeeps, ModeKeeps, RecognitionKeeps DEF ScanStep

(***************************************************************************)
(* The process around the scans.                                           *)
(***************************************************************************)
LifeTypeOK ==
    /\ host \in {"process", "function"}
    /\ phase \in Phases
    /\ code \in {"none", "0", "1", "signal"}
    /\ ready \in Requests \cup {None}
    /\ attempt \in [Requests -> {"none", "running", "ok", "failed"}]
    /\ awaits \in [Requests -> Requests \cup {None}]

LEMMA TypeParts == TypeOK <=> ScanTypeOK /\ LifeTypeOK
  BY DEF TypeOK, ScanTypeOK, LifeTypeOK

Inv == TypeOK /\ ScanInv

LEMMA ScansAreScanSteps ==
  ASSUME Scans
  PROVE  ScanNext /\ UNCHANGED lifeVars
  BY DEF Scans, Run, Accept, ScanNext

LEMMA FailedInvocationMoves ==
  ASSUME ScanTypeOK, Stages, NEW q \in Requests, InvocationFails(q)
  PROVE  Moves(q) /\ UNCHANGED <<zxing, lifeVars>>
  <1> DEFINE old == request[q]
  <1>1. old \in Request /\ Stage(old) /\ old.pc = "new" /\ old.answer = "none"
    BY DEF InvocationFails, ScanTypeOK, Stages, Stage
  <1>2. LET r == [old EXCEPT !.pc = "done", !.answer = "error"]
        IN  r \in Request /\ Stage(r) /\ r.worker = old.worker /\ r.ocr = "none"
            /\ r.garbled = old.garbled /\ r.pc = "done" /\ r.answer # "none"
    BY <1>1 DEF Request, Stage, Reading
  <1> QED
    BY <1>1, <1>2 DEF InvocationFails, Moves, Follows, GivenUp

\* A step of the process itself moves no request.
LifeStep ==
    \/ Starts \/ Stops
    \/ \E q \in Requests : Invoke(q) \/ Prepared(q) \/ PreparationFails(q)

LEMMA LifeSteps ==
  ASSUME TypeOK, LifeStep
  PROVE  TypeOK' /\ UNCHANGED <<current, worker, request>>
  <1> USE DEF TypeOK
  <1>1. CASE Starts
    BY <1>1 DEF Starts, StorageInit, StartFails, Listen, SignalEarly, WarmUp, Phases, scanVars
  <1>2. CASE Stops
    BY <1>2 DEF Stops, Shutdown, Closed, Disconnected, ForceExit, Phases, scanVars
  <1>3. ASSUME NEW q \in Requests, Invoke(q) PROVE TypeOK' /\ UNCHANGED <<current, worker, request>>
    BY <1>3 DEF Invoke, WarmUp
  <1>4. ASSUME NEW q \in Requests, Prepared(q) \/ PreparationFails(q)
        PROVE  TypeOK' /\ UNCHANGED <<current, worker, request>>
    BY <1>4 DEF Prepared, PreparationFails, scanVars
  <1> QED
    BY <1>1, <1>2, <1>3, <1>4 DEF LifeStep

LEMMA NextSteps ==
  ASSUME Next
  PROVE  LifeStep \/ Scans \/ \E q \in Requests : InvocationFails(q)
  BY DEF Next, Prepares, LifeStep

LEMMA InitInv == Init => Inv
  <1> SUFFICES ASSUME Init PROVE Inv
    OBVIOUS
  <1>1. [pc |-> "none", mode |-> None] \in Worker
    BY DEF Worker
  <1>2. TypeOK
    BY <1>1, BlankType DEF Init, ScanInit, TypeOK, Phases
  <1>3. Blank.pc = "new" /\ Blank.worker = None /\ Blank.ocr = "none" /\ ~Blank.garbled
    BY DEF Blank
  <1>4. \A q \in Requests : request[q] = Blank /\ worker[q].pc = "none"
    BY DEF Init, ScanInit
  <1>5. current = None
    BY DEF Init, ScanInit
  <1> QED
    BY <1>2, <1>3, <1>4, <1>5, BlankType
       DEF Inv, TypeOK, ScanInv, Stages, WorkersKnown, ModesKept, AbandonedNotReused, CrossTalkNeedsSharing

LEMMA InvStep == Inv /\ [Next]_vars => Inv'
  <1> SUFFICES ASSUME Inv, [Next]_vars PROVE Inv'
    OBVIOUS
  <1>1. ScanTypeOK /\ LifeTypeOK /\ Stages /\ ScanInv
    BY TypeParts DEF Inv, ScanInv
  <1>2. CASE LifeStep
    <2>1. TypeOK' /\ UNCHANGED <<current, worker, request>>
      BY <1>2, LifeSteps DEF Inv
    <2> QED
      BY <1>1, <2>1, ScanStepKeeps DEF Inv, ScanStep
  <1>3. CASE Scans
    <2>1. ScanStep /\ zxing' \in {"cold", "loading", "ready", "failed"} /\ UNCHANGED lifeVars
      BY <1>1, <1>3, ScansAreScanSteps, ScanSteps
    <2>2. ScanInv'
      BY <1>1, <2>1, ScanStepKeeps
    <2> QED
      BY <1>1, <2>1, <2>2 DEF Inv, TypeOK, ScanInv, LifeTypeOK, lifeVars
  <1>4. ASSUME NEW q \in Requests, InvocationFails(q) PROVE Inv'
    <2>1. Moves(q) /\ UNCHANGED <<zxing, lifeVars>>
      BY <1>1, <1>4, FailedInvocationMoves
    <2>2. ScanInv'
      BY <1>1, <2>1, ScanStepKeeps DEF ScanStep
    <2> QED
      BY <1>1, <2>1, <2>2 DEF Inv, TypeOK, ScanInv, ScanTypeOK, LifeTypeOK, lifeVars
  <1>5. CASE UNCHANGED vars
    <2>1. ScanInv'
      BY <1>1, <1>5, ScanStepKeeps DEF ScanStep, vars, scanVars
    <2> QED
      BY <1>5, <2>1 DEF Inv, TypeOK, vars, scanVars, lifeVars
  <1> QED
    BY <1>2, <1>3, <1>4, <1>5, NextSteps

\* The invariant the theorems below rest on.
THEOREM InvAlways == Spec => []Inv
  BY InitInv, InvStep, PTL DEF Spec

\* Every reachable state of the scans and of the process that runs them is
\* well typed (document.controller, aadhaarOcr.service, index.js, api/index.js).
THEOREM TypeCorrect == Spec => []TypeOK
  <1>1. Inv => TypeOK
    BY DEF Inv
  <1> QED
    BY <1>1, InvAlways, PTL

\* For any number of requests, however their readings fail, time out or drop
\* each other's worker, a stored photo's scan never ends without its key
\* (document.controller scan).
THEOREM KeyIsReturned == Spec => []KeyAlwaysReturned
  <1>1. Inv => KeyAlwaysReturned
    BY DEF Inv, ScanInv, Stages, Stage, KeyAlwaysReturned
  <1> QED
    BY <1>1, InvAlways, PTL

\* A worker that a reading gave up on is never the shared one again
\* (readAadhaarCard's catch).
THEOREM AbandonedStaysOut == Spec => []AbandonedNotReused
  <1>1. Inv => AbandonedNotReused
    BY DEF Inv, ScanInv
  <1> QED
    BY <1>1, InvAlways, PTL

\* A request alone on its worker is always read in the right mode (readRegions).
THEOREM CrossTalkIsShared == Spec => []CrossTalkNeedsSharing
  <1>1. Inv => CrossTalkNeedsSharing
    BY DEF Inv, ScanInv
  <1> QED
    BY <1>1, InvAlways, PTL

(***************************************************************************)
(* The preparation of a function instance.                                 *)
(***************************************************************************)
LEMMA PreparationStep == TypeOK /\ ColdStartPaidOnce /\ [Next]_vars => ColdStartPaidOnce'
  <1> SUFFICES ASSUME TypeOK, ColdStartPaidOnce, [Next]_vars PROVE ColdStartPaidOnce'
    OBVIOUS
  <1>0. attempt \in [Requests -> {"none", "running", "ok", "failed"}]
    BY DEF TypeOK
  <1> USE DEF ColdStartPaidOnce
  <1>1. CASE Starts \/ Stops
    BY <1>1 DEF Starts, Stops, StorageInit, StartFails, Listen, SignalEarly,
                Shutdown, Closed, Disconnected, ForceExit
  <1>2. ASSUME NEW q \in Requests, Invoke(q) PROVE ColdStartPaidOnce'
    <2>1. CASE ready = None
      <3>1. ready' = q /\ attempt' = [attempt EXCEPT ![q] = "running"]
        BY <1>2, <2>1 DEF Invoke
      <3>2. \A a \in Requests : attempt[a] \notin {"running", "ok"}
        BY <2>1, ScansAssumption
      <3> QED
        BY <1>0, <3>1, <3>2
    <2>2. CASE ready # None
      BY <1>2, <2>2 DEF Invoke
    <2> QED
      BY <2>1, <2>2
  <1>3. ASSUME NEW q \in Requests, Prepared(q) PROVE ColdStartPaidOnce'
    BY <1>0, <1>3 DEF Prepared
  <1>4. ASSUME NEW q \in Requests, PreparationFails(q) PROVE ColdStartPaidOnce'
    <2>1. /\ attempt[q] = "running" /\ attempt' = [attempt EXCEPT ![q] = "failed"]
          /\ ready' = None
      BY <1>4 DEF PreparationFails
    <2>2. \A a \in Requests \ {q} : attempt[a] \notin {"running", "ok"}
      BY <2>1
    <2> QED
      BY <1>0, <2>1, <2>2, ScansAssumption
  <1>5. ASSUME NEW q \in Requests, InvocationFails(q) PROVE ColdStartPaidOnce'
    BY <1>5 DEF InvocationFails, lifeVars
  <1>6. CASE Scans
    BY <1>6, ScansAreScanSteps DEF lifeVars
  <1>7. CASE UNCHANGED vars
    BY <1>7 DEF vars, lifeVars
  <1> QED
    BY <1>1, <1>2, <1>3, <1>4, <1>5, <1>6, <1>7 DEF Next, Prepares

\* Invocations that wait, fail and come again never have two preparations under
\* way, repeat one that succeeded, or join one that failed (ensureReady).
THEOREM ColdStartsPayOnce == Spec => []ColdStartPaidOnce
  <1>1. Init => ColdStartPaidOnce
    BY ScansAssumption DEF Init, ColdStartPaidOnce
  <1> QED
    BY <1>1, PreparationStep, TypeCorrect, PTL DEF Spec

(***************************************************************************)
(* The shutdown.                                                           *)
(***************************************************************************)
Idle == \A q \in Requests : ~InFlight(q)

\* Only what comes in through the listener becomes a request in flight.
LEMMA MovesStayIdle ==
  ASSUME ScanTypeOK, Idle, NEW q \in Requests, Moves(q), request[q].pc # "new"
  PROVE  Idle'
  <1>1. PICK r \in Request : Becomes(q, r) /\ Follows(request[q], r)
    BY DEF Moves
  <1>2. r.answer # "none"
    BY <1>1 DEF Follows, Idle, InFlight
  <1> QED
    BY <1>1, <1>2 DEF Becomes, Idle, InFlight, ScanTypeOK

LEMMA ScansStayIdle ==
  ASSUME ScanTypeOK, Stages, Idle, Scans, host = "process", phase # "serving"
  PROVE  Idle'
  <1> USE DEF ScanTypeOK
  <1>1. CASE Run(LoadZXing) \/ Run(Tesseract)
    BY <1>1 DEF Run, LoadZXing, ZXingLoads, Tesseract, WorkerCreated, WorkerFails, Idle, InFlight
  <1>2. ASSUME NEW q \in Requests, Accept(q) PROVE FALSE
    BY <1>2 DEF Accept, Accepts
  <1>3. ASSUME NEW q \in Requests, Store(q) \/ ReadQr(q) PROVE FALSE
    <2>1. request[q].pc \in {"save", "decode"}
      BY <1>3 DEF Store, ReadQr, Save, SaveFails, SaveWithText, Decode, StartReading
    <2> QED
      BY <2>1 DEF Idle, InFlight, Stages, Stage
  <1>4. ASSUME NEW q \in Requests, Budget(q) PROVE Idle'
    <2>1. request[q].pc # "new"
      BY <1>4 DEF Budget, Stages, Stage
    <2> QED
      BY <1>4, <2>1, ReadingMoves, MovesStayIdle
  <1>5. ASSUME NEW q \in Requests, ReadPrint(q) PROVE Idle'
    <2>1. request[q].pc \in Reading
      BY <1>5 DEF ReadPrint, Begin, SetMode, ReadingFails, Recognize, Reading
    <2>2. request[q].answer # "none"
      BY <2>1 DEF Idle, InFlight, Reading
    <2>3. CASE Begin(q) \/ ReadingFails(q)
      BY <2>1, <2>3, ReadingMoves, MovesStayIdle DEF Reading
    <2>4. CASE SetMode(q)
      BY <2>2, <2>4, ModeIsSet DEF SetsMode, Becomes, Idle, InFlight
    <2>5. ASSUME NEW outcome \in {"blank", "text", "proof"}, Recognize(q, outcome) PROVE Idle'
      BY <2>2, <2>5, RegionIsRecognized DEF Recognizes, Becomes, Idle, InFlight
    <2> QED
      BY <1>5, <2>3, <2>4, <2>5 DEF ReadPrint
  <1> QED
    BY <1>1, <1>2, <1>3, <1>4, <1>5 DEF Scans, Run

DrainInv ==
    /\ host = "function" => phase = "serving" /\ code = "none"
    /\ phase = "disconnecting" => Idle
    /\ code = "0" => phase = "exited" /\ Idle

LEMMA DrainStep == Inv /\ DrainInv /\ [Next]_vars => DrainInv'
  <1> SUFFICES ASSUME Inv, DrainInv, [Next]_vars PROVE DrainInv'
    OBVIOUS
  <1>1. ScanTypeOK /\ LifeTypeOK /\ Stages
    BY TypeParts DEF Inv, ScanInv
  <1>2. CASE Starts
    BY <1>1, <1>2 DEF Starts, StorageInit, StartFails, Listen, SignalEarly, DrainInv, LifeTypeOK
  <1>3. CASE Stops
    <2>1. Idle => Idle'
      BY <1>3 DEF Stops, Shutdown, Closed, Disconnected, ForceExit, scanVars, Idle, InFlight
    <2> QED
      BY <1>1, <1>3, <2>1
         DEF Stops, Shutdown, Closed, Disconnected, ForceExit, DrainInv, Idle, LifeTypeOK
  <1>4. ASSUME NEW q \in Requests, Invoke(q) \/ Prepared(q) \/ PreparationFails(q) PROVE DrainInv'
    <2>1. UNCHANGED <<host, phase, code, request>>
      BY <1>4 DEF Invoke, Prepared, PreparationFails, scanVars
    <2> QED
      BY <2>1 DEF DrainInv, Idle, InFlight
  <1>5. ASSUME NEW q \in Requests, InvocationFails(q) PROVE DrainInv'
    <2>1. Idle => Idle'
      BY <1>1, <1>5 DEF InvocationFails, Becomes, Idle, InFlight, ScanTypeOK, Request
    <2> QED
      BY <1>5, <2>1 DEF InvocationFails, DrainInv, lifeVars
  <1>6. CASE Scans
    <2>1. UNCHANGED lifeVars
      BY <1>6, ScansAreScanSteps
    <2>2. CASE host = "process" /\ phase # "serving"
      BY <1>1, <1>6, <2>1, <2>2, ScansStayIdle DEF DrainInv, lifeVars
    <2>3. CASE host = "function" \/ phase = "serving"
      BY <2>1, <2>3 DEF DrainInv, lifeVars
    <2> QED
      BY <1>1, <2>2, <2>3 DEF LifeTypeOK
  <1>7. CASE UNCHANGED vars
    BY <1>7 DEF vars, scanVars, lifeVars, DrainInv, Idle, InFlight
  <1> QED
    BY <1>2, <1>3, <1>4, <1>5, <1>6, <1>7 DEF Next, Prepares

\* A process that exits with code 0 has answered every request it accepted
\* (shutdown in index.js).
THEOREM CleanExitsDropNothing == Spec => []CleanExitDropsNothing
  <1>1. Init => DrainInv
    BY DEF Init, DrainInv
  <1>2. DrainInv => CleanExitDropsNothing
    BY DEF DrainInv, Idle, CleanExitDropsNothing
  <1> QED
    BY <1>1, <1>2, DrainStep, InvAlways, PTL DEF Spec
=============================================================================
