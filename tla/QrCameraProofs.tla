--------------------------- MODULE QrCameraProofs ---------------------------
(***************************************************************************)
(* Proofs about module QrCamera, for any number of openings.               *)
(***************************************************************************)
EXTENDS QrCamera, TLAPS

(***************************************************************************)
(* What each step does to the run it moves.  A run that is moved keeps its *)
(* stream, or releases it, or has just been granted one.                   *)
(***************************************************************************)
LEMMA HelperTypes ==
  ASSUME NEW r \in Run, NEW cancelled \in BOOLEAN
  PROVE  Released(r) \in Run /\ Failed(r, cancelled) \in Run /\ Scanning(r) \in Run
  BY DEF Released, Failed, Scanning, Run, Active

LEMMA BecomesType ==
  ASSUME TypeOK, NEW o \in Openings, NEW r \in Run, Becomes(o, r)
  PROVE  run' \in [Openings -> Run]
  BY DEF TypeOK, Becomes

LEMMA UnlessType ==
  ASSUME TypeOK, NEW o \in Openings, NEW r \in Run, Unless(o, r)
  PROVE  run' \in [Openings -> Run]
  <1>1. [run[o] EXCEPT !.pc = "done"] \in Run
    BY DEF TypeOK, Run
  <1> QED
    BY <1>1, BecomesType DEF Unless

LEMMA InitType == Init => TypeOK
  BY DEF Init, TypeOK, Unopened, Run

LEMMA RunStepType ==
  ASSUME TypeOK, NEW o \in Openings, RunStep(o) \/ Permission(o)
  PROVE  run' \in [Openings -> Run] /\ panel' \in Openings \cup {None} /\ UNCHANGED shot
  <1> USE DEF TypeOK
  <1>1. run[o] \in Run /\ Cancelled(o) \in BOOLEAN
    BY DEF Cancelled
  <1>2. Failed(run[o], Cancelled(o)) \in Run /\ Scanning(run[o]) \in Run /\ Released(run[o]) \in Run
    BY <1>1, HelperTypes
  <1>3. \A pc \in Active \cup {"done"} : [run[o] EXCEPT !.pc = pc] \in Run
    BY <1>1 DEF Run, Active
  <1>4. CASE LoadReader(o)
    BY <1>4, <1>3, BecomesType DEF LoadReader, Active
  <1>5. CASE LoadReaderFails(o)
    BY <1>5, <1>2, BecomesType DEF LoadReaderFails
  <1>6. CASE Granted(o)
    <2>1. /\ [run[o] EXCEPT !.stream = "stopped", !.pc = "done"] \in Run
          /\ [run[o] EXCEPT !.stream = "live", !.pc = "playing"] \in Run
      BY <1>1 DEF Run, Active
    <2> QED
      BY <1>6, <2>1, BecomesType DEF Granted
  <1>7. CASE Denied(o)
    BY <1>7, <1>2, BecomesType DEF Denied
  <1>8. ASSUME NEW zooms \in BOOLEAN, Play(o, zooms) PROVE run' \in [Openings -> Run] /\ UNCHANGED <<panel, shot>>
    BY <1>8, <1>2, <1>3, UnlessType DEF Play, Active
  <1>9. CASE Zoom(o)
    BY <1>9, <1>2, UnlessType DEF Zoom
  <1>10. CASE NextFrame(o)
    BY <1>10, <1>3, UnlessType DEF NextFrame, Active
  <1>11. CASE NothingRead(o)
    BY <1>11, <1>2, UnlessType DEF NothingRead
  <1>12. CASE CodeRead(o)
    BY <1>12, <1>3, UnlessType DEF CodeRead, Active
  <1>13. CASE FrameCaptured(o)
    <2>1. [run[o] EXCEPT !.pc = "done", !.handed = TRUE] \in Run
      BY <1>1 DEF Run
    <2>2. Released([run[o] EXCEPT !.pc = "done", !.handed = TRUE]) \in Run
      BY <2>1, HelperTypes
    <2> QED
      BY <1>13, <1>3, <2>2, BecomesType DEF FrameCaptured
  <1> QED
    BY <1>4, <1>5, <1>6, <1>7, <1>8, <1>9, <1>10, <1>11, <1>12, <1>13 DEF RunStep, Permission

LEMMA TypeStep == TypeOK /\ [Next]_vars => TypeOK'
  <1> SUFFICES ASSUME TypeOK, [Next]_vars PROVE TypeOK'
    OBVIOUS
  <1>1. ASSUME NEW o \in Openings, Open(o) PROVE TypeOK'
    <2>1. [run[o] EXCEPT !.pc = "loading"] \in Run
      BY DEF TypeOK, Run, Active
    <2> QED
      BY <1>1, <2>1, BecomesType DEF Open, TypeOK
  <1>2. ASSUME NEW o \in Openings, Close(o) PROVE TypeOK'
    <2>1. Released(run[o]) \in Run
      BY HelperTypes DEF TypeOK
    <2> QED
      BY <1>2, <2>1, BecomesType DEF Close, TypeOK
  <1>3. ASSUME NEW o \in Openings, NEW on \in BOOLEAN, SetCaptureMode(o, on) PROVE TypeOK'
    <2>1. [run[o] EXCEPT !.captureMode = on] \in Run
      BY DEF TypeOK, Run
    <2> QED
      BY <1>3, <2>1, BecomesType DEF SetCaptureMode, TypeOK
  <1>4. ASSUME NEW o \in Openings, Capture(o) PROVE TypeOK'
    BY <1>4 DEF Capture, TypeOK
  <1>5. ASSUME NEW o \in Openings, CaptureTaken(o) PROVE TypeOK'
    <2>1. \A p \in Openings : Released(run[p]) \in Run
      BY HelperTypes DEF TypeOK
    <2> QED
      BY <1>5, <2>1 DEF CaptureTaken, TypeOK
  <1>6. ASSUME NEW o \in Openings, CaptureFails(o) PROVE TypeOK'
    BY <1>6 DEF CaptureFails, TypeOK
  <1>7. ASSUME NEW o \in Openings, RunStep(o) \/ Permission(o) PROVE TypeOK'
    BY <1>7, RunStepType DEF TypeOK
  <1>8. CASE UNCHANGED vars
    BY <1>8 DEF vars, TypeOK
  <1> QED
    BY <1>1, <1>2, <1>3, <1>4, <1>5, <1>6, <1>7, <1>8 DEF Next, Guest, Shot

\* Every reachable state of the camera panel and its runs is well typed
\* (QrCamera's state and its effect).
THEOREM TypeCorrect == Spec => []TypeOK
  BY InitType, TypeStep, PTL DEF Spec

(***************************************************************************)
(* The camera.                                                             *)
(***************************************************************************)

\* A run that has the camera and the hand-over of r.
Alike(r, s) == s \in Run /\ s.stream = r.stream /\ s.handed = r.handed

LEMMA AlikeHelpers ==
  ASSUME NEW r \in Run
  PROVE  /\ \A pc \in Active \cup {"done"} : Alike(r, [r EXCEPT !.pc = pc])
         /\ \A cancelled \in BOOLEAN : Alike(r, Failed(r, cancelled))
         /\ Alike(r, Scanning(r))
  BY DEF Alike, Failed, Scanning, Run, Active

Quiet(o) == panel' = panel /\ \E r \in Run : Becomes(o, r) /\ Alike(run[o], r)

LEMMA UnlessQuiet ==
  ASSUME TypeOK, NEW o \in Openings, NEW r, Alike(run[o], r), Unless(o, r), panel' = panel
  PROVE  Quiet(o)
  <1>1. Alike(run[o], [run[o] EXCEPT !.pc = "done"])
    BY AlikeHelpers DEF TypeOK
  <1> QED
    BY <1>1 DEF Unless, Quiet, Alike

\* Neither the camera nor the hand-over is touched by the other steps.
LEMMA RunQuiet ==
  ASSUME TypeOK, NEW o \in Openings, RunStep(o) \/ Permission(o), ~FrameCaptured(o), ~Granted(o)
  PROVE  Quiet(o)
  <1>1. run[o] \in Run /\ Cancelled(o) \in BOOLEAN
    BY DEF TypeOK, Cancelled
  <1>2. /\ \A pc \in Active \cup {"done"} : Alike(run[o], [run[o] EXCEPT !.pc = pc])
        /\ Alike(run[o], Failed(run[o], Cancelled(o)))
        /\ Alike(run[o], Scanning(run[o]))
    BY <1>1, AlikeHelpers
  <1>3. CASE LoadReader(o)
    BY <1>3, <1>2 DEF LoadReader, Quiet, Alike, Active
  <1>4. CASE LoadReaderFails(o) \/ Denied(o)
    BY <1>4, <1>2 DEF LoadReaderFails, Denied, Quiet, Alike
  <1>5. ASSUME NEW zooms \in BOOLEAN, Play(o, zooms) PROVE Quiet(o)
    BY <1>5, <1>2, UnlessQuiet DEF Play, Active
  <1>6. CASE Zoom(o) \/ NothingRead(o)
    BY <1>6, <1>2, UnlessQuiet DEF Zoom, NothingRead
  <1>7. CASE NextFrame(o) \/ CodeRead(o)
    BY <1>7, <1>2, UnlessQuiet DEF NextFrame, CodeRead, Active
  <1> QED
    BY <1>3, <1>4, <1>5, <1>6, <1>7 DEF RunStep, Permission

\* Only a grant to the panel on screen turns a camera on.
LEMMA RunKeepsCamera ==
  ASSUME TypeOK, CameraReleased, NEW o \in Openings, RunStep(o) \/ Permission(o)
  PROVE  CameraReleased'
  <1> USE DEF TypeOK, CameraReleased, Becomes
  <1>1. CASE FrameCaptured(o)
    <2>1. CASE Cancelled(o)
      BY <1>1, <2>1 DEF FrameCaptured, Cancelled, Run
    <2>2. CASE ~Cancelled(o)
      <3> DEFINE r == [run[o] EXCEPT !.pc = "done", !.handed = TRUE]
      <3>1. run'[o].stream # "live"
        <4>1. r \in Run
          BY DEF Run
        <4>2. run'[o] = Released(r)
          BY <1>1, <2>2 DEF FrameCaptured
        <4> HIDE DEF r
        <4> QED
          BY <4>1, <4>2 DEF Released, Run
      <3>2. \A p \in Openings \ {o} : run'[p] = run[p]
        BY <1>1, <2>2 DEF FrameCaptured
      <3> QED
        BY <3>1, <3>2, <2>2 DEF Cancelled
    <2> QED
      BY <2>1, <2>2
  <1>2. CASE Granted(o)
    BY <1>2 DEF Granted, Cancelled, Run
  <1>3. CASE ~FrameCaptured(o) /\ ~Granted(o)
    BY <1>3, RunQuiet DEF Quiet, Alike
  <1> QED
    BY <1>1, <1>2, <1>3

LEMMA CameraStep == TypeOK /\ CameraReleased /\ [Next]_vars => CameraReleased'
  <1> SUFFICES ASSUME TypeOK, CameraReleased, [Next]_vars PROVE CameraReleased'
    OBVIOUS
  <1>1. ASSUME NEW o \in Openings, Open(o) PROVE CameraReleased'
    BY <1>1, CameraAssumption DEF Open, Becomes, TypeOK, CameraReleased, Run
  <1>2. ASSUME NEW o \in Openings, Close(o) PROVE CameraReleased'
    BY <1>2 DEF Close, Becomes, Released, TypeOK, CameraReleased, Run
  <1>3. ASSUME NEW o \in Openings, NEW on \in BOOLEAN, SetCaptureMode(o, on) PROVE CameraReleased'
    BY <1>3 DEF SetCaptureMode, Becomes, TypeOK, CameraReleased, Run
  <1>4. ASSUME NEW o \in Openings, Capture(o) \/ CaptureFails(o) PROVE CameraReleased'
    BY <1>4 DEF Capture, CaptureFails, CameraReleased
  <1>5. ASSUME NEW o \in Openings, CaptureTaken(o) PROVE CameraReleased'
    BY <1>5 DEF CaptureTaken, Released, TypeOK, CameraReleased, Run
  <1>6. ASSUME NEW o \in Openings, RunStep(o) \/ Permission(o) PROVE CameraReleased'
    BY <1>6, RunKeepsCamera
  <1>7. CASE UNCHANGED vars
    BY <1>7 DEF vars, CameraReleased
  <1> QED
    BY <1>1, <1>2, <1>3, <1>4, <1>5, <1>6, <1>7 DEF Next, Guest, Shot

\* In every order of opening, closing and permission, for any number of
\* openings, the camera is live only for the panel on screen (QrCamera's effect
\* and cleanup).
THEOREM CameraIsReleased == Spec => []CameraReleased
  <1>1. Init => CameraReleased
    BY DEF Init, CameraReleased, Unopened
  <1> QED
    BY <1>1, CameraStep, TypeCorrect, PTL DEF Spec

(***************************************************************************)
(* The hand-over.                                                          *)
(***************************************************************************)
Scans == {"scanning", "decoding", "capturing"}
Films == {"playing", "zooming"} \cup Scans

\* A run past its grant films, as long as its panel is open, and one in the loop
\* has said so.
Filming(o) ==
    /\ run[o].pc \in Films /\ panel = o => run[o].stream = "live"
    /\ run[o].pc \in Scans => run[o].state = "scanning"
    /\ run[o].pc = "unopened" => panel # o

AllFilming == \A o \in Openings : Filming(o)

\* Only the run that moves changes, and a panel that opens is not filming yet.
LEMMA OthersFilm ==
  ASSUME TypeOK, AllFilming, NEW o \in Openings, NEW r, Becomes(o, r), Filming(o)',
         panel' \in {panel, o, None}
  PROVE  AllFilming'
  BY CameraAssumption DEF AllFilming, Filming, Becomes, TypeOK

LEMMA RunFilms ==
  ASSUME TypeOK, AllFilming, NEW o \in Openings, RunStep(o) \/ Permission(o)
  PROVE  AllFilming'
  <1> USE DEF TypeOK, Becomes, Run, Scans, Films, Filming
  <1>0. Filming(o) /\ run[o] \in Run
    BY DEF AllFilming
  <1>1. CASE LoadReader(o)
    BY <1>0, <1>1, OthersFilm DEF LoadReader
  <1>2. CASE LoadReaderFails(o) \/ Denied(o)
    <2> DEFINE r == Failed(run[o], Cancelled(o))
    <2>1. r.pc = "done" /\ panel' = panel /\ Becomes(o, r)
      BY <1>0, <1>2 DEF LoadReaderFails, Denied, Failed
    <2> HIDE DEF r
    <2> QED
      BY <1>0, <2>1, OthersFilm
  <1>3. CASE Granted(o)
    BY <1>0, <1>3, OthersFilm DEF Granted
  <1>4. ASSUME NEW zooms \in BOOLEAN, Play(o, zooms) PROVE AllFilming'
    BY <1>0, <1>4, OthersFilm DEF Play, Unless, Scanning
  <1>5. CASE Zoom(o) \/ NothingRead(o)
    <2> DEFINE r == IF Cancelled(o) THEN [run[o] EXCEPT !.pc = "done"] ELSE Scanning(run[o])
    <2>1. panel' = panel /\ Becomes(o, r) /\ run[o].pc \in Films
      BY <1>5 DEF Zoom, NothingRead, Unless
    <2>2. \/ r.pc = "done"
          \/ r.pc = "scanning" /\ r.state = "scanning" /\ r.stream = run[o].stream
      BY <1>0 DEF Scanning
    <2> HIDE DEF r
    <2> QED
      BY <1>0, <2>1, <2>2, OthersFilm
  <1>6. CASE NextFrame(o) \/ CodeRead(o)
    BY <1>0, <1>6, OthersFilm DEF NextFrame, CodeRead, Unless
  <1>7. CASE FrameCaptured(o)
    <2>1. CASE Cancelled(o)
      BY <1>0, <1>7, <2>1, OthersFilm DEF FrameCaptured
    <2>2. CASE ~Cancelled(o)
      <3> DEFINE r == Released([run[o] EXCEPT !.pc = "done", !.handed = TRUE])
      <3>1. r.pc = "done" /\ panel' = None /\ Becomes(o, r)
        BY <1>0, <1>7, <2>2 DEF FrameCaptured, Released
      <3> HIDE DEF r
      <3> QED
        BY <1>0, <3>1, OthersFilm
    <2> QED
      BY <2>1, <2>2
  <1> QED
    BY <1>1, <1>2, <1>3, <1>4, <1>5, <1>6, <1>7 DEF RunStep, Permission

LEMMA FilmingStep == TypeOK /\ AllFilming /\ [Next]_vars => AllFilming'
  <1> SUFFICES ASSUME TypeOK, AllFilming, [Next]_vars PROVE AllFilming'
    OBVIOUS
  <1> USE DEF TypeOK, Becomes, Run, Scans, Films, Filming, AllFilming
  <1>1. ASSUME NEW o \in Openings, Open(o) PROVE AllFilming'
    BY <1>1, OthersFilm DEF Open
  <1>2. ASSUME NEW o \in Openings, Close(o) PROVE AllFilming'
    BY <1>2, OthersFilm, CameraAssumption DEF Close, Released
  <1>3. ASSUME NEW o \in Openings, NEW on \in BOOLEAN, SetCaptureMode(o, on) PROVE AllFilming'
    BY <1>3, OthersFilm DEF SetCaptureMode
  <1>4. ASSUME NEW o \in Openings, Capture(o) \/ CaptureFails(o) PROVE AllFilming'
    BY <1>4 DEF Capture, CaptureFails
  <1>5. ASSUME NEW o \in Openings, CaptureTaken(o) PROVE AllFilming'
    BY <1>5, CameraAssumption DEF CaptureTaken, Released
  <1>6. ASSUME NEW o \in Openings, RunStep(o) \/ Permission(o) PROVE AllFilming'
    BY <1>6, RunFilms
  <1>7. CASE UNCHANGED vars
    BY <1>7 DEF vars
  <1> QED
    BY <1>1, <1>2, <1>3, <1>4, <1>5, <1>6, <1>7 DEF Next, Guest, Shot

HandOver ==
    \A o \in Openings : run'[o].handed /\ ~run[o].handed =>
        panel = o /\ run[o].stream = "live" /\ run[o].state = "scanning"

LEMMA HandOverStep == TypeOK /\ AllFilming /\ [Next]_vars => HandOver
  <1> SUFFICES ASSUME TypeOK, AllFilming, [Next]_vars PROVE HandOver
    OBVIOUS
  <1> USE DEF TypeOK, HandOver, Becomes, Run
  <1>1. ASSUME NEW o \in Openings, FrameCaptured(o) PROVE HandOver
    BY <1>1 DEF FrameCaptured, Cancelled, Released, AllFilming, Filming, Films, Scans
  <1>2. ASSUME NEW o \in Openings, Granted(o) PROVE HandOver
    BY <1>2 DEF Granted
  <1>3. ASSUME NEW o \in Openings, RunStep(o) \/ Permission(o), ~FrameCaptured(o), ~Granted(o)
        PROVE  HandOver
    BY <1>3, RunQuiet DEF Quiet, Alike
  <1>4. ASSUME NEW o \in Openings, Guest(o) PROVE HandOver
    BY <1>4 DEF Guest, Open, Close, Capture, SetCaptureMode, Released
  <1>5. ASSUME NEW o \in Openings, Shot(o) PROVE HandOver
    BY <1>5 DEF Shot, CaptureTaken, CaptureFails, Released
  <1>6. CASE UNCHANGED vars
    BY <1>6 DEF vars
  <1> QED
    BY <1>1, <1>2, <1>3, <1>4, <1>5, <1>6 DEF Next

\* A decode that ends after its panel was closed is dropped, and one that is not
\* was read off a live camera, for any number of openings (the checks after each
\* await of the run).
THEOREM HandsOverOnlyWhileOpen == Spec => HandsOverWhileOpen
  <1>1. Init => AllFilming
    <2> SUFFICES ASSUME Init, NEW o \in Openings PROVE Filming(o)
      BY DEF AllFilming
    <2>1. run[o].pc = "unopened" /\ panel # o
      BY CameraAssumption DEF Init, Unopened
    <2> QED
      BY <2>1 DEF Filming, Films, Scans
  <1> QED
    BY <1>1, FilmingStep, HandOverStep, TypeCorrect, PTL DEF Spec, HandsOverWhileOpen, HandOver
=============================================================================
