------------------------------ MODULE QrCamera ------------------------------
(***************************************************************************)
(* The camera panel of the guest's form.  Opening it starts a run: load    *)
(* the reader, ask for the camera, play, zoom, then decode frame after     *)
(* frame.  Every step of a run awaits something, and the guest may close   *)
(* the panel, and open it again, while it does: a run outlives its panel,  *)
(* and runs of several openings overlap.                                   *)
(*                                                                         *)
(* What a run hands over is a photo, which closes the panel and is         *)
(* uploaded by the form.                                                   *)
(***************************************************************************)
CONSTANTS
    Openings,  \* the times the panel is opened, each with its run
    None       \* no panel is open

ASSUME CameraAssumption == None \notin Openings

VARIABLES
    panel,   \* the opening on screen
    run,     \* each opening's run
    shot     \* photos taken by hand: none, being taken, taken

vars == <<panel, run, shot>>

Active == {"loading", "asking", "playing", "zooming", "scanning", "decoding", "capturing"}

Run == [pc : {"unopened", "done"} \cup Active,
        stream : {"none", "live", "stopped"},          \* the camera, its indicator lit while live
        state : {"starting", "scanning", "error"},     \* what the panel shows
        captureMode : BOOLEAN,                         \* framing the whole card
        handed : BOOLEAN]                              \* the decoded frame went to the form

Unopened == [pc |-> "unopened", stream |-> "none", state |-> "starting",
             captureMode |-> FALSE, handed |-> FALSE]

Init ==
    /\ panel = None
    /\ run = [o \in Openings |-> Unopened]
    /\ shot = [o \in Openings |-> "none"]

Cancelled(o) == panel # o

Becomes(o, r) == run' = [run EXCEPT ![o] = r]

(***************************************************************************)
(* The panel.                                                              *)
(***************************************************************************)
Open(o) ==
    /\ panel = None
    /\ run[o].pc = "unopened"
    /\ panel' = o
    /\ Becomes(o, [run[o] EXCEPT !.pc = "loading"])
    /\ UNCHANGED shot

\* The effect's cleanup stops the stream the run has obtained so far.
Released(r) == [r EXCEPT !.stream = IF @ = "live" THEN "stopped" ELSE @]

\* Cancel, or the form is gone: the effect is cleaned up.
Close(o) ==
    /\ panel = o
    /\ panel' = None
    /\ Becomes(o, Released(run[o]))
    /\ UNCHANGED shot

(***************************************************************************)
(* The run.                                                                *)
(***************************************************************************)
\* setState and setMessage, unless the panel is gone.
Failed(r, cancelled) ==
    [r EXCEPT !.pc = "done", !.state = IF cancelled THEN @ ELSE "error"]

LoadReader(o) ==
    /\ run[o].pc = "loading"
    /\ Becomes(o, [run[o] EXCEPT !.pc = "asking"])
    /\ UNCHANGED <<panel, shot>>

LoadReaderFails(o) ==
    /\ run[o].pc = "loading"
    /\ Becomes(o, Failed(run[o], Cancelled(o)))
    /\ UNCHANGED <<panel, shot>>

\* Fault: whoever closed the panel is taken to have released the camera.
GrantedUnchecked(o) ==
    /\ run[o].pc = "asking"
    /\ Becomes(o, [run[o] EXCEPT !.stream = "live", !.pc = "playing"])
    /\ UNCHANGED <<panel, shot>>

\* getUserMedia resolves, perhaps for a panel closed while it was pending.
Granted(o) ==
    /\ run[o].pc = "asking"
    /\ Becomes(o, IF Cancelled(o)
                  THEN [run[o] EXCEPT !.stream = "stopped", !.pc = "done"]
                  ELSE [run[o] EXCEPT !.stream = "live", !.pc = "playing"])
    /\ UNCHANGED <<panel, shot>>

Denied(o) ==
    /\ run[o].pc = "asking"
    /\ Becomes(o, Failed(run[o], Cancelled(o)))
    /\ UNCHANGED <<panel, shot>>

Scanning(r) == [r EXCEPT !.pc = "scanning", !.state = "scanning"]

\* Fault: a run does not look whether its panel is still there.
Regardless(o, r) == Becomes(o, r)

\* if (cancelled) return, after an await.
Unless(o, r) == Becomes(o, IF Cancelled(o) THEN [run[o] EXCEPT !.pc = "done"] ELSE r)

\* play() ended, well or not.  A camera that can zoom is zoomed first.
Play(o, zooms) ==
    /\ run[o].pc = "playing"
    /\ Unless(o, IF zooms THEN [run[o] EXCEPT !.pc = "zooming"] ELSE Scanning(run[o]))
    /\ UNCHANGED <<panel, shot>>

Zoom(o) ==
    /\ run[o].pc = "zooming"
    /\ Unless(o, Scanning(run[o]))
    /\ UNCHANGED <<panel, shot>>

\* The loop's head, after the pause between frames.
NextFrame(o) ==
    /\ run[o].pc = "scanning"
    /\ Unless(o, [run[o] EXCEPT !.pc = "decoding"])
    /\ UNCHANGED <<panel, shot>>

\* The frame held no code, or the decoder choked on it.
NothingRead(o) ==
    /\ run[o].pc = "decoding"
    /\ Unless(o, Scanning(run[o]))
    /\ UNCHANGED <<panel, shot>>

CodeRead(o) ==
    /\ run[o].pc = "decoding"
    /\ Unless(o, [run[o] EXCEPT !.pc = "capturing"])
    /\ UNCHANGED <<panel, shot>>

\* Fault: the photo is handed over without looking whether it still is wanted.
FrameCapturedUnchecked(o) ==
    /\ run[o].pc = "capturing"
    /\ Becomes(o, Released([run[o] EXCEPT !.pc = "done", !.handed = TRUE]))
    /\ panel' = None
    /\ UNCHANGED shot

\* onDecoded: handleScanned closes the panel, which cleans the effect up.
FrameCaptured(o) ==
    /\ run[o].pc = "capturing"
    /\ IF Cancelled(o)
       THEN /\ Becomes(o, [run[o] EXCEPT !.pc = "done"])
            /\ panel' = panel
       ELSE /\ Becomes(o, Released([run[o] EXCEPT !.pc = "done", !.handed = TRUE]))
            /\ panel' = None
    /\ UNCHANGED shot

(***************************************************************************)
(* Taking a photo by hand, beside the run.                                 *)
(***************************************************************************)
SetCaptureMode(o, on) ==
    /\ panel = o
    /\ on => run[o].state = "scanning"
    /\ run[o].captureMode # on
    /\ Becomes(o, [run[o] EXCEPT !.captureMode = on])
    /\ UNCHANGED <<panel, shot>>

Capture(o) ==
    /\ panel = o
    /\ run[o].captureMode
    /\ run[o].state = "scanning"
    /\ shot[o] = "none"
    /\ shot' = [shot EXCEPT ![o] = "taking"]
    /\ UNCHANGED <<panel, run>>

\* onCapture: handleCaptured closes the panel that is open by now.  The photo
\* goes to the form even if the panel it was taken from has been closed.
CaptureTaken(o) ==
    /\ shot[o] = "taking"
    /\ shot' = [shot EXCEPT ![o] = "taken"]
    /\ panel' = None
    /\ run' = [p \in Openings |-> IF panel = p THEN Released(run[p]) ELSE run[p]]

\* toBlob yields nothing: the button comes back.
CaptureFails(o) ==
    /\ shot[o] = "taking"
    /\ shot' = [shot EXCEPT ![o] = "none"]
    /\ UNCHANGED <<panel, run>>

(***************************************************************************)
(* Next.                                                                   *)
(***************************************************************************)
Guest(o) ==
    \/ Open(o) \/ Close(o)
    \/ Capture(o) \/ \E on \in BOOLEAN : SetCaptureMode(o, on)

Permission(o) == Granted(o) \/ Denied(o)

RunStep(o) ==
    \/ LoadReader(o) \/ LoadReaderFails(o)
    \/ \E zooms \in BOOLEAN : Play(o, zooms)
    \/ Zoom(o) \/ NextFrame(o) \/ NothingRead(o) \/ CodeRead(o) \/ FrameCaptured(o)

Shot(o) == CaptureTaken(o) \/ CaptureFails(o)

Next == \E o \in Openings : Guest(o) \/ Permission(o) \/ RunStep(o) \/ Shot(o)

Spec == Init /\ [][Next]_vars

\* Awaited calls settle and timers fire, except that a permission prompt may
\* stay unanswered.
FairSpec == Spec /\ \A o \in Openings : WF_vars(RunStep(o)) /\ WF_vars(Shot(o))

(***************************************************************************)
(* Properties.                                                             *)
(***************************************************************************)

TypeOK ==
    /\ panel \in Openings \cup {None}
    /\ run \in [Openings -> Run]
    /\ shot \in [Openings -> {"none", "taking", "taken"}]

\* The camera is live only for the panel on screen: no order of closing,
\* reopening and permission leaves its indicator lit (QrCamera's cleanup and
\* the check after getUserMedia).
CameraReleased == \A o \in Openings : run[o].stream = "live" => panel = o

\* What a run hands over is a frame of a live camera, of a panel on screen that
\* said it was scanning: what a closed panel goes on to read neither fills the
\* form nor closes the panel opened since (the checks after each await).
HandsOverWhileOpen ==
    [][\A o \in Openings : run'[o].handed /\ ~run[o].handed =>
          panel = o /\ run[o].stream = "live" /\ run[o].state = "scanning"]_vars

\* A run comes to its end once its panel is closed, unless the browser's
\* permission prompt is left unanswered (the scanning loop).
ClosedRunEnds ==
    \A o \in Openings :
        (panel # o /\ run[o].pc \in Active) ~> run[o].pc \in {"asking", "done"}
=============================================================================
