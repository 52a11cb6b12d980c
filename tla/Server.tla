------------------------------- MODULE Server -------------------------------
(***************************************************************************)
(* The life of the process the scans run in, in both ways it is deployed:  *)
(* a process that starts, listens and is shut down by a signal             *)
(* (src/index.js), and a function instance whose invocations share one     *)
(* preparation (api/index.js).                                             *)
(***************************************************************************)
EXTENDS DocumentScan

VARIABLES
    host,     \* "process" or "function"
    phase,    \* of the process; an instance only serves
    code,     \* the exit code, "signal" when no handler was installed yet
    ready,    \* the shared preparation, named by the invocation that began it
    attempt,  \* every preparation begun
    awaits    \* the preparation each invocation waits for

lifeVars == <<host, phase, code, ready, attempt, awaits>>
vars == <<scanVars, lifeVars>>

Phases == {"storage", "decoder", "serving", "closing", "disconnecting", "exited"}

Init ==
    /\ ScanInit
    /\ host \in {"process", "function"}
    /\ phase = IF host = "process" THEN "storage" ELSE "serving"
    /\ code = "none"
    /\ ready = None
    /\ attempt = [q \in Requests |-> "none"]
    /\ awaits = [q \in Requests |-> None]

(***************************************************************************)
(* index.js                                                                *)
(***************************************************************************)
StorageInit ==
    /\ phase = "storage"
    /\ phase' = "decoder"
    /\ WarmUp
    /\ UNCHANGED <<current, worker, request, host, code, ready, attempt, awaits>>

StartFails ==
    /\ phase = "storage"
    /\ phase' = "exited" /\ code' = "1"
    /\ UNCHANGED <<scanVars, host, ready, attempt, awaits>>

\* initQrDecoder returns even when the decoder could not be loaded.
Listen ==
    /\ phase = "decoder"
    /\ Settled
    /\ phase' = "serving"
    /\ UNCHANGED <<scanVars, host, code, ready, attempt, awaits>>

\* The handlers are installed after listen: an earlier signal just ends it.
SignalEarly ==
    /\ phase \in {"storage", "decoder"}
    /\ phase' = "exited" /\ code' = "signal"
    /\ UNCHANGED <<scanVars, host, ready, attempt, awaits>>

\* Fault: the database is disconnected without waiting for the listener.
ShutdownAtOnce ==
    /\ host = "process" /\ phase = "serving"
    /\ phase' = "disconnecting"
    /\ UNCHANGED <<scanVars, host, code, ready, attempt, awaits>>

\* SIGTERM, SIGINT, an uncaught exception or an unhandled rejection.  Later
\* ones find shuttingDown set.
Shutdown ==
    /\ host = "process" /\ phase = "serving"
    /\ phase' = "closing"
    /\ UNCHANGED <<scanVars, host, code, ready, attempt, awaits>>

\* server.close calls back when the last request has been answered.
Closed ==
    /\ phase = "closing"
    /\ \A q \in Requests : ~InFlight(q)
    /\ phase' = "disconnecting"
    /\ UNCHANGED <<scanVars, host, code, ready, attempt, awaits>>

\* prisma.$disconnect, whether it throws or not.
Disconnected ==
    /\ phase = "disconnecting"
    /\ phase' = "exited" /\ code' = "0"
    /\ UNCHANGED <<scanVars, host, ready, attempt, awaits>>

\* Fault: the timer is armed where it is cleared, once the listener closed.
ForceExitLate ==
    /\ phase = "disconnecting"
    /\ phase' = "exited" /\ code' = "1"
    /\ UNCHANGED <<scanVars, host, ready, attempt, awaits>>

\* Ten seconds after the signal.
ForceExit ==
    /\ phase \in {"closing", "disconnecting"}
    /\ phase' = "exited" /\ code' = "1"
    /\ UNCHANGED <<scanVars, host, ready, attempt, awaits>>

(***************************************************************************)
(* api/index.js                                                            *)
(***************************************************************************)

\* ensureReady: join the preparation under way or done, or begin one.
Invoke(q) ==
    /\ host = "function"
    /\ request[q].pc = "new" /\ awaits[q] = None
    /\ IF ready = None
       THEN /\ ready' = q
            /\ attempt' = [attempt EXCEPT ![q] = "running"]
            /\ awaits' = [awaits EXCEPT ![q] = q]
            /\ WarmUp
       ELSE /\ awaits' = [awaits EXCEPT ![q] = ready]
            /\ UNCHANGED <<ready, attempt, zxing>>
    /\ UNCHANGED <<current, worker, request, host, phase, code>>

Prepared(a) ==
    /\ attempt[a] = "running"
    /\ Settled
    /\ attempt' = [attempt EXCEPT ![a] = "ok"]
    /\ UNCHANGED <<scanVars, host, phase, code, ready, awaits>>

\* storage.init rejects; the next invocation begins again.
PreparationFails(a) ==
    /\ attempt[a] = "running"
    /\ attempt' = [attempt EXCEPT ![a] = "failed"]
    /\ ready' = None
    /\ UNCHANGED <<scanVars, host, phase, code, awaits>>

\* Fault: the catch is the handler's own, so every invocation that waited for the
\* failed preparation forgets the one that ready names by then.
InvocationFailsForgets(q) ==
    /\ request[q].pc = "new"
    /\ awaits[q] # None
    /\ attempt[awaits[q]] = "failed"
    /\ Becomes(q, [request[q] EXCEPT !.pc = "done", !.answer = "error"])
    /\ ready' = None
    /\ UNCHANGED <<zxing, current, worker, host, phase, code, attempt, awaits>>

\* The await in the handler throws.
InvocationFails(q) ==
    /\ request[q].pc = "new"
    /\ awaits[q] # None
    /\ attempt[awaits[q]] = "failed"
    /\ Becomes(q, [request[q] EXCEPT !.pc = "done", !.answer = "error"])
    /\ UNCHANGED <<zxing, current, worker, lifeVars>>

(***************************************************************************)
(* The scans, while there is a process to run them.                        *)
(***************************************************************************)

\* A process takes requests while it listens, an instance once it is prepared.
Accepts(q) ==
    \/ host = "process" /\ phase = "serving"
    \/ host = "function" /\ awaits[q] # None /\ attempt[awaits[q]] = "ok"

Accept(q) == Accepts(q) /\ Receive(q) /\ UNCHANGED lifeVars

Alive == phase # "exited"

Run(step) == Alive /\ step /\ UNCHANGED lifeVars

Starts == StorageInit \/ StartFails \/ Listen \/ SignalEarly

Stops == Shutdown \/ Closed \/ Disconnected \/ ForceExit

Prepares == \E q \in Requests : Invoke(q) \/ Prepared(q) \/ PreparationFails(q) \/ InvocationFails(q)

Scans ==
    \/ Run(LoadZXing) \/ Run(Tesseract)
    \/ \E q \in Requests : \/ Accept(q)
                           \/ Run(Store(q)) \/ Run(ReadQr(q)) \/ Run(ReadPrint(q)) \/ Run(Budget(q))

Next == Starts \/ Stops \/ Prepares \/ Scans

Spec == Init /\ [][Next]_vars

(***************************************************************************)
(* Storage and the wasm load settle, decoding ends, timers fire, and the   *)
(* event loop runs what is ready.  Nothing is assumed of tesseract.        *)
(***************************************************************************)
FairSpec ==
    /\ Spec
    /\ WF_vars(StorageInit \/ StartFails) /\ WF_vars(Listen)
    /\ WF_vars(ForceExit)
    /\ WF_vars(Run(LoadZXing))
    /\ \A q \in Requests :
          /\ WF_vars(Prepared(q) \/ PreparationFails(q)) /\ WF_vars(InvocationFails(q))
          /\ WF_vars(host = "function" /\ Accept(q))
          /\ WF_vars(Run(Store(q))) /\ WF_vars(Run(ReadQr(q))) /\ WF_vars(Run(Budget(q)))

(***************************************************************************)
(* Properties.                                                             *)
(***************************************************************************)

TypeOK ==
    /\ zxing \in {"cold", "loading", "ready", "failed"}
    /\ current \in Requests \cup {None}
    /\ worker \in [Requests -> Worker]
    /\ request \in [Requests -> Request]
    /\ host \in {"process", "function"}
    /\ phase \in Phases
    /\ code \in {"none", "0", "1", "signal"}
    /\ ready \in Requests \cup {None}
    /\ attempt \in [Requests -> {"none", "running", "ok", "failed"}]
    /\ awaits \in [Requests -> Requests \cup {None}]

\* A failed scan is never an error condition: once the photo is stored,
\* whatever fails after, the answer is a 200 that carries the key
\* (document.controller scan).
KeyAlwaysReturned ==
    \A q \in Requests :
        request[q].stored => request[q].answer \in {"none", "fields", "printed", "message"}

\* A worker one reading gave up on, for its budget or for a failure, is not
\* handed to a later one, although others may still hold it and drop other
\* workers when their own time is up (getWorker, readAadhaarCard).
AbandonedNotReused ==
    \A q \in Requests :
        request[q].ocr \in {"failed", "timeout"} => current # request[q].worker

\* A region is recognised in the mode of another only through another request
\* that holds the same worker (readRegions).
CrossTalkNeedsSharing ==
    \A q \in Requests : request[q].garbled =>
        \E p \in Requests \ {q} : request[p].worker = request[q].worker

\* A process that reports a clean exit has answered everything it took
\* (index.js shutdown).
CleanExitDropsNothing == code = "0" => \A q \in Requests : ~InFlight(q)

\* "A cold start pays for both of these once": of all the preparations begun, the
\* one that new invocations join is the only one under way or done, however many
\* invocations wait for one that failed and whenever they learn of it.  So no two
\* are under way at once, none is begun after one succeeded, and nobody joins one
\* that has failed (ensureReady).
ColdStartPaidOnce == \A a \in Requests : attempt[a] \in {"running", "ok"} <=> ready = a

\* Every scan is answered, though a worker may hang and a decoder fail to
\* load, unless the process ends first; an invocation is answered as well.
ScanEnds ==
    \A q \in Requests :
        (InFlight(q) \/ awaits[q] # None) ~> (request[q].answer # "none" \/ phase = "exited")

\* A signalled process ends, whatever its requests do.
ShutdownEnds == phase = "closing" ~> phase = "exited"
=============================================================================
