------------------------------ MODULE Disposal ------------------------------
(***************************************************************************)
(* What the front desk is promised about ID images, with no requests, no   *)
(* retries and no failures in sight: an image is stored once and, once     *)
(* gone, stays gone; a registration is never reviewed, and never recorded  *)
(* as disposed of, while one of the images it was submitted with is kept.  *)
(***************************************************************************)
CONSTANTS Keys, RegIds

VARIABLES
    bucket,     \* the images that are stored
    used,       \* every key ever given to an image
    known,      \* the registrations
    attached,   \* the images each registration was submitted with
    disposed,   \* registrations whose record says the images were deleted
    reviewed    \* registrations with a review decision

vars == <<bucket, used, known, attached, disposed, reviewed>>

Init ==
    /\ bucket = {} /\ used = {} /\ known = {}
    /\ attached = [id \in RegIds |-> {}]
    /\ disposed = {} /\ reviewed = {}

Store(k) ==
    /\ k \in Keys \ used
    /\ used' = used \cup {k}
    /\ bucket' = bucket \cup {k}
    /\ UNCHANGED <<known, attached, disposed, reviewed>>

Discard(k) ==
    /\ k \in bucket
    /\ bucket' = bucket \ {k}
    /\ UNCHANGED <<used, known, attached, disposed, reviewed>>

Submit(id, images) ==
    /\ id \in RegIds \ known
    /\ known' = known \cup {id}
    /\ attached' = [attached EXCEPT ![id] = images]
    /\ UNCHANGED <<bucket, used, disposed, reviewed>>

\* The decision and the disposal record are one write, and only once no image
\* of the registration is left.
Decide(id) ==
    /\ id \in known
    /\ attached[id] \cap bucket = {}
    /\ reviewed' = reviewed \cup {id}
    /\ disposed' = IF attached[id] = {} THEN disposed ELSE disposed \cup {id}
    /\ UNCHANGED <<bucket, used, known, attached>>

\* Staff may set a registration back to PENDING; its images do not come back.
Reopen(id) ==
    /\ reviewed' = reviewed \ {id}
    /\ UNCHANGED <<bucket, used, known, attached, disposed>>

Next ==
    \/ \E k \in Keys : Store(k) \/ Discard(k)
    \/ \E id \in RegIds, images \in SUBSET used : Submit(id, images)
    \/ \E id \in RegIds : Decide(id) \/ Reopen(id)

Spec == Init /\ [][Next]_vars
=============================================================================
