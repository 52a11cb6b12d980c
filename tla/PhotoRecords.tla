---------------------------- MODULE PhotoRecords ----------------------------
(***************************************************************************)
(* What the table of registrations says about photos, with no requests and *)
(* no bucket: a registration is submitted with its photos and loses them   *)
(* all in one step, which reports their deletion; nothing else is ever     *)
(* written to these columns.  The handlers implement this module in many   *)
(* steps, and the staff pages rely on it.                                  *)
(***************************************************************************)
CONSTANTS Ids, Photos

VARIABLES
    known,    \* the registrations
    photos,   \* the photos each one points at
    deleted   \* those whose record reports that the photos were deleted

vars == <<known, photos, deleted>>

Init ==
    /\ known \in SUBSET Ids
    /\ photos \in [Ids -> SUBSET Photos]
    /\ deleted = {}

Submit(id) ==
    /\ id \in Ids \ known
    /\ known' = known \cup {id}
    /\ \E taken \in SUBSET Photos : photos' = [photos EXCEPT ![id] = taken]
    /\ UNCHANGED deleted

\* "Both sides go together."
Delete(id) ==
    /\ id \in known
    /\ photos[id] # {}
    /\ photos' = [photos EXCEPT ![id] = {}]
    /\ deleted' = deleted \cup {id}
    /\ UNCHANGED known

Next == \E id \in Ids : Submit(id) \/ Delete(id)

Spec == Init /\ [][Next]_vars
=============================================================================
