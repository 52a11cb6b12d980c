--------------------------- MODULE MCStaffSessions ---------------------------
(***************************************************************************)
(* StaffSessions on a small instance: two sign-ins for one account, from   *)
(* one browser, and a request that may carry either token, against two     *)
(* operator scripts.                                                       *)
(***************************************************************************)
EXTENDS StaffSessions
=============================================================================
