---------------------------- MODULE MCStaffPages ----------------------------
(***************************************************************************)
(* StaffPages with one tab, two registrations and a colleague elsewhere.   *)
(***************************************************************************)
EXTENDS StaffPages
=============================================================================
