--------------------------- MODULE MCRegistrations ---------------------------
(***************************************************************************)
(* Registrations on small instances.  Keys, registrations, staff and the   *)
(* other request slots are interchangeable, so the safety runs use         *)
(* symmetry; the liveness run does not.                                    *)
(***************************************************************************)
EXTENDS Registrations, TLC

Symmetry == Permutations(Keys) \cup Permutations(RegIds) \cup Permutations(Staff)
=============================================================================
