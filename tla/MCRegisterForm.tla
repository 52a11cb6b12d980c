--------------------------- MODULE MCRegisterForm ---------------------------
(***************************************************************************)
(* RegisterForm for TLC.  Photos and ID numbers are interchangeable.       *)
(***************************************************************************)
EXTENDS RegisterForm, TLC

Symmetry == Permutations(Photos) \cup Permutations(Numbers)
=============================================================================
