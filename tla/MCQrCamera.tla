----------------------------- MODULE MCQrCamera -----------------------------
(***************************************************************************)
(* QrCamera with a panel opened three times.                               *)
(***************************************************************************)
EXTENDS QrCamera
=============================================================================
