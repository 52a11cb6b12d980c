------------------------------ MODULE MCServer ------------------------------
(***************************************************************************)
(* Server with two scan requests, which may share a worker or each drop    *)
(* the other's.                                                            *)
(***************************************************************************)
EXTENDS Server
=============================================================================
