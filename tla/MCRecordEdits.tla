--------------------------- MODULE MCRecordEdits ---------------------------
(***************************************************************************)
(* RecordEdits with two members of staff and stays over two dates.  *)
(***************************************************************************)
EXTENDS RecordEdits, TLC

Symmetry == Permutations(Staff)
=============================================================================
