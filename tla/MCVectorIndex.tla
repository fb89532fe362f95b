--------------------------- MODULE MCVectorIndex ---------------------------
(* VectorIndex for TLC: every constant has its value in the .cfg. *)
EXTENDS VectorIndex
=============================================================================
