--------------------------- MODULE MCLinearMemory ---------------------------
(* LinearMemory with a few bytes, two alignments and nested calls.          *)
EXTENDS LinearMemory
=============================================================================
