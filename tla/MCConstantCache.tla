--------------------------- MODULE MCConstantCache ---------------------------
(* Two word counts that share a structure of vectors (a quarter of each,    *)
(* rounded up, is 1), and a default type of each form.                      *)
EXTENDS ConstantCache

MCWanted == {"U32", "U64", "U64_PTR", "U32V4_INP"}
=============================================================================
