------------------------------- MODULE MCScale -------------------------------
(* A small instance of Scale: a one-cell header, two-cell records, buffers *)
(* of 0 to 2 cells and an allocation of at most MaxCap cells.               *)
EXTENDS Scale

MCSizes == 0..2
=============================================================================
