------------------------------ MODULE MCSection ------------------------------
(* A section of at most nine words in an address space of 19.              *)
EXTENDS Section

MCOperands == 0..2
MCLengths == {1, 4, 5}
=============================================================================
