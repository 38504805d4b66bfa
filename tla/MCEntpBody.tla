----------------------------- MODULE MCEntpBody -----------------------------
(* Two kernels, the one compiled second (kernel 1) with one parameter.  *)
EXTENDS EntpBody

MCParams == << 1, 0 >>
=============================================================================
