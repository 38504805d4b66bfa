------------------------------- MODULE MCExpr -------------------------------
(* Two expressions of up to six nodes, of every kind of node.             *)
EXTENDS Expr

MCKinds == AllKinds
MCOperators == {"literal", "load", "op"}
=============================================================================
