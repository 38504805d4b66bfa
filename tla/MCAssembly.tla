----------------------------- MODULE MCAssembly -----------------------------
(* Two words in three sections and one in the others, or none.             *)
EXTENDS Assembly

MCRoom == [s \in Sections |-> IF s \in {"decorate", "types", "fndef"} THEN 2 ELSE 1]
=============================================================================
