----------------------------- MODULE ScaleStack -----------------------------
(***************************************************************************)
(* What lib/util/scale.h promises to its callers: a stack of buffers that  *)
(* live in one allocation.  A buffer keeps its contents for as long as it  *)
(* is on the stack, whatever happens to the others; only the top one can   *)
(* be resized or dropped, the bottom one is never dropped, and a failed    *)
(* allocation loses all of them at once.  The callers are the parameter    *)
(* tables of the kernels (one buffer per kernel, lib/emit/decl_glob_obj.h  *)
(* 71-90) and the operator stack of the expression compiler                *)
(* (lib/emit/expr.h 510-514).                                              *)
(***************************************************************************)
EXTENDS Naturals, Sequences

CONSTANTS
    Cell,       \* what one cell of memory may hold
    Sizes       \* the buffer sizes the callers ask for

VARIABLE stack  \* the buffers, bottom first; << >> when there is no memory

Buffer == UNION { [1..n -> Cell] : n \in Sizes }

\* Common(b, c): b and c agree on the cells both have.
Common(b, c) == \A i \in DOMAIN b \cap DOMAIN c : b[i] = c[i]

Init == stack = << >>

\* A bottom buffer replaces whatever was there.  What a fresh buffer holds
\* is not promised.
Boot == \E b \in Buffer : stack' = << b >>

Lose == stack' = << >>

Push == /\ stack # << >>
        /\ \E b \in Buffer : stack' = Append(stack, b)

Resize == /\ stack # << >>
          /\ \E b \in Buffer :
                /\ Common(b, stack[Len(stack)])
                /\ stack' = [stack EXCEPT ![Len(stack)] = b]

Pop == /\ Len(stack) > 1
       /\ stack' = SubSeq(stack, 1, Len(stack) - 1)

Poke == \E i \in DOMAIN stack : \E j \in DOMAIN stack[i], c \in Cell :
            stack' = [stack EXCEPT ![i][j] = c]

Next == Boot \/ Lose \/ Push \/ Resize \/ Pop \/ Poke

Spec == Init /\ [][Next]_stack
=============================================================================
