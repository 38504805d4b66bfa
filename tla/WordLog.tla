------------------------------- MODULE WordLog -------------------------------
(***************************************************************************)
(* What the word emitters (lib/util/wrdemit.h, emitx.h) promise to the     *)
(* callers that keep a section of the module: a log of words.  Words are   *)
(* added behind the others and stay as they are; only the first word of an *)
(* instruction is written again, once its operands are known, and only     *)
(* while it is the last instruction.  A section that runs out of memory is *)
(* lost as a whole: it starts again from nothing, or, where the caller     *)
(* keeps the count, from as many words of zero.                            *)
(***************************************************************************)
EXTENDS Naturals, Sequences

CONSTANTS
    Word,       \* what a word of the section may be
    Heads,      \* the words an instruction may begin with
    Blank       \* a word nobody wrote

VARIABLE log

Init == log = << >>

Extend == /\ log' \in Seq(Word)
          /\ Len(log') > Len(log)
          /\ \A i \in DOMAIN log : log'[i] = log[i]

\* The i-th word is the first of the last instruction.
Complete == \E i \in DOMAIN log :
                /\ log[i] \in Heads
                /\ \A j \in DOMAIN log : j > i => log[j] \notin Heads
                /\ log' \in Seq(Word)
                /\ DOMAIN log' = DOMAIN log
                /\ log'[i] \in Heads
                /\ \A j \in DOMAIN log \ {i} : log'[j] = log[j]

Lose == log' = << >>

Erase == log' = [i \in DOMAIN log |-> Blank]

Next == Extend \/ Complete \/ Lose \/ Erase

Spec == Init /\ [][Next]_log
=============================================================================
