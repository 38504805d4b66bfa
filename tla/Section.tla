------------------------------- MODULE Section -------------------------------
(***************************************************************************)
(* A section of the module under construction (m_section.X with its count  *)
(* m_count.X) and the emitters that append to it: util_emit_wrd,           *)
(* util_emit_str, util_emitx_2 to util_emitx_8 and the opcode that is      *)
(* completed afterwards (lib/util/wrdemit.h, emitx.h), and the copies that *)
(* grow a section to the exact size (lib/emit/expr.h 700-727, lib/aclspv.c *)
(* 221-239).                                                               *)
(*                                                                         *)
(* Sizes are bytes in 32 bits, and always a multiple of the four bytes of  *)
(* a word: the model counts words, modulo the 2^30 that 32 bits of bytes   *)
(* can address.  An instruction has fewer than 2^16 words.                 *)
(***************************************************************************)
EXTENDS Integers, Sequences

CONSTANTS
    Words,      \* 2^30, the words a size of 32 bits can count
    Limit,      \* bound: words in the section
    Operands,   \* the numbers of operands util_emitx_* are called with
    Lengths     \* the lengths of strings, with the null, in bytes

ASSUME WordsAssumption == Words \in Nat /\ Limit \in Nat
\* Below half of the address space the doubled size does not wrap.
ASSUME LimitAssumption == 2 * Limit < Words
ASSUME EmissionAssumption == Operands \subseteq Nat /\ Lengths \subseteq Nat \ {0}

VARIABLES
    cap,        \* the words of the vector; 0 when m_p is NULL
    mem,        \* its words
    count,      \* m_count
    pos,        \* the instruction whose operands are being emitted, or None
    blank       \* history: the words below were lost while count was kept

vars == << cap, mem, count, pos, blank >>

None == -1

\* A word begins an instruction of len words, or is an operand.
HeadWord(len) == [head |-> TRUE, len |-> len]
Operand == [head |-> FALSE, len |-> 0]
Zero == [head |-> FALSE, len |-> 1]
HeadWords == [head : {TRUE}, len : Nat]
Word == [head : BOOLEAN, len : Nat]

\* opcode_to_wrd: the instruction counts its first word.
Opcode(n) == HeadWord(n + 1)

\* count_to_sz, and the comparison with m_sz
Wrap(n) == n % Words

\* Mutant: a quarter of the room asked for is enough.
MutRoom(n) == IF Wrap(n) > Wrap(cap) /\ Wrap(4 * n) > cap THEN Wrap(4 * n) ELSE cap

\* The room of the vector after util_emit_wrd asked for n words: it doubles.
Room(n) == IF Wrap(n) > Wrap(cap) /\ Wrap(2 * n) > cap THEN Wrap(2 * n) ELSE cap

\* The room after a copy or a string asked for n words: not a word more.
ExactRoom(n) == IF Wrap(n) > cap THEN Wrap(n) ELSE cap

\* Mutant: the last word is not copied.
MutMoved(room) == [i \in 0..(room - 1) |-> IF i + 1 < cap THEN mem[i] ELSE Zero]

\* Memory of calloc, behind the old contents.
Moved(room) == [i \in 0..(room - 1) |-> IF i < cap THEN mem[i] ELSE Zero]

\* The words ws written behind the others, in an allocation of room words.
Written(ws, room) ==
    [i \in 0..(room - 1) |->
        IF i \in count..(count + Len(ws) - 1) THEN ws[i - count + 1] ELSE Moved(room)[i]]

Fits(n) == count + n <= Limit

Appends(ws, room) == /\ Fits(Len(ws))
                     /\ cap' = room
                     /\ mem' = Written(ws, room)
                     /\ count' = count + Len(ws)

NoWords == [i \in {} |-> Zero]

\* Mutant: the instruction stays open.
MutLoses(n, room) == /\ Fits(n)
                     /\ room # cap
                     /\ cap' = 0 /\ mem' = NoWords
                     /\ count' = 0 /\ blank' = 0
                     /\ UNCHANGED pos

\* The vector cannot grow; the emitter answers 0, and that is the new count.
Loses(n, room) == /\ Fits(n)
                  /\ room # cap
                  /\ cap' = 0 /\ mem' = NoWords
                  /\ count' = 0 /\ blank' = 0
                  /\ pos' = None
------------------------------------------------------------------------------
Init == /\ cap = 0 /\ mem = NoWords
        /\ count = 0 /\ blank = 0
        /\ pos = None

\* util_emitx_N: the last operand is emitted first, at its place; the words
\* before it are written into the memory that is then there.
Instruction(n) == << Opcode(n) >> \o [i \in 1..n |-> Operand]

Emitx(n) == /\ pos = None
            /\ Appends(Instruction(n), Room(count + n + 1))
            /\ UNCHANGED << pos, blank >>
EmitxFails(n) == pos = None /\ Loses(n + 1, Room(count + n + 1))

\* emit_opcode with a count of operands that is not known yet.
EmitOpcode == /\ pos = None
              /\ Appends(<< Opcode(0) >>, Room(count + 1))
              /\ pos' = count
              /\ UNCHANGED blank
EmitOpcodeFails == pos = None /\ Loses(1, Room(count + 1))

\* util_emit_wrd
EmitWrd == /\ pos # None
           /\ Appends(<< Operand >>, Room(count + 1))
           /\ UNCHANGED << pos, blank >>
EmitWrdFails == pos # None /\ Loses(1, Room(count + 1))

\* util_emit_str: the string, its null, and zeros up to the end of the word.
PadWrds(len) == (IF len % 4 # 0 THEN 1 ELSE 0) + len \div 4
Str(len) == [i \in 1..PadWrds(len) |-> IF 4 * (i - 1) = len - 1 THEN Zero ELSE Operand]

EmitStr(len) == /\ pos # None
                /\ Appends(Str(len), ExactRoom(count + PadWrds(len)))
                /\ UNCHANGED << pos, blank >>
EmitStrFails(len) == pos # None /\ Loses(PadWrds(len), ExactRoom(count + PadWrds(len)))

\* Mutant: the first word is counted twice.
MutSetOprndCount == /\ pos # None
                    /\ mem' = [mem EXCEPT ![pos] = Opcode(count - pos)]
                    /\ pos' = None
                    /\ UNCHANGED << cap, count, blank >>

\* set_oprnd_count_for_opcode
SetOprndCount == /\ pos # None
                 /\ mem' = [mem EXCEPT ![pos] = Opcode(count - pos - 1)]
                 /\ pos' = None
                 /\ UNCHANGED << cap, count, blank >>

\* An instruction is copied from a scale (expr.h), or those of a body from
\* another section (aclspv.c), instruction by instruction here.
Copy(n) == /\ pos = None
           /\ Appends(Instruction(n), ExactRoom(count + n + 1))
           /\ UNCHANGED << pos, blank >>

\* Here the count is not touched when the vector is lost.
CopyFails(n) == /\ pos = None
                /\ Fits(n + 1)
                /\ ExactRoom(count + n + 1) # cap
                /\ cap' = 0 /\ mem' = NoWords
                /\ blank' = count
                /\ UNCHANGED << count, pos >>

\* The callers have no more instructions for this section.
Done == pos = None /\ UNCHANGED vars

Next == \/ \E n \in Operands : \/ Emitx(n) \/ EmitxFails(n)
                               \/ Copy(n) \/ CopyFails(n)
        \/ EmitOpcode \/ EmitOpcodeFails
        \/ EmitWrd \/ EmitWrdFails
        \/ \E len \in Lengths : EmitStr(len) \/ EmitStrFails(len)
        \/ SetOprndCount
        \/ Done

Spec == Init /\ [][Next]_vars
------------------------------------------------------------------------------
(***************************************************************************)
(* Properties                                                              *)
(***************************************************************************)
\* The state has its type.
TypeOK ==
    /\ cap \in Nat
    /\ mem \in [0..(cap - 1) -> Word]
    /\ count \in Nat
    /\ blank \in 0..count
    /\ pos \in 0..(count - 1) \cup {None}

\* Every word counted is a word of the allocation, whichever emitter grew it
\* last, by half of its size or to the word; when a copy lost the allocation,
\* the count stands for words nobody has written since.
WithinAllocation == IF cap = 0 THEN count = blank ELSE count <= cap

\* The instructions tile the section: each says how many words it has, and the
\* next one begins there; the one that is still open reaches to the end.  An
\* emitter and the count of its operands are written in two places, and a
\* string decides for itself how many words it takes.
Tiles(m, from, to) ==
    /\ to > from => m[from].head
    /\ \A h \in from..(to - 1) : m[h].head =>
          /\ h + m[h].len \in (h + 1)..to
          /\ h + m[h].len = to \/ m[h + m[h].len].head
          /\ \A i \in (h + 1)..(h + m[h].len - 1) : ~m[i].head

Reaches(m, from, to) == m[from].head /\ \A i \in (from + 1)..(to - 1) : ~m[i].head

Ends == IF pos = None THEN count ELSE pos

Tiled ==
    cap # 0 =>
        /\ Tiles(mem, blank, Ends)
        /\ pos # None => Reaches(mem, pos, count)

\* The section as a log of words: those of a lost allocation read as zero once
\* there is one again.
Contents == [i \in 1..count |-> IF cap # 0 THEN mem[i - 1] ELSE Zero]

Log == INSTANCE WordLog WITH log <- Contents, Heads <- HeadWords, Blank <- Zero

\* Whatever the allocation does, words that were emitted stay where they are.
ImplementsLog == Log!Spec
=============================================================================
