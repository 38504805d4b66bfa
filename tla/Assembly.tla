------------------------------ MODULE Assembly ------------------------------
(***************************************************************************)
(* The sections of the module under construction, and impl_asm, which      *)
(* copies them behind a header into one allocation (lib/impl/asm.h); then  *)
(* the cleanup that hands it to the caller (lib/aclspv.c 267-308).         *)
(*                                                                         *)
(* What the words say is for the other modules: here the k-th word that    *)
(* was emitted into section s is << s, k >>.                               *)
(***************************************************************************)
EXTENDS Naturals, Sequences

CONSTANTS
    Room        \* bound: the words of each section

\* The order the sections have in a module.
Order == << "capability", "ext", "memmodel", "entp", "execmode",
            "name", "decorate", "types", "vars", "fndef" >>
Sections == { Order[i] : i \in DOMAIN Order }

ASSUME RoomAssumption == Room \in [Sections -> Nat]

VARIABLES
    pc,         \* "emit", "copy", "cleanup", "returned" or "crashed"
    section,    \* per section: is there memory, and the words counted
    err,        \* m_err: whether it is ALLOC_FAILED
    ret,        \* m_ret, word by word; empty when m_p is NULL
    numRet,     \* m_num_ret
    copied,     \* the sections copied so far
    output      \* *rwr_output and *rwr_output_count_opt after the return

vars == << pc, section, err, ret, numRet, copied, output >>

HeaderWords == 5
Nothing == << >>
Blank == << "blank", 0 >>
Garbage == << "garbage", 0 >>
Number(n) == << "number", n >>
NoSection == [held |-> FALSE, words |-> << >>]

Count(s) == Len(section[s].words)

Header(n) == << << "magic", 0 >>, << "version", 0 >>, Number(0), Number(n), Number(0) >>
------------------------------------------------------------------------------
Init == /\ pc = "emit"
        /\ section = [s \in Sections |-> NoSection]
        /\ err = FALSE
        /\ ret = Nothing /\ numRet = 0
        /\ copied = 0
        /\ output = [wanted |-> FALSE, words |-> Nothing, count |-> 0]

\* An instruction of the section; a section that was lost begins with zeros.
Emit(s) ==
    /\ pc = "emit"
    /\ Count(s) < Room[s]
    /\ section' = [section EXCEPT ![s] =
          [held |-> TRUE, words |-> Append(@.words, << s, Len(@.words) + 1 >>)]]
    /\ UNCHANGED << pc, err, ret, numRet, copied, output >>

\* The emitters answer 0, and their callers leave for the cleanup; unless
\* nobody looks at the answer, which happens to the default types before the
\* bodies, to the makers other makers call and to the operands of an expression.
Unwatched == {"name", "decorate", "types"}

EmitFails(s) ==
    /\ pc = "emit"
    /\ Count(s) < Room[s]
    /\ section' = [section EXCEPT ![s] = NoSection]
    /\ \/ err' = TRUE /\ pc' = "cleanup"
       \/ s \in Unwatched /\ UNCHANGED << err, pc >>
    /\ UNCHANGED << ret, numRet, copied, output >>

\* The copy of a constant operator (expr.h): the memory is lost, the count is
\* kept, and emit_get_expr does not say so.
ExprFails ==
    /\ pc = "emit"
    /\ Count("types") < Room["types"]
    /\ section' = [section EXCEPT !["types"] =
          [held |-> FALSE, words |-> [i \in DOMAIN @.words |-> Blank]]]
    /\ err' = TRUE
    /\ UNCHANGED << pc, ret, numRet, copied, output >>

\* Every cursor of an expression ends in m_err = ACLSPV_COMPILE_OK.
ExprSucceeds ==
    /\ pc = "emit" /\ err
    /\ err' = FALSE
    /\ UNCHANGED << pc, section, ret, numRet, copied, output >>

\* m_err is looked at after every function, and once more before impl_asm.
GiveUp ==
    /\ pc = "emit" /\ err
    /\ pc' = "cleanup"
    /\ UNCHANGED << section, err, ret, numRet, copied, output >>

\* m_num_ret
Total == Count("capability") + Count("ext") + Count("memmodel") + Count("entp")
         + Count("execmode") + Count("name") + Count("decorate") + Count("types")
         + Count("vars") + Count("fndef") + HeaderWords

\* Mutant: the allocation has no room for the last word.
MutStartAsm ==
    /\ pc = "emit" /\ ~err
    /\ numRet' = Total
    /\ ret' = [i \in 1..(Total - 1) |-> IF i <= HeaderWords THEN Header(Total)[i] ELSE Garbage]
    /\ pc' = "copy"
    /\ UNCHANGED << section, err, copied, output >>

\* Memory of malloc, and the header.
StartAsm ==
    /\ pc = "emit" /\ ~err
    /\ numRet' = Total
    /\ ret' = [i \in 1..Total |-> IF i <= HeaderWords THEN Header(Total)[i] ELSE Garbage]
    /\ pc' = "copy"
    /\ UNCHANGED << section, err, copied, output >>

\* Mutant: the failure is not reported.
MutStartAsmFails ==
    /\ pc = "emit" /\ ~err
    /\ numRet' = Total
    /\ pc' = "cleanup"
    /\ UNCHANGED << section, err, ret, copied, output >>

StartAsmFails ==
    /\ pc = "emit" /\ ~err
    /\ numRet' = Total
    /\ err' = TRUE
    /\ pc' = "cleanup"
    /\ UNCHANGED << section, ret, copied, output >>

\* Mutant: one of the ten sums forgets a section.
MutOffset(n) ==
    LET sum[i \in 0..9] ==
            IF i = 0 THEN HeaderWords
            ELSE sum[i - 1] + IF n = 9 /\ Order[i] = "types" THEN 0 ELSE Count(Order[i])
    IN  sum[n - 1]

\* cpypad, a sum of its own for each section.
Offset(n) ==
    CASE n = 1 -> HeaderWords
      [] n = 2 -> HeaderWords + Count("capability")
      [] n = 3 -> HeaderWords + Count("capability") + Count("ext")
      [] n = 4 -> HeaderWords + Count("capability") + Count("ext") + Count("memmodel")
      [] n = 5 -> HeaderWords + Count("capability") + Count("ext") + Count("memmodel") + Count("entp")
      [] n = 6 -> HeaderWords + Count("capability") + Count("ext") + Count("memmodel") + Count("entp")
                    + Count("execmode")
      [] n = 7 -> HeaderWords + Count("capability") + Count("ext") + Count("memmodel") + Count("entp")
                    + Count("execmode") + Count("name")
      [] n = 8 -> HeaderWords + Count("capability") + Count("ext") + Count("memmodel") + Count("entp")
                    + Count("execmode") + Count("name") + Count("decorate")
      [] n = 9 -> HeaderWords + Count("capability") + Count("ext") + Count("memmodel") + Count("entp")
                    + Count("execmode") + Count("name") + Count("decorate") + Count("types")
      [] n = 10 -> HeaderWords + Count("capability") + Count("ext") + Count("memmodel") + Count("entp")
                    + Count("execmode") + Count("name") + Count("decorate") + Count("types") + Count("vars")

\* The words ws from word at of m_ret on.
Overwritten(at, ws) ==
    [i \in DOMAIN ret |-> IF i - at \in DOMAIN ws THEN ws[i - at] ELSE ret[i]]

Source(n) == section[Order[n]]

\* memcpy, left out for a section without words.
CopySection ==
    /\ pc = "copy" /\ copied < Len(Order)
    /\ Source(copied + 1).held \/ Source(copied + 1).words = << >>
    /\ ret' = Overwritten(Offset(copied + 1), Source(copied + 1).words)
    /\ copied' = copied + 1
    /\ UNCHANGED << pc, section, err, numRet, output >>

\* memcpy from NULL.
CopyNull ==
    /\ pc = "copy" /\ copied < Len(Order)
    /\ ~Source(copied + 1).held /\ Source(copied + 1).words # << >>
    /\ pc' = "crashed"
    /\ UNCHANGED << section, err, ret, numRet, copied, output >>

AsmEnds ==
    /\ pc = "copy" /\ copied = Len(Order)
    /\ pc' = "cleanup"
    /\ UNCHANGED << section, err, ret, numRet, copied, output >>

\* The sections are freed; the module is the caller's, or freed as well.
Return ==
    /\ pc = "cleanup"
    /\ section' = [s \in Sections |-> NoSection]
    /\ \E wanted \in BOOLEAN :
          output' = [wanted |-> wanted, count |-> numRet,
                     words |-> IF wanted THEN ret ELSE Nothing]
    /\ ret' = Nothing
    /\ pc' = "returned"
    /\ UNCHANGED << err, numRet, copied >>

Finished == pc \in {"returned", "crashed"} /\ UNCHANGED vars

Next == \/ \E s \in Sections : Emit(s) \/ EmitFails(s)
        \/ ExprFails \/ ExprSucceeds \/ GiveUp
        \/ StartAsm \/ StartAsmFails
        \/ CopySection \/ CopyNull \/ AsmEnds
        \/ Return
        \/ Finished

Spec == Init /\ [][Next]_vars
------------------------------------------------------------------------------
(***************************************************************************)
(* Properties                                                              *)
(***************************************************************************)
\* The state has its type.
SectionWord(s) == {Blank} \cup ({s} \X (1..Room[s]))
ModuleWord == { Header(0)[1], Header(0)[2], Garbage }
              \cup (UNION { SectionWord(s) : s \in Sections })
              \cup ({"number"} \X Nat)

TypeOK ==
    /\ pc \in {"emit", "copy", "cleanup", "returned", "crashed"}
    /\ section \in [Sections -> [held : BOOLEAN, words : Seq(ModuleWord)]]
    /\ \A s \in Sections : Count(s) <= Room[s] /\ section[s].words \in Seq(SectionWord(s))
    /\ err \in BOOLEAN
    /\ ret \in Seq(ModuleWord) /\ Len(ret) \in {0, numRet}
    /\ numRet \in Nat
    /\ copied \in 0..Len(Order)
    /\ output \in [wanted : BOOLEAN, words : Seq(ModuleWord), count : Nat]

\* The first n sections, one behind the other.
Code ==
    LET joined[n \in 0..Len(Order)] ==
            IF n = 0 THEN << >> ELSE joined[n - 1] \o Source(n).words
    IN  joined

\* impl_asm adds up the offset of each section by hand, ten times: what comes
\* out is the header and the sections in their order, with nothing between them
\* and nothing the allocation held before.
Layout == pc = "cleanup" /\ ~err => ret = Header(numRet) \o Code[Len(Order)]

\* The caller frees what it gets: ACLSPV_COMPILE_OK comes with all the words
\* that are announced, and no other result comes with words.
OutputOwned ==
    pc = "returned" /\ output.wanted =>
        IF err THEN output.words = Nothing
        ELSE output.words # Nothing /\ Len(output.words) = output.count
=============================================================================
