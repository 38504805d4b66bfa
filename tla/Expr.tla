-------------------------------- MODULE Expr --------------------------------
(***************************************************************************)
(* The expression compiler, lib/emit/expr.h: emit_get_expr translates one  *)
(* expression under an id its caller reserved.  libclang visits the nodes  *)
(* of the expression in preorder and calls emit_expr on each; nothing is   *)
(* passed between the calls but                                            *)
(*                                                                         *)
(*   STCK           (m_tmp.m_v0) the ids the operands to come are awaited  *)
(*                  under,                                                 *)
(*   CMDSTCK_SCALE  (m_tmp.m_v1) one scale per operator whose operands are *)
(*                  not complete, above a boot scale,                      *)
(*   COUNTER_OPRND  the operands seen so far - one counter for all scales, *)
(*   IS_NOT_CONSTANT whether anything was loaded,                          *)
(*                                                                         *)
(* so the result of an operator depends on the order of the visit.  The    *)
(* tree is chosen by the environment, node by node: pos is the operand a   *)
(* node stands for.                                                        *)
(***************************************************************************)
EXTENDS Naturals, Sequences

CONSTANTS
    Kinds,      \* the kinds of nodes an expression is made of, see Arity
    FirstId,    \* the first id that is free
    MaxNodes,   \* bound: nodes of one expression
    MaxCalls,   \* bound: expressions
    MaxFails    \* bound: allocations that fail

AllKinds == {"literal", "load", "convert", "foreign", "op", "refused", "unknown", "paren"}

ASSUME KindsAssumption == Kinds \subseteq AllKinds
ASSUME BoundAssumption == /\ FirstId \in Nat \ {0}
                          /\ MaxNodes \in Nat /\ MaxCalls \in Nat /\ MaxFails \in Nat

VARIABLES
    pc,         \* "idle", "visiting", "answered" or "crashed"
    open,       \* the operands still to be visited, next first (libclang's)
    visit,      \* history: the nodes visited in this call, in order
    stack,      \* STCK up to STCK_COUNT
    wrapped,    \* STCK_COUNT went below zero
    scales,     \* CMDSTCK_SCALE; empty when its vector is lost
    counter,    \* COUNTER_OPRND
    notConst,   \* IS_NOT_CONSTANT
    idReq,      \* ID_REQ
    nextId,     \* m_id
    types,      \* the section m_types
    fnimpl,     \* the section m_fnimpl
    err,        \* m_err
    answer,     \* what emit_get_expr returned last
    mark,       \* history: the lengths of the sections when the call began
    broken,     \* history: the visit of this call was broken off
    calls,      \* expressions begun
    fails       \* allocations that failed

tree == << open, visit >>
bufs == << stack, wrapped, scales, counter >>
code == << types, fnimpl >>
vars == << pc, tree, bufs, notConst, idReq, nextId, code, err, answer, mark, broken,
           calls, fails >>

\* Literals and references have no operands, an operator has two; parentheses
\* and casts, for which emit_expr has no case, have one.
Leaves == {"literal", "load", "convert", "foreign"}
Arity(k) == IF k \in Leaves THEN 0 ELSE IF k = "paren" THEN 1 ELSE 2

Sides == {"root", "left", "right"}
Instr(op, id, args) == [op |-> op, id |-> id, args |-> args]
Undefined == Instr("Undefined", 0, << >>)

\* Mutant: the boot scale waits for the root.
MutBoot == [n |-> 1, nc |-> FALSE, id |-> 0, x |-> 0, y |-> 0]

\* The boot scale is made with room for 2 bytes and written as two words.  On
\* the first call they reach past the end of the allocation (50 bytes, written
\* up to byte 55); they are taken as written and read back.  The record of the
\* scale after it starts in the middle of the first word, whose upper half then
\* reads as that record's m_id, 1.
Boot == [n |-> 0, nc |-> FALSE, id |-> 0, x |-> 0, y |-> 0]
Overrun == 65536

Top(s) == s[Len(s)]
Front(s) == SubSeq(s, 1, Len(s) - 1)

\* ID_REQ_CURRENT
CurrentId == IF stack = << >> THEN idReq ELSE Top(stack)

\* An emission to a section that cannot grow loses the section, with its
\* count; a section grown by emit_expr itself keeps the count, and the words
\* below it are zero in the next allocation.
Scrambled(section) == [i \in DOMAIN section |-> Undefined]

AllocFails == fails < MaxFails /\ fails' = fails + 1

Init == /\ pc = "idle"
        /\ open = << >> /\ visit = << >>
        /\ stack = << >> /\ wrapped = FALSE /\ scales = << >> /\ counter = 0
        /\ notConst = FALSE
        /\ idReq = 0 /\ nextId = FirstId
        /\ types = << >> /\ fnimpl = << >>
        /\ err = "OK" /\ answer = "FAILURE"
        /\ mark = << 0, 0 >> /\ broken = FALSE
        /\ calls = 0 /\ fails = 0
------------------------------------------------------------------------------
(***************************************************************************)
(* emit_get_expr                                                           *)
(***************************************************************************)
\* The caller (entp_body.h) takes an id and asks for its value.
Asked == /\ pc \in {"idle", "answered"}
         /\ calls < MaxCalls
         /\ calls' = calls + 1
         /\ idReq' = nextId
         /\ nextId' = nextId + 1
         /\ mark' = << Len(types), Len(fnimpl) >>
         /\ visit' = << >>
         /\ UNCHANGED << code, err >>

Begin == /\ Asked
         /\ pc' = "visiting"
         /\ open' = << [par |-> 0, side |-> "root"] >>
         /\ stack' = << >> /\ wrapped' = FALSE
         /\ scales' = << Boot >>
         /\ counter' = 0
         /\ notConst' = FALSE
         /\ broken' = FALSE
         /\ UNCHANGED << answer, fails >>

\* The operand stack or the boot scale cannot be allocated.
BeginFails == /\ Asked
              /\ AllocFails
              /\ pc' = "answered"
              /\ answer' = "FAILURE"
              /\ broken' = TRUE
              /\ open' = << >>
              /\ UNCHANGED << bufs, notConst >>

\* The visit is over, or broken off: only a break at the root is noticed.
Answer(nc) == IF nc THEN "SUCCESS" ELSE "SUCCESS_CONSTANT"

Return == /\ pc = "visiting"
          /\ open = << >>
          /\ pc' = "answered"
          /\ answer' = Answer(notConst)
          /\ UNCHANGED << tree, bufs, notConst, idReq, nextId, code, err, mark, broken,
                          calls, fails >>

Break(nc) == /\ pc' = "answered"
             /\ answer' = IF visit = << >> THEN "FAILURE" ELSE Answer(nc)
             /\ broken' = TRUE
             /\ open' = << >>
             /\ UNCHANGED << visit, idReq, mark, calls >>

Goes == UNCHANGED << pc, idReq, answer, mark, broken, calls, fails >>
------------------------------------------------------------------------------
(***************************************************************************)
(* emit_expr                                                               *)
(***************************************************************************)
\* A node of kind k stands at the next open operand.
Visits(k) == /\ pc = "visiting"
             /\ k \in Kinds
             /\ open # << >>
             /\ ~wrapped
             /\ Len(visit) + Len(open) + Arity(k) <= MaxNodes

\* The node is passed, and its operands are visited before the others.
Passed(k, operands) ==
    /\ visit' = Append(visit, [kind |-> k, par |-> Head(open).par,
                               side |-> Head(open).side, id |-> CurrentId])
    /\ open' = operands \o Tail(open)

\* A count that has wrapped is an index far outside of STCK.
Wild == /\ pc = "visiting" /\ open # << >> /\ wrapped
        /\ pc' = "crashed"
        /\ UNCHANGED << tree, bufs, notConst, idReq, nextId, code, err, answer, mark,
                        broken, calls, fails >>

\* emit_expr_bin_1 and emit_expr_bin_2 know nothing of the node: its operands
\* take its place.
Transparent(k) ==
    /\ k \in {"paren", "unknown"}
    /\ Visits(k)
    /\ Passed(k, [i \in 1..Arity(k) |-> Head(open)])
    /\ err' = "OK"
    /\ Goes
    /\ UNCHANGED << bufs, notConst, nextId, code >>

\* emit_expr_bin_2: a scale with the instruction, whose operands are awaited
\* under two fresh ids.
NewScale == [n |-> 2, nc |-> FALSE, id |-> CurrentId, x |-> nextId, y |-> nextId + 1]

\* The boot scale with a record over its first word.
Overlapped(s) == IF Len(s) = 1 THEN [s EXCEPT ![1].n = Overrun] ELSE s

Operands == LET at == Len(visit) + 1
            IN  << [par |-> at, side |-> "left"], [par |-> at, side |-> "right"] >>

\* Mutant: the operands are put on the stack in the order they were made in.
MutOperator ==
    /\ Visits("op")
    /\ Passed("op", Operands)
    /\ scales' = Append(Overlapped(scales), NewScale)
    /\ stack' = stack \o << nextId, nextId + 1 >>
    /\ nextId' = nextId + 2
    /\ err' = "OK"
    /\ Goes
    /\ UNCHANGED << wrapped, counter, notConst, code >>

\* Mutant: the two ids are not counted.
MutOperatorIds ==
    /\ Visits("op")
    /\ Passed("op", Operands)
    /\ scales' = Append(Overlapped(scales), NewScale)
    /\ stack' = stack \o << nextId + 1, nextId >>
    /\ nextId' = nextId + 1
    /\ err' = "OK"
    /\ Goes
    /\ UNCHANGED << wrapped, counter, notConst, code >>

Operator ==
    /\ Visits("op")
    /\ Passed("op", Operands)
    /\ scales' = Append(Overlapped(scales), NewScale)
    /\ stack' = stack \o << nextId + 1, nextId >>
    /\ nextId' = nextId + 2
    /\ err' = "OK"
    /\ Goes
    /\ UNCHANGED << wrapped, counter, notConst, code >>

\* The operator has no meaning for its type (a remainder of floats).
OperatorRefused ==
    /\ Visits("refused")
    /\ Break(notConst)
    /\ UNCHANGED << bufs, notConst, nextId, code, err, fails >>

\* The scales cannot grow, or the stack cannot.
OperatorFails ==
    /\ Visits("op")
    /\ AllocFails
    /\ Break(notConst)
    /\ \/ scales' = << >> /\ UNCHANGED << stack, nextId, err >>
       \/ /\ scales' = Append(Overlapped(scales), NewScale)
          /\ stack' = << >>
          /\ nextId' = nextId + 2
          /\ err' = "ALLOC_FAILED"
    /\ UNCHANGED << wrapped, counter, notConst, code >>

\* emit_expr_bin_1: a literal is a constant of the module, a variable of the
\* type that is wanted is loaded, one of another type is loaded under an id of
\* its own and converted.
Constants(k) == IF k = "literal" THEN << Instr("Constant", CurrentId, << >>) >> ELSE << >>

Loads(k) == CASE k = "load" -> << Instr("Load", CurrentId, << >>) >>
              [] k = "convert" -> << Instr("Load", nextId, << >>),
                                     Instr("Convert", CurrentId, << nextId >>) >>
              [] OTHER -> << >>

IdsOf(k) == IF k = "convert" THEN 1 ELSE 0

NotConst(k) == notConst \/ k # "literal"

Value(k) == /\ k \in Leaves \ {"foreign"}
            /\ Visits(k)

\* What emit_expr marks when an operand was loaded.
Marked(k) == [scales EXCEPT ![Len(scales)].nc = @ \/ k # "literal"]

Popped == IF stack = << >> THEN << >> ELSE Front(stack)

\* The loop behind an operand runs when it was the last one the top scale
\* waits for.  It never runs twice: the counter is 1 then, and no operator has
\* one operand.
Last == Len(scales) > 1 /\ counter + 1 = Top(scales).n

Operand(k) ==
    /\ Value(k)
    /\ ~Last
    /\ Passed(k, << >>)
    /\ types' = types \o Constants(k)
    /\ fnimpl' = fnimpl \o Loads(k)
    /\ nextId' = nextId + IdsOf(k)
    /\ notConst' = NotConst(k)
    /\ scales' = Marked(k)
    /\ stack' = Popped
    /\ counter' = counter + 1
    /\ Goes
    /\ UNCHANGED << wrapped, err >>

\* The instruction a complete scale holds: an operation of the function when
\* one of its operands is not constant, a constant of the module otherwise.
Operation(s) == Instr(IF s.nc THEN "Op" ELSE "SpecConstantOp", s.id, << s.x, s.y >>)

\* Mutant: the flag is not handed down.
MutJoined(s) == Front(s)

\* The scales without the last one, which hands its flag down.
Joined(s) == [Front(s) EXCEPT ![Len(s) - 1].nc = @ \/ Top(s).nc]

\* The section is chosen by IS_NOT_CONSTANT, the form of the instruction by
\* the flag of the scale.  The new last scale's operands but one leave STCK:
\* 65535 of them when it is the boot scale.
OperandLast(k) ==
    LET marked == Marked(k)
        op == << Operation(Top(marked)) >>
        n == Joined(marked)[Len(scales) - 1].n
    IN
    /\ Value(k)
    /\ Last
    /\ Passed(k, << >>)
    /\ types' = types \o Constants(k) \o (IF NotConst(k) THEN << >> ELSE op)
    /\ fnimpl' = fnimpl \o Loads(k) \o (IF NotConst(k) THEN op ELSE << >>)
    /\ nextId' = nextId + IdsOf(k)
    /\ notConst' = NotConst(k)
    /\ scales' = Joined(marked)
    /\ counter' = 1
    /\ \/ /\ n - 1 <= Len(Popped)
          /\ stack' = SubSeq(Popped, 1, Len(Popped) - (n - 1))
          /\ UNCHANGED wrapped
       \/ /\ n - 1 > Len(Popped)
          /\ stack' = << >>
          /\ wrapped' = TRUE
    /\ Goes
    /\ UNCHANGED err

\* The name is not in the window of the cursor table, or not a number.
OperandForeign ==
    /\ Visits("foreign")
    /\ Break(notConst)
    /\ UNCHANGED << bufs, notConst, nextId, code, err, fails >>

\* An emission of the operand fails; its section is lost and m_err is not set.
OperandFails(k) ==
    /\ Value(k)
    /\ AllocFails
    /\ Break(notConst)
    /\ nextId' = nextId + IdsOf(k)
    /\ \/ k = "literal" /\ types' = << >> /\ UNCHANGED fnimpl
       \/ k # "literal" /\ fnimpl' = << >> /\ UNCHANGED types
    /\ UNCHANGED << bufs, notConst, err >>

\* The section cannot grow for the instruction behind the last operand.
OperandLastFails(k) ==
    /\ Value(k)
    /\ Last
    /\ AllocFails
    /\ Break(NotConst(k))
    /\ nextId' = nextId + IdsOf(k)
    /\ notConst' = NotConst(k)
    /\ \/ /\ NotConst(k)
          /\ fnimpl' = Scrambled(fnimpl \o Loads(k))
          /\ types' = types \o Constants(k)
       \/ /\ ~NotConst(k)
          /\ types' = Scrambled(types \o Constants(k))
          /\ UNCHANGED fnimpl
    /\ err' = "ALLOC_FAILED"
    /\ stack' = Popped
    /\ counter' = counter + 1
    /\ scales' = [Marked(k) EXCEPT ![Len(scales) - 1].nc = @ \/ Top(Marked(k)).nc]
    /\ UNCHANGED wrapped

\* Nothing more is asked for, or the process has ended.
Finished == /\ \/ pc \in {"idle", "answered"} /\ calls = MaxCalls
               \/ pc = "crashed"
            /\ UNCHANGED vars

Next == \/ Begin \/ BeginFails \/ Return
        \/ \E k \in Kinds : \/ Transparent(k)
                            \/ Operand(k) \/ OperandLast(k)
                            \/ OperandFails(k) \/ OperandLastFails(k)
        \/ Operator \/ OperatorRefused \/ OperatorFails
        \/ OperandForeign \/ Wild
        \/ Finished

Spec == Init /\ [][Next]_vars
------------------------------------------------------------------------------
(***************************************************************************)
(* Properties                                                              *)
(***************************************************************************)
\* The expressions the visit is made for: the right operand of an operator is
\* not an operator, and no operator is passed over.
LeftDeep == \A i \in DOMAIN visit : /\ visit[i].kind \notin {"unknown", "refused"}
                                    /\ visit[i].kind = "op" => visit[i].side # "right"

\* The state has its type.
TypeOK ==
    /\ pc \in {"idle", "visiting", "answered", "crashed"}
    /\ open \in Seq([par : Nat, side : Sides])
    /\ visit \in Seq([kind : AllKinds, par : Nat, side : Sides, id : Nat])
    /\ stack \in Seq(Nat)
    /\ wrapped \in BOOLEAN /\ notConst \in BOOLEAN /\ broken \in BOOLEAN
    /\ scales \in Seq([n : {0, 2, Overrun}, nc : BOOLEAN, id : Nat, x : Nat, y : Nat])
    /\ counter \in Nat
    /\ idReq \in Nat /\ nextId \in Nat
    /\ types \in Seq([op : {"Undefined", "Constant", "SpecConstantOp"},
                      id : Nat, args : Seq(Nat)])
    /\ fnimpl \in Seq([op : {"Undefined", "Load", "Convert", "Op", "SpecConstantOp"},
                       id : Nat, args : Seq(Nat)])
    /\ err \in {"OK", "ALLOC_FAILED"}
    /\ answer \in {"FAILURE", "SUCCESS", "SUCCESS_CONSTANT"}
    /\ mark \in Nat \X Nat
    /\ calls \in Nat /\ fails \in Nat

\* The code of this call, types first as in the module.
Tail2(section, n) == SubSeq(section, n + 1, Len(section))
Emitted == Tail2(types, mark[1]) \o Tail2(fnimpl, mark[2])
Sound == LeftDeep /\ ~broken /\ pc # "crashed"

\* No two instructions of a call define one id, none defines an id that an
\* operator still waits for, and all of them are ids nobody had before the
\* call (idReq is its first).  An id is taken from m_id in three places, and
\* awaited in two, while the operators around it are incomplete.
IdsDefinedOnce ==
    (Sound /\ calls > 0) =>
        /\ \A i, j \in DOMAIN Emitted : Emitted[i].id = Emitted[j].id => i = j
        /\ \A i \in DOMAIN Emitted : Emitted[i].id \in idReq..(nextId - 1)
        /\ \A i \in DOMAIN Emitted :
               /\ \A j \in DOMAIN stack : Emitted[i].id # stack[j]
               /\ \A j \in 2..Len(scales) : Emitted[i].id # scales[j].id

\* An operand of an instruction is defined before it, and one in types does
\* not depend on the function: the section of an instruction is chosen by a
\* flag of the whole expression and its form by a flag of its scale, and the
\* two agree.
OperandsDefined ==
    Sound =>
        /\ \A i \in DOMAIN Emitted : \A a \in DOMAIN Emitted[i].args :
                \E j \in 1..(i - 1) : Emitted[j].id = Emitted[i].args[a]
        /\ \A i \in DOMAIN Emitted :
                Emitted[i].op = "SpecConstantOp" <=> /\ i <= Len(types) - mark[1]
                                                     /\ Emitted[i].op # "Constant"

\* The operand libclang visits next is awaited on top of the stack: the ids
\* were pushed by the operators before it and popped by their operands, whole
\* subtrees of them in between.
Awaited ==
    (pc = "visiting" /\ LeftDeep /\ open # << >>) =>
        /\ ~wrapped
        /\ Head(open).par = 0 => stack = << >>
        /\ Head(open).par # 0 =>
              LET s == Top(scales) IN
              /\ s.id = visit[Head(open).par].id
              /\ CurrentId = IF Head(open).side = "left" THEN s.x ELSE s.y
              /\ counter = IF Head(open).side = "left" THEN 0 ELSE 1

\* A call that ran to its end has translated the expression: every node is
\* defined by one instruction, of its kind, an operator over its left and its
\* right operand in this order, the root under the id that was asked for; the
\* answer says whether the value is a constant of the module.  Neither an
\* earlier call nor the way it ended matters.
Nodes == { i \in DOMAIN visit : visit[i].kind # "paren" }
OperandOf(i, side) == CHOOSE j \in Nodes : visit[j].par = i /\ visit[j].side = side
DefinitionOf(i) == { e \in DOMAIN Emitted : Emitted[e].id = visit[i].id }

Translates(i) ==
    \E e \in DOMAIN Emitted :
        /\ DefinitionOf(i) = {e}
        /\ visit[i].side = "root" => visit[i].id = idReq
        /\ visit[i].kind = "literal" => Emitted[e].op = "Constant"
        /\ visit[i].kind = "load" => Emitted[e].op = "Load"
        /\ visit[i].kind = "convert" => Emitted[e].op = "Convert"
        /\ visit[i].kind = "op" =>
              /\ Emitted[e].op \in {"Op", "SpecConstantOp"}
              /\ Emitted[e].args = << visit[OperandOf(i, "left")].id,
                                      visit[OperandOf(i, "right")].id >>

Translated == \A i \in Nodes : Translates(i)

TranslatesExpression ==
    (pc = "answered" /\ calls > 0 /\ Sound) =>
        /\ Translated
        /\ answer = "SUCCESS_CONSTANT" <=>
              \E i \in (mark[1] + 1)..Len(types) : types[i].id = idReq

\* "succeed, value was not constant" and "succeed, value was constant."
\* (expr.h:43-47): an answer other than EMIT_EXPR_FAILURE says that the value
\* of the expression is there.
SuccessTranslates == (pc = "answered" /\ answer # "FAILURE") => Translated
=============================================================================
