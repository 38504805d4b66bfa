------------------------------ MODULE EntpBody ------------------------------
(***************************************************************************)
(* How a kernel body becomes SPIR-V: the loop of aclspv_compile over the   *)
(* entry points (lib/aclspv.c 145-262), the statement visitor              *)
(* emit_entp_body (lib/emit/entp_body.h) and the cursor table they share   *)
(* (lib/util/cursor.h).                                                    *)
(*                                                                         *)
(* The table maps a clang cursor (a parameter, a variable, a label, an     *)
(* expression) to the ids it was given.  It is one growable vector for the *)
(* whole compilation; a function uses its first num slots.  Code is        *)
(* collected in two sections: fndef, which holds the finished functions    *)
(* and the OpVariables of the current one, and fnimpl, which holds the     *)
(* rest of the current body and is appended to fndef when it ends.         *)
(*                                                                         *)
(* libclang, which owns the syntax tree, is the environment: it visits the *)
(* statements of each kernel in source order.  The model lets it visit any *)
(* sequence of at most MaxStmts statements in which a variable, a label or *)
(* an expression occurs once and every goto names a label of the same      *)
(* function.  Ids of types and constants are left out: they are memoised   *)
(* elsewhere and never reach the table's window as results.                *)
(***************************************************************************)
EXTENDS Integers, Sequences, FiniteSets

CONSTANTS
    Kernels,    \* number of entry points; they are compiled last to first
    Params,     \* Params[k]: number of bound parameters of kernel k
    Names,      \* names of the variables, labels and expressions of a kernel
    MaxStmts,   \* bound: statements visited in one kernel
    MaxId,      \* bound: the counter behind an expression
    MaxFails    \* bound: allocations that fail in the compilation

ASSUME KernelAssumption ==
    /\ Kernels \in Nat \ {0}
    /\ Params \in [1..Kernels -> Nat]
    /\ Names \subseteq Nat
    /\ MaxStmts \in Nat
    /\ MaxId \in Nat
    /\ MaxFails \in Nat

VARIABLES
    fn,         \* the kernel being compiled; 0 when there is none left
    pc,         \* "enter", "body", "leave", "done"
    slots,      \* CTX.m_cursors; << >> when m_p is NULL
    num,        \* CTX.m_num_cursor
    nextId,     \* CTX.m_id
    fndef,      \* CTX.m_section.m_fndef up to its count
    fnimpl,     \* CTX.m_section.m_fnimpl up to its count
    hasRet,     \* CTX.m_has_function_ret
    err,        \* CTX.m_err
    seen,       \* cursors visited in this kernel
    jumps,      \* cursors of the labels this kernel's gotos named
    stmts,      \* statements visited in this kernel
    fails,      \* allocations that have failed
    lost        \* some statement's translation was given up

table  == << slots, num >>
source == << seen, jumps, stmts >>
vars == << fn, pc, slots, num, nextId, fndef, fnimpl, hasRet, err,
           seen, jumps, stmts, fails, lost >>

OK == "OK"
ALLOC_FAILED == "ALLOC_FAILED"
MET_INVAL == "MET_INVAL"

Kind == {"param", "var", "label", "expr"}
Cursor(k, kind, n) == [fn |-> k, kind |-> kind, name |-> n]
NoCursor == Cursor(0, "none", 0)

(***************************************************************************)
(* Ids.  The word 1 stands for the storage classes, which a parameter slot *)
(* keeps where a variable slot keeps its id (the two are members of one    *)
(* union); ids proper start above it: the entry points, the module-level   *)
(* variables of the parameters, then what this loop hands out.             *)
(***************************************************************************)
ClassWord == 1
MaxParams == CHOOSE m \in { Params[k] : k \in 1..Kernels } :
                \A k \in 1..Kernels : Params[k] <= m
EntpId(k) == 1 + k
ParamId(k, i) == 1 + Kernels + (k - 1) * MaxParams + i

\* Mutant: the ids of the entry points and the parameters are not reserved.
MutFirstId == 2

FirstId == 2 + Kernels + Kernels * MaxParams

\* An instruction, and one of an expression: of is the cursor of the statement
\* the expression stands in (history).
Instr(op, id, args) == [op |-> op, id |-> id, args |-> args, of |-> NoCursor]
Value(op, id, args, c) == [op |-> op, id |-> id, args |-> args, of |-> c]
------------------------------------------------------------------------------
(***************************************************************************)
(* The cursor table.  A slot is what the union keeps that matters here:    *)
(* id is m_id of a variable or a label and m_storage_class of a parameter, *)
(* init is m_init_val of a variable and m_var_id of a parameter, alloc is  *)
(* m_is_allocated, and number says whether m_type_id is a number type (the *)
(* type of a parameter never is).  calloc makes a new slot all zero; a     *)
(* slot below the capacity keeps what an earlier function left in it.      *)
(***************************************************************************)
\* Mutant: malloc, which leaves anything in a new slot.
MutEmptySlot == [key |-> NoCursor, id |-> -1, init |-> 0, alloc |-> FALSE, number |-> FALSE]

EmptySlot == [key |-> NoCursor, id |-> 0, init |-> 0, alloc |-> FALSE, number |-> FALSE]

Cap == Len(slots)
SlotAt(s, i) == IF i <= Len(s) THEN s[i] ELSE EmptySlot

\* Mutant: the search stops before the first slot.
MutFindIn(s, n, c) ==
    LET hits == { i \in 2..n : i <= Len(s) /\ s[i].key = c }
    IN  IF hits = {} THEN 0 ELSE CHOOSE i \in hits : \A j \in hits : j <= i

\* util_find_cursor over the window of n slots; 0 when it is not there.  The
\* code compares slots past the capacity too, which it reads out of bounds:
\* what lies there is taken to be no cursor of the translation unit.
FindIn(s, n, c) ==
    LET hits == { i \in 1..n : i <= Len(s) /\ s[i].key = c }
    IN  IF hits = {} THEN 0 ELSE CHOOSE i \in hits : \A j \in hits : j <= i

\* util_mk_cursor_base: the table, the window and the index it leaves, when
\* the vector could be grown.
MkIn(s, n, c) ==
    LET hit == FindIn(s, n, c)
        size == IF Len(s) > n THEN Len(s) ELSE n + 1
    IN  IF hit # 0 THEN [slots |-> s, num |-> n, idx |-> hit, new |-> FALSE]
        ELSE [slots |-> [i \in 1..size |->
                            IF i = n + 1 THEN [SlotAt(s, i) EXCEPT !.key = c]
                            ELSE SlotAt(s, i)],
              num |-> n + 1, idx |-> n + 1, new |-> TRUE]

MkGrows(s, n, c) == FindIn(s, n, c) = 0 /\ Len(s) <= n

Mk(c) == MkIn(slots, num, c)

\* The parameters of kernel k are added last to first, each slot receiving
\* the whole binding, on top of a window that already counts them once.
AddParam(k, acc, i) ==
    LET m == MkIn(acc.slots, acc.num, Cursor(k, "param", i))
    IN  [slots |-> [m.slots EXCEPT ![m.idx] =
                        [key |-> Cursor(k, "param", i), id |-> ClassWord,
                         init |-> ParamId(k, i), alloc |-> FALSE, number |-> FALSE]],
         num |-> m.num]

WithParams(k) ==
    LET added[j \in 0..Params[k]] ==
            IF j = 0 THEN [slots |-> slots, num |-> Params[k]]
            ELSE AddParam(k, added[j - 1], Params[k] + 1 - j)
    IN  added[Params[k]]
------------------------------------------------------------------------------
Init == /\ fn = Kernels /\ pc = "enter"
        /\ slots = << >> /\ num = 0
        /\ nextId = FirstId
        /\ fndef = << >> /\ fnimpl = << >>
        /\ hasRet = FALSE /\ err = OK
        /\ seen = {} /\ jumps = {} /\ stmts = 0
        /\ fails = 0 /\ lost = FALSE

\* An allocation fails, if the bound still lets one.
AllocFails == fails < MaxFails /\ fails' = fails + 1

(***************************************************************************)
(* The loop of aclspv_compile, up to the visit of the body.  The error is  *)
(* set to ALLOC_FAILED for the whole prologue; the visit of the function's *)
(* parameters and of its compound statement then clears it.                *)
(***************************************************************************)
\* Mutant: the first block has no label.
MutPrologue == << Instr("Function", EntpId(fn), << >>) >>

Prologue == << Instr("Function", EntpId(fn), << >>), Instr("Label", nextId, << >>) >>

Enter ==
    /\ pc = "enter" /\ fn > 0
    /\ fndef' = fndef \o Prologue
    /\ fnimpl' = << >>
    /\ nextId' = nextId + 1
    /\ slots' = WithParams(fn).slots
    /\ num' = WithParams(fn).num
    /\ hasRet' = FALSE
    /\ err' = OK
    /\ pc' = "body"
    /\ seen' = {} /\ jumps' = {} /\ stmts' = 0
    /\ UNCHANGED << fn, fails, lost >>

\* An emission of the prologue fails, or the table cannot grow to hold the
\* parameters: the compilation ends there.
EnterFails ==
    /\ pc = "enter" /\ fn > 0
    /\ AllocFails
    /\ \/ /\ fndef' = << >>
          /\ nextId' \in {nextId, nextId + 1}
          /\ UNCHANGED table
       \/ \E n \in Params[fn]..(2 * Params[fn] - 1) :
            /\ Cap <= n
            /\ fndef' = fndef \o Prologue
            /\ nextId' = nextId + 1
            /\ slots' = << >>
            /\ num' = n
    /\ fnimpl' = << >>
    /\ err' = ALLOC_FAILED
    /\ pc' = "done"
    /\ UNCHANGED << fn, hasRet, source, lost >>

Finished == pc = "done" /\ UNCHANGED vars

(***************************************************************************)
(* The visitor.  A statement either completes (the visitor clears err and  *)
(* the visit goes on), or reaches LBL_FAIL, which leaves err as it was and *)
(* breaks the visit off.                                                   *)
(***************************************************************************)
\* A statement is visited after which the gotos still open (those of the
\* labels j that are not in s) leave room for their labels.
Visits(j, s) == /\ pc = "body"
                /\ stmts + 1 + Cardinality(j \ s) <= MaxStmts
                /\ stmts' = stmts + 1

VisitsNew(c) == c \notin seen /\ Visits(jumps, seen \cup {c})

Completes == /\ err' = OK
             /\ UNCHANGED << fn, pc, fails >>

Breaks == /\ AllocFails
          /\ pc' = "leave"
          /\ lost' = TRUE
          /\ UNCHANGED fn

(***************************************************************************)
(* Expressions, as emit_get_expr leaves them in fnimpl when it is asked    *)
(* for a value under the id r and takes its other ids behind it (the       *)
(* module Expr has its steps).  An operand is the slot of a number         *)
(* variable of the window, or a literal, 0 here, which leaves nothing in   *)
(* the function.  An operator reserves an id for each operand.  An         *)
(* assignment is not among the operators emit_expr knows: its sides both   *)
(* take the id of the whole.  An operator on the right of another is       *)
(* complete with its first operand, and its second one is loaded under the *)
(* inner operator's id.  The model has one operator, two nested ones, and  *)
(* an assignment of either to a variable.                                  *)
(***************************************************************************)
Operands(s, n) == {0} \cup { i \in 1..n : /\ i <= Len(s)
                                          /\ s[i].key.fn = fn
                                          /\ s[i].key.kind = "var"
                                          /\ s[i].number }

Load(s, c, id, x) == IF x = 0 THEN << >> ELSE << Value("Load", id, << s[x].id >>, c) >>
Op(c, id, args) == << Value("Op", id, args, c) >>

Converted(s, c, r, x) == Load(s, c, r + 1, x) \o Op(c, r, << r + 1 >>)
Sum(s, c, r, x, y) ==
    Load(s, c, r + 1, x) \o Load(s, c, r + 2, y) \o Op(c, r, << r + 1, r + 2 >>)
Nested(s, c, r, x, y, z) ==
    Load(s, c, r + 1, x) \o Load(s, c, r + 3, y) \o Op(c, r + 2, << r + 3, r + 4 >>)
        \o Load(s, c, r + 2, z) \o Op(c, r, << r + 1, r + 2 >>)

\* The terms over the operands X, with the ids they take: a value, one of
\* another type than is wanted, a sum, a sum with one on its right.
Terms(s, c, r, X) ==
    { [ids |-> 1, code |-> Load(s, c, r, x)] : x \in X }
    \cup { [ids |-> 2, code |-> Converted(s, c, r, x)] : x \in X \ {0} }
    \cup { [ids |-> 3, code |-> Sum(s, c, r, x, y)] : x, y \in X }
    \cup { [ids |-> 5, code |-> Nested(s, c, r, x, y, z)] : x, y, z \in X }

\* What comes before the first load goes to the constants of the module.
FirstLoad(code) == { i \in 1..Len(code) : code[i].op = "Load" /\
                                         \A j \in 1..(i - 1) : code[j].op # "Load" }
FromLoad(code) == IF FirstLoad(code) = {} THEN << >>
                  ELSE SubSeq(code, CHOOSE i \in FirstLoad(code) : TRUE, Len(code))

\* A term, or its assignment to the variable x, loaded under the id of the whole.
Expressions(s, n, c, r) ==
    { [ids |-> t.ids, code |-> FromLoad(Load(s, c, r, x) \o t.code)] :
        t \in Terms(s, c, r, Operands(s, n)), x \in Operands(s, n) }

\* emit_get_expr translates an expression of statement c under the id r.
Translates(s, n, c, r) ==
    \E v \in Expressions(s, n, c, r) :
        /\ r + v.ids <= MaxId /\ nextId' = r + v.ids
        /\ fnimpl' = fnimpl \o v.code
        /\ Completes
        /\ UNCHANGED lost

\* It gives an operand up without telling: the operand, which would have been
\* loaded next, is of a kind the expression compiler does not know, or an
\* emission to fnimpl failed.
GivesUp(s, n, c, r) ==
    \E v \in Expressions(s, n, c, r) :
        /\ r + v.ids <= MaxId /\ nextId' = r + v.ids
        /\ lost' = TRUE
        /\ err' = OK
        /\ UNCHANGED << fn, pc >>
        /\ \/ /\ \E i \in 1..Len(v.code) : /\ v.code[i].op = "Load"
                                            /\ fnimpl' = fnimpl \o SubSeq(v.code, 1, i - 1)
              /\ UNCHANGED fails
           \/ AllocFails /\ fnimpl' = << >>

\* The table cannot grow for cursor c: the visit breaks off and the table
\* is gone, but the window keeps its size.
MkFails(c) == /\ MkGrows(slots, num, c)
              /\ Breaks
              /\ slots' = << >>
              /\ UNCHANGED << num, nextId, fndef, fnimpl, hasRet, err >>

\* VarDecl, of a number type or of a record, whose initialiser is ignored;
\* init says whether the source has one that is not.  emit_get_expr receives
\* a fresh id for the value.  Whatever it answers, the id is kept and err ends
\* up cleared.
VarDecl(v, number, init) ==
    LET c == Cursor(fn, "var", v)
        m == Mk(c)
        u == [m.slots EXCEPT ![m.idx].id = nextId,
                             ![m.idx].number = number,
                             ![m.idx].init = IF init THEN nextId + 1 ELSE @]
    IN
    /\ init => number
    /\ VisitsNew(c)
    /\ slots' = u
    /\ num' = m.num
    /\ seen' = seen \cup {c}
    /\ \/ ~init /\ nextId' = nextId + 1 /\ Completes /\ UNCHANGED << fnimpl, lost >>
       \/ init /\ Translates(u, m.num, c, nextId + 1)
       \/ init /\ GivesUp(u, m.num, c, nextId + 1)
    /\ UNCHANGED << fndef, hasRet, jumps >>

\* VarDecl of a type the compiler has no id for: its slot is in the table
\* when the visit breaks off, and err is set only for a record without a size.
VarDeclUnknown(v) ==
    LET m == Mk(Cursor(fn, "var", v)) IN
    /\ VisitsNew(Cursor(fn, "var", v))
    /\ slots' = m.slots
    /\ num' = m.num
    /\ seen' = seen \cup {Cursor(fn, "var", v)}
    /\ pc' = "leave"
    /\ lost' = TRUE
    /\ err' \in {err, MET_INVAL}
    /\ UNCHANGED << fn, nextId, fndef, fnimpl, hasRet, jumps, fails >>

VarDeclFails(v) ==
    /\ VisitsNew(Cursor(fn, "var", v))
    /\ MkFails(Cursor(fn, "var", v))
    /\ UNCHANGED << seen, jumps >>

ReturnStmt ==
    /\ Visits(jumps, seen)
    /\ fnimpl' = Append(fnimpl, Instr("Return", 0, << >>))
    /\ hasRet' = TRUE
    /\ Completes
    /\ UNCHANGED << table, nextId, fndef, seen, jumps, lost >>

ReturnStmtFails ==
    /\ Visits(jumps, seen)
    /\ Breaks
    /\ fnimpl' = << >>
    /\ UNCHANGED << table, nextId, fndef, hasRet, err, seen, jumps >>

\* util_tell_cursor_lbl: before a label, every variable of the window that
\* has none gets its OpVariable in fndef, and its first value is stored in
\* fnimpl, last slot first.
Pending == { i \in 1..num : i <= Cap /\ slots[i].key.kind = "var" /\ ~slots[i].alloc }

Variable(i) == Instr("Variable", slots[i].id, << >>)

Store(i) == Instr("Store", 0, << slots[i].id, slots[i].init >>)

\* What a loop from slot n down to slot 1 emits, piece[i] at slot i.
Downward(n, piece) ==
    LET emitted[i \in 0..n] == IF i = 0 THEN << >> ELSE emitted[i - 1] \o piece[n + 1 - i]
    IN  emitted[n]

\* The declarations and the first values of the slots T.
Variables(T) ==
    Downward(num, [i \in 1..num |-> IF i \in T THEN << Variable(i) >> ELSE << >>])
Stores(T) ==
    Downward(num, [i \in 1..num |->
                      IF i \in T /\ slots[i].init # 0 THEN << Store(i) >> ELSE << >>])

Told(T) == [i \in 1..Cap |-> IF i \in T THEN [slots[i] EXCEPT !.alloc = TRUE] ELSE slots[i]]

\* LabelStmt: the pending variables, then the label, under the id a goto may
\* have reserved for it.
LabelStmt(l) ==
    LET c == Cursor(fn, "label", l)
        m == MkIn(Told(Pending), num, c)
        id == IF m.new THEN nextId ELSE m.slots[m.idx].id
    IN
    /\ VisitsNew(c)
    /\ slots' = [m.slots EXCEPT ![m.idx].id = id]
    /\ num' = m.num
    /\ nextId' = IF m.new THEN nextId + 1 ELSE nextId
    /\ fndef' = fndef \o Variables(Pending)
    /\ fnimpl' = fnimpl \o Stores(Pending)
                        \o << Instr("Branch", 0, << id >>), Instr("Label", id, << >>) >>
    /\ seen' = seen \cup {c}
    /\ Completes
    /\ UNCHANGED << hasRet, jumps, lost >>

\* util_tell_cursor_lbl fails at a pending variable v, while emitting it
\* (fndef is lost) or its store (fnimpl is lost).  The label statement is
\* given up, err is cleared and the visit goes on.
LabelStmtGivenUp(l) ==
    LET c == Cursor(fn, "label", l) IN
    /\ VisitsNew(c)
    /\ AllocFails
    /\ \E v \in Pending :
        LET told == { i \in Pending : i >= v }
        IN
        /\ slots' = Told(told)
        /\ \/ /\ fndef' = << >>
              /\ fnimpl' = fnimpl \o Stores(told \ {v})
           \/ /\ slots[v].init # 0
              /\ fndef' = fndef \o Variables(told)
              /\ fnimpl' = << >>
    /\ seen' = seen \cup {c}
    /\ lost' = TRUE
    /\ err' = OK
    /\ UNCHANGED << fn, pc, num, nextId, hasRet, jumps >>

\* The table cannot grow for the label, or an emission to fnimpl fails.
LabelStmtFails(l) ==
    LET c == Cursor(fn, "label", l) IN
    /\ VisitsNew(c)
    /\ Breaks
    /\ fndef' = fndef \o Variables(Pending)
    /\ \/ /\ MkGrows(Told(Pending), num, c)
          /\ slots' = << >>
          /\ fnimpl' = fnimpl \o Stores(Pending)
          /\ UNCHANGED << num, nextId >>
       \/ LET m == MkIn(Told(Pending), num, c) IN
          /\ slots' = [m.slots EXCEPT ![m.idx].id = IF m.new THEN nextId ELSE @]
          /\ num' = m.num
          /\ nextId' = IF m.new THEN nextId + 1 ELSE nextId
          /\ fnimpl' = << >>
    /\ UNCHANGED << hasRet, err, seen, jumps >>

\* GotoStmt: the label's id, reserved here if the label comes later, and a
\* fresh block for whatever follows.
GotoStmt(l) ==
    LET m == Mk(Cursor(fn, "label", l))
        id == IF m.new THEN nextId ELSE m.slots[m.idx].id
        after == IF m.new THEN nextId + 1 ELSE nextId
    IN
    /\ Visits(jumps \cup {Cursor(fn, "label", l)}, seen)
    /\ slots' = [m.slots EXCEPT ![m.idx].id = id]
    /\ num' = m.num
    /\ nextId' = after + 1
    /\ fnimpl' = fnimpl \o << Instr("Branch", 0, << id >>), Instr("Label", after, << >>) >>
    /\ jumps' = jumps \cup {Cursor(fn, "label", l)}
    /\ Completes
    /\ UNCHANGED << fndef, hasRet, seen, lost >>

\* The table cannot grow for the label, or one of the two emissions fails.
GotoStmtFails(l) ==
    LET c == Cursor(fn, "label", l)
        m == Mk(c)
        after == IF m.new THEN nextId + 1 ELSE nextId
    IN
    /\ Visits(jumps, seen)
    /\ \/ MkFails(c)
       \/ /\ Breaks
          /\ slots' = [m.slots EXCEPT ![m.idx].id = IF m.new THEN nextId ELSE @]
          /\ num' = m.num
          /\ nextId' \in {after, after + 1}
          /\ fnimpl' = << >>
          /\ UNCHANGED << fndef, hasRet, err >>
    /\ UNCHANGED << seen, jumps >>

\* IntegerLiteral, BinaryOperator or CompoundAssignOperator as a statement.
\* The value's id is taken before emit_get_expr runs.
ExprStmt(e) ==
    LET c == Cursor(fn, "expr", e)
        m == Mk(c)
    IN
    /\ VisitsNew(c)
    /\ slots' = m.slots
    /\ num' = m.num
    /\ seen' = seen \cup {c}
    /\ Translates(m.slots, m.num, c, nextId) \/ GivesUp(m.slots, m.num, c, nextId)
    /\ UNCHANGED << fndef, hasRet, jumps >>

\* The table cannot grow for the expression, or emit_get_expr fails at its
\* root: then err is set only if its own operand stack could not grow.
ExprStmtFails(e) ==
    LET c == Cursor(fn, "expr", e)
        m == Mk(c)
    IN
    /\ VisitsNew(c)
    /\ \/ MkFails(c)
       \/ /\ Breaks
          /\ slots' = m.slots
          /\ num' = m.num
          /\ nextId' = nextId + 1
          /\ err' \in {OK, ALLOC_FAILED}
          /\ UNCHANGED << fndef, fnimpl, hasRet >>
    /\ UNCHANGED << seen, jumps >>

\* A compound statement, or a statement the visitor has no case for (if, for,
\* while, switch, a call, an assignment through a pointer): only its children
\* are visited, and an unknown one's own meaning is dropped.
OtherStmt ==
    /\ Visits(jumps, seen)
    /\ Completes
    /\ lost' \in {lost, TRUE}
    /\ UNCHANGED << table, nextId, fndef, fnimpl, hasRet, seen, jumps >>

(***************************************************************************)
(* The end of the visit: broken off, or the whole body was visited.  An    *)
(* error that is still set ends the compilation.                           *)
(***************************************************************************)
BodyEnds == pc = "leave" \/ (pc = "body" /\ jumps \subseteq seen)

\* Mutant: no return is added to a body without one.
MutEpilogue == << Instr("FunctionEnd", 0, << >>) >>

Epilogue == (IF hasRet THEN << >> ELSE << Instr("Return", 0, << >>) >>)
                \o << Instr("FunctionEnd", 0, << >>) >>

Leave ==
    /\ BodyEnds /\ err = OK
    /\ fndef' = fndef \o fnimpl \o Epilogue
    /\ fnimpl' = << >>
    /\ fn' = fn - 1
    /\ pc' = IF fn = 1 THEN "done" ELSE "enter"
    /\ UNCHANGED << table, nextId, hasRet, err, source, fails, lost >>

LeaveFails ==
    /\ BodyEnds /\ err = OK
    /\ AllocFails
    /\ fndef' = << >>
    /\ err' = ALLOC_FAILED
    /\ pc' = "done"
    /\ UNCHANGED << fn, table, nextId, fnimpl, hasRet, source, lost >>

Abort ==
    /\ BodyEnds /\ err # OK
    /\ pc' = "done"
    /\ UNCHANGED << fn, table, nextId, fndef, fnimpl, hasRet, err, source, fails, lost >>

Next ==
    \/ Enter \/ EnterFails \/ Leave \/ LeaveFails \/ Abort \/ Finished
    \/ ReturnStmt \/ ReturnStmtFails \/ OtherStmt
    \/ \E n \in Names :
        \/ \E number, init \in BOOLEAN : VarDecl(n, number, init)
        \/ VarDeclUnknown(n) \/ VarDeclFails(n)
        \/ LabelStmt(n) \/ LabelStmtGivenUp(n) \/ LabelStmtFails(n)
        \/ GotoStmt(n) \/ GotoStmtFails(n)
        \/ ExprStmt(n) \/ ExprStmtFails(n)

Spec == Init /\ [][Next]_vars
------------------------------------------------------------------------------
(***************************************************************************)
(* Properties                                                              *)
(***************************************************************************)
CursorT == [fn : 0..Kernels, kind : Kind \cup {"none"}, name : Nat]

Slot == [key : CursorT,
         id : Nat, init : Nat, alloc : BOOLEAN, number : BOOLEAN]

Ops == {"Function", "Label", "Variable", "Store", "Load", "Op", "Branch", "Return", "FunctionEnd"}
Instruction == [op : Ops, id : Nat, args : Seq(Nat), of : CursorT]

\* The table is a sequence of slots, the sections are sequences of
\* instructions, and the counters are naturals.
TypeOK ==
    /\ fn \in 0..Kernels
    /\ pc \in {"enter", "body", "leave", "done"}
    /\ slots \in Seq(Slot)
    /\ num \in Nat
    /\ nextId \in Nat
    /\ fndef \in Seq(Instruction)
    /\ fnimpl \in Seq(Instruction)
    /\ hasRet \in BOOLEAN /\ lost \in BOOLEAN
    /\ err \in {OK, ALLOC_FAILED, MET_INVAL}
    /\ stmts \in 0..MaxStmts /\ fails \in 0..MaxFails

\* A cursor has one slot: a goto and the label it names, or two uses of a
\* variable, never see two different ids, although slots of earlier functions
\* stay in the window.
WindowKeysDistinct ==
    \A i, j \in 1..num :
        /\ i <= Cap /\ j <= Cap /\ i # j
        /\ slots[i].key.fn = fn /\ fn # 0
        => slots[i].key # slots[j].key

Code == fndef \o fnimpl

\* Nothing has been given up so far and no error is to be reported.
Whole == ~lost /\ err = OK

\* Every id the module body defines lies below the counter, and no function,
\* label, variable or value shares its result id with another result, unless
\* both are values of one expression: neither a reserved goto label, nor a
\* variable declared late, nor the ids an expression takes on top of the one it
\* was asked for, nor a slot left over from another function hands an id out
\* to two statements.  (Within an expression the sides of an assignment and the
\* operand of a nested operator do share one.)  Once a statement
\* was given up that no longer holds of the OpVariables: the slot of a variable
\* without a type has the id an earlier function left in it, and if it stays in
\* the window a later label tells it under that id.
Clash(x, y) ==
    /\ x.id = y.id /\ x.id # 0
    /\ ~(x.of = y.of /\ {x.op, y.op} \subseteq {"Load", "Op"})
    /\ ~(lost /\ "Variable" \in {x.op, y.op})

ResultIdsUnique ==
    LET c == Code IN
    \A i \in 1..Len(c) : /\ c[i].id < nextId
                         /\ \A j \in 1..(i - 1) : ~Clash(c[i], c[j])

\* When a body was visited to its end and nothing was given up, each of its
\* branches goes to exactly one OpLabel of the same body, whichever of the
\* goto and the label came first.
BranchTargetsDefined ==
    pc = "body" /\ Whole /\ BodyEnds =>
        \A i \in 1..Len(fnimpl) :
            fnimpl[i].op = "Branch" =>
                Cardinality({ j \in 1..Len(fnimpl) :
                    fnimpl[j].op = "Label" /\ fnimpl[j].id = fnimpl[i].args[1] }) = 1

\* However late in the body a declaration was met: an OpVariable follows the
\* first label of its function or another OpVariable, and what is stored into
\* was declared by one of them, in the function of the store.
VariablesDeclared ==
    LET c == Code IN
    Whole => \A i \in 1..Len(c) :
        /\ c[i].op = "Variable" =>
              i > 2 /\ \/ c[i-1].op = "Variable"
                       \/ c[i-1].op = "Label" /\ c[i-2].op = "Function"
        /\ c[i].op = "Store" =>
              \E j \in 1..(i-1) :
                  /\ c[j].op = "Variable" /\ c[j].id = c[i].args[1]
                  /\ \A k \in j..i : c[k].op # "Function"

\* If a return, where there is one, is the last statement of its body, every
\* basic block of the finished code ends in exactly one branch or return: the
\* label a goto opens behind itself and the branch a label closes the block
\* before with leave no block open or closed twice.
Terminators == {"Branch", "Return"}
Closes(c, i) == c[i].op \in Terminators
ReturnsLast(c) ==
    \A i \in 1..Len(c) : c[i].op = "Return" => i < Len(c) /\ c[i+1].op = "FunctionEnd"

BlocksClosed ==
    Whole /\ ReturnsLast(fndef) =>
        \A i \in 1..(Len(fndef) - 1) :
            Closes(fndef, i) <=> /\ fndef[i+1].op \in {"Label", "FunctionEnd"}
                                 /\ fndef[i].op # "Function"
=============================================================================
