------------------------------- MODULE Compile -------------------------------
(***************************************************************************)
(* aclspv_compile from its first allocation to the code it returns         *)
(* (lib/aclspv.c): the module's preamble (lib/impl/conf.h), the count of   *)
(* the functions and their reserved ids, the entry points                  *)
(* (lib/emit/count_fn.h), the variables of their parameters                *)
(* (lib/emit/decl_glob_obj.h), the bodies and the assembly                 *)
(* (lib/impl/asm.h).                                                       *)
(*                                                                         *)
(* The phases are visits of the same syntax tree and talk to each other    *)
(* through the context: the id counter, m_err, the index of the entry      *)
(* point (m_tmp.m_w0) and the parameter tables, one growable buffer per    *)
(* kernel in a vector of scales (the module Scale).  How a body becomes    *)
(* code is the module EntpBody; here a body is compiled or fails.  Types   *)
(* and constants are memoised by name (the module ConstantCache).  An      *)
(* emission that fails loses the section it was appended to.               *)
(***************************************************************************)
EXTENDS Integers, Sequences, FiniteSets, SequencesExt

CONSTANTS
    Programs,   \* the translation units: sequences of functions
    FirstId,    \* ID_DEFAULT_END
    MaxFails    \* bound: allocations that fail in the compilation

\* A function is a kernel or not, and has parameters; a parameter has a kind,
\* an array a length, the size of an element, and a specialisation id or 0.  A
\* kind is a type with its annotation: a pointer annotated as an input or an
\* output is an "input", a scalar annotated so is "marked".
Scalars == {"scalar", "marked"}
Annotated == {"input", "marked"}
Kinds == Scalars \cup {"global", "constant", "local", "input", "pointer", "workptr", "array"}
Parameter == [kind : Kinds, num : Nat, elm : Nat, spec : Nat]
Function == [kernel : BOOLEAN, params : Seq(Parameter)]

ASSUME ProgramAssumption ==
    /\ \A p \in Programs : p \in Seq(Function)
    /\ FirstId \in Nat \ {0}
    /\ MaxFails \in Nat

VARIABLES
    prog,       \* the translation unit
    pc,         \* the phase
    at,         \* the function the visitor of the phase has reached
    err,        \* CTX.m_err
    nextId,     \* CTX.m_id
    made,       \* the ids of the types and constants made so far, by name
    w0,         \* CTX.m_tmp.m_w0, the index of the entry point
    entp,       \* CTX.m_fnlist.m_entp: id, function and interface of each
    entries,    \* the OpEntryPoints: ids and interfaces
    tables,     \* CTX.m_scale_vars; << >> when m_p is NULL
    visit,      \* BUFF, what the visit of one kernel's parameters counts
    variables,  \* the OpVariables of the section m_vars
    bindings,   \* the Binding decorations
    lengths,    \* the length operands of the workgroup arrays
    fns,        \* the OpFunctions of m_fndef, finished
    output,     \* the module was assembled
    broken,     \* the errors with which a visit of the declarations broke off
    fails       \* allocations that have failed

sections == << entries, variables, bindings, lengths, fns, output >>
history == << broken, fails >>
vars == << prog, pc, at, err, nextId, made, w0, entp, tables, visit, sections, history >>

OK == "OK"
ALLOC_FAILED == "ALLOC_FAILED"
MET_INVAL == "MET_INVAL"
Why == [pointer |-> "STORAGE_CLASS_UNDEFINED",
        workptr |-> "WORKGROUP_MUST_BE_CONSTANT_ARRAY",
        array   |-> MET_INVAL]
Errors == {OK, ALLOC_FAILED} \cup { Why[k] : k \in DOMAIN Why }

NoVisit == [prm |-> 1, push |-> 0, bind |-> 0, arg |-> 0, io |-> 0, psh |-> 0]

AllocFails == fails < MaxFails /\ fails' = fails + 1

\* An error that ends the compilation: LBL_CLEANUP.
Cleanup(e) == pc' = "done" /\ err' = e

(***************************************************************************)
(* Types and constants: an id is taken for a name that has none.           *)
(***************************************************************************)
New(s, names) == Range(names) \ DOMAIN s.made
Earlier(names, n) == { names[i] : i \in { i \in DOMAIN names :
                            \A j \in DOMAIN names : names[j] = n => i < j } }

\* Mutant: the last id is given out again.
MutTaken(s, names) == Cardinality(New(s, names)) - 1

Taken(s, names) == Cardinality(New(s, names))

MkAll(s, names) ==
    [made |-> [n \in DOMAIN s.made \cup Range(names) |->
                  IF n \in DOMAIN s.made THEN s.made[n]
                  ELSE s.next + Cardinality(New(s, names) \cap Earlier(names, n))],
     next |-> s.next + Taken(s, names)]

Struct(n) == << << "val", n >> >> \o (IF n = 1 THEN << >> ELSE << << "arr", n >> >>)
                \o << << "struct", n >> >>
StorageTypes == Struct(1) \o << << "ptr", 1 >> >>
UniformTypes == << << "vec", 4 >>, << "val", 1 >>, << "struct128", 1 >>, << "uniform", 1 >> >>
------------------------------------------------------------------------------
Init == /\ prog \in Programs
        /\ pc = "conf" /\ at = 1 /\ err = OK
        /\ nextId = 0 /\ made = [n \in {} |-> 0]
        /\ w0 = 0 /\ entp = << >> /\ tables = << << >> >>
        /\ visit = NoVisit
        /\ entries = << >> /\ variables = << >> /\ bindings = {} /\ lengths = {}
        /\ fns = << >> /\ output = FALSE
        /\ broken = {} /\ fails = 0

\* impl_conf; the scales were initialised before it, and nobody looks at
\* whether they were.
Conf ==
    /\ pc = "conf"
    /\ \/ tables' = tables /\ pc' = "count" /\ err' = OK /\ UNCHANGED fails
       \/ AllocFails /\ tables' = << >> /\ pc' = "count" /\ err' = OK
       \/ AllocFails /\ tables' = tables /\ Cleanup(ALLOC_FAILED)
    /\ nextId' = FirstId
    /\ UNCHANGED << prog, at, made, w0, entp, visit, sections, broken >>

Kernels == { i \in DOMAIN prog : prog[i].kernel }
NumEntp == Cardinality(Kernels)
NumFn == Len(prog) - NumEntp

\* Mutant: the ids of the entry points are not reserved.
MutCount ==
    /\ pc = "count"
    /\ entp' = [i \in 1..NumEntp |-> [id |-> 0, fn |-> 0, io |-> 0, num |-> 0]]
    /\ w0' = 0
    /\ pc' = "entries"
    /\ UNCHANGED << prog, at, err, nextId, made, tables, visit, sections, history >>

\* emit_count_fn, and the ids reserved for what it counted.  The id of an
\* entry point is the anchor plus its index.
Count ==
    /\ pc = "count"
    /\ entp' = [i \in 1..NumEntp |-> [id |-> 0, fn |-> 0, io |-> 0, num |-> 0]]
    /\ nextId' = nextId + NumEntp + NumFn
    /\ w0' = 0
    /\ pc' = "entries"
    /\ UNCHANGED << prog, at, err, made, tables, visit, sections, history >>

\* The array of the entry points, or of the functions, is not there; the
\* first visit of one writes through NULL.
CountFails ==
    /\ pc = "count" /\ prog # << >>
    /\ AllocFails
    /\ pc' = "crashed"
    /\ UNCHANGED << prog, at, err, nextId, made, w0, entp, tables, visit, sections, broken >>

Anchor == FirstId
------------------------------------------------------------------------------
(***************************************************************************)
(* emit_iter_entry_point, once for each function with a body.              *)
(***************************************************************************)
\* An id of the interface is reserved for each annotation, whatever the type of
\* the parameter that has it.
Interfaces(f) == Cardinality({ i \in DOMAIN f.params : f.params[i].kind \in Annotated })

Helper ==
    /\ pc = "entries" /\ at <= Len(prog) /\ ~prog[at].kernel
    /\ nextId' = nextId + 1
    /\ at' = at + 1
    /\ UNCHANGED << prog, pc, err, made, w0, entp, tables, visit, sections, history >>

Reserved == [id |-> Anchor + w0, fn |-> at, io |-> nextId, num |-> Interfaces(prog[at])]

\* OpEntryPoint
Entry == [id |-> Reserved.id, io |-> [i \in 1..Reserved.num |-> Reserved.io + i - 1]]

EntryPoint ==
    /\ pc = "entries" /\ at <= Len(prog) /\ prog[at].kernel
    /\ entp' = [entp EXCEPT ![w0 + 1] = Reserved]
    /\ nextId' = nextId + Reserved.num
    /\ entries' = Append(entries, Entry)
    /\ w0' = w0 + 1 /\ at' = at + 1 /\ err' = OK
    /\ UNCHANGED << prog, pc, made, tables, visit, variables, bindings, lengths, fns, output, history >>

\* The visit breaks off, and nobody looks at err.
EntryPointFails ==
    /\ pc = "entries" /\ at <= Len(prog) /\ prog[at].kernel
    /\ AllocFails
    /\ entp' = [entp EXCEPT ![w0 + 1] = Reserved]
    /\ nextId' = nextId + Reserved.num
    /\ entries' \in {<< >>, Append(entries, Entry)}
    /\ pc' = "declare" /\ at' = 1 /\ w0' = 0 /\ err' = ALLOC_FAILED
    /\ broken' = broken \cup {ALLOC_FAILED}
    /\ UNCHANGED << prog, made, tables, visit, variables, bindings, lengths, fns, output >>

EntriesEnd ==
    /\ pc = "entries" /\ at > Len(prog)
    /\ pc' = "declare" /\ at' = 1 /\ w0' = 0
    /\ UNCHANGED << prog, err, nextId, made, entp, tables, visit, sections, history >>
------------------------------------------------------------------------------
(***************************************************************************)
(* emit_decl_glob_obj.  The table of the kernel it visits is the last one; *)
(* it is closed by opening the next.                                       *)
(***************************************************************************)
Declaring == pc = "declare" /\ at <= Len(prog)

\* Mutant: the visit does not go on.
MutNotAKernel == Declaring /\ ~prog[at].kernel /\ UNCHANGED vars

NotAKernel ==
    /\ Declaring /\ ~prog[at].kernel
    /\ at' = at + 1
    /\ UNCHANGED << prog, pc, err, nextId, made, w0, entp, tables, visit, sections, history >>

\* A visit that breaks off leaves the kernels after it undeclared.
BreakOff(e) == /\ err' = e
               /\ broken' = broken \cup {e}
               /\ pc' = "bodies"
               /\ w0' = NumEntp

\* Mutant: the table is not closed.
MutClosed == tables

Closed == Append(tables, << >>)

\* mk_scale_from_vec on a vector that is not there reads through NULL.
CloseTable ==
    \/ tables = << >> /\ pc' = "crashed" /\ UNCHANGED << at, w0, tables, fails >>
    \/ /\ tables # << >>
       /\ \/ tables' = Closed /\ UNCHANGED fails
          \/ AllocFails /\ tables' = << >>
       /\ pc' = "declare" /\ at' = at + 1 /\ w0' = w0 + 1

Hollow ==
    /\ Declaring /\ prog[at].kernel /\ prog[at].params = << >>
    /\ err' = ALLOC_FAILED
    /\ CloseTable
    /\ UNCHANGED << prog, nextId, made, entp, visit, sections, broken >>

BeginKernel ==
    /\ Declaring /\ prog[at].kernel /\ prog[at].params # << >>
    /\ visit' = NoVisit
    /\ \/ pc' = "params" /\ err' = ALLOC_FAILED /\ UNCHANGED << w0, history >>
       \/ AllocFails /\ BreakOff(ALLOC_FAILED)
    /\ UNCHANGED << prog, at, nextId, made, entp, tables, sections >>

DeclareEnds ==
    /\ pc = "declare" /\ at > Len(prog)
    /\ pc' = "bodies" /\ w0' = NumEntp
    /\ UNCHANGED << prog, at, err, nextId, made, entp, tables, visit, sections, history >>
------------------------------------------------------------------------------
(***************************************************************************)
(* emit_decl_glob_obj_visit_fetch, once for each parameter.  arg indexes   *)
(* the table; a scalar is written into it without counting it.             *)
(***************************************************************************)
Fetching(kinds) == /\ pc = "params"
                   /\ visit.prm <= Len(prog[at].params)
                   /\ prog[at].params[visit.prm].kind \in kinds

Param == prog[at].params[visit.prm]
BreakVisit == visit' = [visit EXCEPT !.prm = Len(prog[at].params) + 1]

\* grow_last_scale to arg + 1 elements, the last of which is written.
WithSlot(var) ==
    [tables EXCEPT ![Len(tables)] =
        Append(SubSeq(@, 1, visit.arg), [prm |-> visit.prm, entp |-> w0, var |-> var])]

Variable(id, class, typed) ==
    [id |-> id, class |-> class, typed |-> typed, fn |-> at, prm |-> visit.prm]

\* It returns before its annotation is read.
Scalar ==
    /\ Fetching(Scalars) /\ tables # << >>
    /\ LET first == visit.push = 0
           psh == IF first THEN nextId ELSE visit.psh
       IN  /\ tables' = WithSlot(psh)
           /\ nextId' = IF first THEN nextId + 1 ELSE nextId
           /\ visit' = [visit EXCEPT !.push = @ + 1, !.psh = psh, !.prm = @ + 1]
    /\ UNCHANGED << prog, pc, at, err, made, w0, entp, sections, history >>

\* The id of the variable, then its types.  Nobody looks at whether the
\* struct and the pointer to it were made.
Typing(types, typed) ==
    IF typed THEN MkAll([made |-> made, next |-> nextId + 1], types)
    ELSE [made |-> made, next |-> nextId + 1]
TypingFails(typed) ==
    IF typed THEN UNCHANGED fails
    ELSE ~(Range(StorageTypes) \subseteq DOMAIN made) /\ AllocFails

NextBinding == visit.bind + 1

Bindable ==
    /\ Fetching({"global", "constant"}) /\ tables # << >>
    /\ \E typed \in BOOLEAN :
        LET t == Typing(StorageTypes, typed)
            uniform == Param.kind = "constant"
            s == IF uniform THEN MkAll(t, UniformTypes) ELSE t
        IN  /\ TypingFails(typed)
            /\ made' = s.made /\ nextId' = s.next
            /\ variables' = Append(variables, Variable(nextId,
                                IF uniform THEN "Uniform" ELSE "StorageBuffer", uniform \/ typed))
    /\ tables' = WithSlot(nextId)
    /\ bindings' = bindings \cup {[id |-> nextId, binding |-> visit.bind]}
    /\ visit' = [visit EXCEPT !.bind = NextBinding, !.arg = @ + 1, !.prm = @ + 1]
    /\ err' = OK
    /\ UNCHANGED << prog, pc, at, w0, entp, entries, lengths, fns, output, broken >>

\* A decoration or the variable fails; or the uniform pointer, and then err
\* stays what the parameter before left in it.
BindableFails ==
    /\ Fetching({"global", "constant"}) /\ tables # << >>
    /\ AllocFails
    /\ LET s == Typing(StorageTypes, TRUE) IN made' = s.made /\ nextId' = s.next
    /\ tables' = WithSlot(nextId)
    /\ \/ bindings' = {} /\ err' = ALLOC_FAILED /\ UNCHANGED variables
       \/ variables' = << >> /\ err' = ALLOC_FAILED /\ UNCHANGED bindings
       \/ Param.kind = "constant" /\ UNCHANGED << err, variables, bindings >>
    /\ BreakVisit
    /\ UNCHANGED << prog, pc, at, w0, entp, entries, lengths, fns, output, broken >>

\* The length of the array in words is computed from m_arr_count_id: three
\* operations, the array, the pointer and the variable.
LocalId(s) == s.next + 5

ArrCount == IF Param.spec = 0 THEN << "val", Param.num >> ELSE << "spec", Param.spec >>
LocalTypes == << << "val", Param.elm >>, << "val", 2 >>, << "val", 3 >>, ArrCount >>

\* A workgroup array.  The length it multiplies is CTX->m_id - 1, whatever
\* has that id.  err is OK before the variable is emitted: where that fails,
\* the visit breaks off without an error.
Local ==
    /\ Fetching({"local"}) /\ tables # << >>
    /\ \E typed, declared \in BOOLEAN :
        LET s == MkAll(Typing(StorageTypes, typed), LocalTypes)
        IN  /\ IF declared THEN TypingFails(typed) ELSE typed /\ AllocFails
            /\ made' = s.made /\ nextId' = s.next + 6
            /\ lengths' = lengths \cup {[var |-> LocalId(s), used |-> s.next - 1, count |-> s.made[ArrCount]]}
            /\ tables' = WithSlot(LocalId(s))
            /\ IF declared
               THEN /\ variables' = Append(variables, Variable(LocalId(s), "Workgroup", TRUE))
                    /\ visit' = [visit EXCEPT !.arg = @ + 1, !.prm = @ + 1]
               ELSE variables' = << >> /\ BreakVisit
    /\ err' = OK
    /\ UNCHANGED << prog, pc, at, w0, entp, entries, bindings, fns, output, broken >>

\* A constant, or an instruction of the section of types, fails: only a
\* specialised array says so.
LocalFails ==
    /\ Fetching({"local"}) /\ tables # << >>
    /\ AllocFails
    /\ LET s == Typing(StorageTypes, TRUE) IN made' = s.made /\ nextId' = s.next
    /\ tables' = WithSlot(nextId)
    /\ \/ UNCHANGED << err, bindings >>
       \/ Param.spec # 0 /\ err' = ALLOC_FAILED /\ bindings' \in {bindings, {}}
    /\ BreakVisit
    /\ UNCHANGED << prog, pc, at, w0, entp, entries, variables, lengths, fns, output, broken >>

\* Mutant: the next input gets the same id.
MutNextIo == visit.io

NextIo == visit.io + 1

\* An input or an output has the id its entry point reserved for it.
Located ==
    /\ Fetching({"input"}) /\ tables # << >>
    /\ \E typed, emitted \in BOOLEAN :
        LET s == MkAll(Typing(StorageTypes, typed), << << "vec", 4 >> >>)
            var == entp[w0 + 1].io + visit.io
        IN  /\ IF emitted THEN TypingFails(typed) ELSE typed /\ AllocFails
            /\ made' = s.made /\ nextId' = s.next
            /\ tables' = WithSlot(var)
            /\ IF emitted
               THEN /\ variables' = Append(variables, Variable(var, "Input", TRUE))
                    /\ visit' = [visit EXCEPT !.io = NextIo, !.arg = @ + 1, !.prm = @ + 1]
                    /\ err' = OK /\ UNCHANGED bindings
               ELSE /\ \/ variables' = << >> /\ UNCHANGED bindings
                       \/ bindings' = {} /\ UNCHANGED variables
                    /\ BreakVisit /\ UNCHANGED err
    /\ UNCHANGED << prog, pc, at, w0, entp, entries, lengths, fns, output, broken >>

\* A parameter whose storage class is not defined, or not allowed.
Refused ==
    /\ Fetching(DOMAIN Why) /\ tables # << >>
    /\ \E typed \in BOOLEAN :
        LET s == Typing(StorageTypes, typed)
        IN  TypingFails(typed) /\ made' = s.made /\ nextId' = s.next
    /\ tables' = WithSlot(nextId)
    /\ err' = Why[Param.kind]
    /\ BreakVisit
    /\ UNCHANGED << prog, pc, at, w0, entp, sections, broken >>

\* The table cannot grow, or is not there since an earlier failure.
NoTable ==
    /\ Fetching(Kinds)
    /\ \/ tables = << >> /\ UNCHANGED fails
       \/ tables # << >> /\ AllocFails
    /\ tables' = << >>
    /\ err' = ALLOC_FAILED
    /\ BreakVisit
    /\ UNCHANGED << prog, pc, at, nextId, made, w0, entp, sections, broken >>
------------------------------------------------------------------------------
(***************************************************************************)
(* The end of a kernel's declarations: unless the visit left an error, the *)
(* push constant that its scalars share, and the next table.               *)
(***************************************************************************)
Fetched == pc = "params" /\ visit.prm > Len(prog[at].params)

KernelBroken ==
    /\ Fetched /\ err # OK
    /\ BreakOff(err)
    /\ UNCHANGED << prog, at, nextId, made, entp, tables, visit, sections, fails >>

Pushes == visit.push > 0

PushVariable == [Variable(visit.psh, "PushConstant", TRUE) EXCEPT !.prm = 0]

EndKernel ==
    /\ Fetched /\ err = OK
    /\ IF Pushes
       THEN LET s == MkAll([made |-> made, next |-> nextId],
                           Struct(visit.push) \o << << "psh", visit.push >> >>)
            IN  /\ made' = s.made /\ nextId' = s.next
                /\ variables' = Append(variables, PushVariable)
       ELSE UNCHANGED << made, nextId, variables >>
    /\ CloseTable
    /\ UNCHANGED << prog, err, entp, visit, entries, bindings, lengths, fns, output, broken >>

EndKernelFails ==
    /\ Fetched /\ err = OK /\ Pushes
    /\ AllocFails
    /\ variables' \in {variables, << >>}
    /\ BreakOff(ALLOC_FAILED)
    /\ UNCHANGED << prog, at, nextId, made, entp, tables, visit,
                    entries, bindings, lengths, fns, output >>
------------------------------------------------------------------------------
(***************************************************************************)
(* The loop over the entry points, last to first, and the assembly.  What  *)
(* the declarations left in err is overwritten by the first kernel.        *)
(***************************************************************************)
\* Mutant: the function keeps the counter's next id.
MutFunctionId == nextId

FunctionId == Anchor + w0 - 1

\* get_scale_from_vec past the last table runs into ae2f_unreachable(): it
\* answers NULL, or goes on as if the table were empty.
HasTable == tables # << >> /\ w0 <= Len(tables)
MayGoOn == tables # << >>

\* Some of the failures of a body go unseen (the module EntpBody).
Body ==
    /\ pc = "bodies" /\ w0 > 0 /\ MayGoOn
    /\ nextId' = nextId + 1
    /\ entp[w0].fn # 0
    /\ fns' = Append(fns, [id |-> FunctionId, fn |-> entp[w0].fn,
                           table |-> IF HasTable THEN tables[w0] ELSE << >>])
    /\ w0' = w0 - 1 /\ err' = OK
    /\ UNCHANGED fails \/ AllocFails
    /\ UNCHANGED << prog, pc, at, made, entp, tables, visit,
                    entries, variables, bindings, lengths, output, broken >>

\* No function was noted for the entry point: nothing is visited.
BodyNotNoted ==
    /\ pc = "bodies" /\ w0 > 0 /\ MayGoOn
    /\ entp[w0].fn = 0
    /\ nextId' = nextId + 1
    /\ Cleanup(ALLOC_FAILED)
    /\ UNCHANGED << prog, at, made, w0, entp, tables, visit, sections, history >>

BodyNoTable ==
    /\ pc = "bodies" /\ w0 > 0 /\ ~HasTable
    /\ Cleanup(MET_INVAL)
    /\ UNCHANGED << prog, at, nextId, made, w0, entp, tables, visit, sections, history >>

BodyFails ==
    /\ pc = "bodies" /\ w0 > 0 /\ MayGoOn
    /\ AllocFails
    /\ fns' \in {fns, << >>}
    /\ Cleanup(ALLOC_FAILED)
    /\ UNCHANGED << prog, at, nextId, made, w0, entp, tables, visit,
                    entries, variables, bindings, lengths, output, broken >>

\* m_err is looked at once more before impl_asm; every kernel that got here
\* has left it OK.
Assemble ==
    /\ pc = "bodies" /\ w0 = 0
    /\ \/ output' = TRUE /\ Cleanup(err) /\ UNCHANGED fails
       \/ AllocFails /\ output' = FALSE /\ Cleanup(ALLOC_FAILED)
    /\ UNCHANGED << prog, at, nextId, made, w0, entp, tables, visit,
                    entries, variables, bindings, lengths, fns, broken >>

Finished == pc \in {"done", "crashed"} /\ UNCHANGED vars

Next ==
    \/ Conf \/ Count \/ CountFails
    \/ Helper \/ EntryPoint \/ EntryPointFails \/ EntriesEnd
    \/ NotAKernel \/ Hollow \/ BeginKernel \/ DeclareEnds
    \/ Scalar \/ Bindable \/ BindableFails \/ Local \/ LocalFails \/ Located
    \/ Refused \/ NoTable
    \/ KernelBroken \/ EndKernel \/ EndKernelFails
    \/ Body \/ BodyNotNoted \/ BodyNoTable \/ BodyFails \/ Assemble
    \/ Finished

Spec == Init /\ [][Next]_vars

\* One thread, which nothing waits for: it goes on as long as it can.
FairSpec == Spec /\ WF_vars(Next)
------------------------------------------------------------------------------
Slot == [prm : Nat \ {0}, entp : Nat, var : Nat]
VariableType == [id : Nat, class : {"StorageBuffer", "Uniform", "Workgroup", "Input", "PushConstant"},
                 typed : BOOLEAN, fn : Nat \ {0}, prm : Nat]

\* The types of the variables.
TypeOK ==
    /\ pc \in {"conf", "count", "entries", "declare", "params", "bodies", "done", "crashed"}
    /\ at \in 1..(Len(prog) + 1)
    /\ err \in Errors /\ broken \subseteq Errors \ {OK}
    /\ nextId \in Nat /\ w0 \in 0..Len(prog) /\ fails \in 0..MaxFails /\ output \in BOOLEAN
    /\ \A n \in DOMAIN made : made[n] \in FirstId..(nextId - 1)
    /\ entp \in Seq([id : Nat, fn : Nat, io : Nat, num : Nat])
    /\ tables \in Seq(Seq(Slot))
    /\ variables \in Seq(VariableType)
    /\ visit \in [DOMAIN NoVisit -> Nat]
    /\ entries \in Seq([id : Nat, io : Seq(Nat)])
    /\ fns \in Seq([id : Nat, fn : Nat \ {0}, table : Seq(Slot)])

\* The declarations were visited to the end, with all the memory asked for.
Clean == broken = {} /\ fails = 0

Injective(f) == \A i, j \in DOMAIN f : f[i] = f[j] => i = j

\* The entry point of kernel k; the kernels before it have those before.
Before(k) == Cardinality({ i \in Kernels : i < k })
EntryOf(k) == entries[Before(k) + 1]

\* The ids of the entry points are computed three times: in the visit that
\* emits OpEntryPoint, in a loop before the bodies and as the anchor plus a
\* loop index.  The module has one OpFunction per OpEntryPoint, with its id,
\* and the function of an entry point is the kernel it names.
EntryIdsAgree ==
    output /\ fails = 0 =>
        /\ Len(entries) = NumEntp /\ Len(fns) = NumEntp
        /\ \A k \in Kernels : \E f \in Range(fns) :
              f.id = EntryOf(k).id /\ f.fn = k

\* The phases take ids in blocks from one counter: the entry points and
\* helpers, the interfaces, the variables with their types, the push
\* constants.  No two definitions share an id, and none is beyond the bound.
IdsUnique ==
    fails = 0 =>
        LET e == { r \in Range(entp) : r.fn # 0 }
            declared == { v.id : v \in Range(variables) }
        IN  /\ Injective([i \in DOMAIN variables |-> variables[i].id])
            /\ Injective(made)
            /\ Injective([i \in DOMAIN entries |-> entries[i].id])
            /\ declared \cap Range(made) = {}
            /\ { r.id : r \in e } \cap (declared \cup Range(made)) = {}
            /\ Range(made) \cap UNION { r.io..(r.io + r.num - 1) : r \in e } = {}
            /\ \A r, q \in e : r.num > 0 => q.id \notin r.io..(r.io + r.num - 1)
            /\ \A id \in declared \cup Range(made) \cup { r.id : r \in e } : id < nextId

\* Every body is compiled with the declarations of its own parameters, whatever
\* helpers and kernels stand between them: the tables are filled first to last
\* and read last to first.  A pointer or an array is found in the table, once,
\* with the id of a variable that was declared for it, and its binding is
\* counted from the kernel's first, left to right (OpenCL.md:23); scalars share
\* one push constant (OpenCL.md:24).
Bindables(f, n) == { i \in 1..n : prog[f].params[i].kind \in {"global", "constant"} }

HasBinding(f, i, id) ==
    i \in Bindables(f, i) => [id |-> id, binding |-> Cardinality(Bindables(f, i - 1))] \in bindings

Bound(body, i) ==
    \E s \in Range(body.table) :
        /\ { t \in Range(body.table) : t.prm = i } = {s}
        /\ s.entp = body.id - Anchor
        /\ \E v \in Range(variables) : v.id = s.var /\ v.fn = body.fn /\ v.prm = i
        /\ HasBinding(body.fn, i, s.var)

PushConstants(f) == { i \in DOMAIN variables : variables[i].class = "PushConstant"
                                               /\ variables[i].fn = f }

ParamsBound ==
    Clean => \A body \in Range(fns) :
        LET params == prog[body.fn].params IN
        /\ \A i \in DOMAIN params : params[i].kind \notin Scalars => Bound(body, i)
        /\ Cardinality(PushConstants(body.fn)) =
              IF \E i \in DOMAIN params : params[i].kind \in Scalars THEN 1 ELSE 0

\* The interface an entry point lists is counted by one visit and declared by
\* another, which numbers the declarations from the first id on.  Of the ids that
\* kernel k lists, those of its annotated pointers are declared, each as an input
\* of k; the ids reserved for its annotated scalars come last, and nothing
\* declares them.  Every input is listed by its own kernel.
PointerInputs(f) == Cardinality({ i \in DOMAIN f.params : f.params[i].kind = "input" })

InterfacesDeclared ==
    output /\ Clean =>
        /\ \A k \in Kernels : \A i \in DOMAIN EntryOf(k).io :
              (\E v \in Range(variables) : v.id = EntryOf(k).io[i] /\ v.class = "Input" /\ v.fn = k)
              <=> i <= PointerInputs(prog[k])
        /\ \A v \in Range(variables) : v.class = "Input" =>
              v.fn \in Kernels /\ v.id \in Range(EntryOf(v.fn).io)

\* The visitors walk a finite tree, and the loop over the kernels is driven by
\* counters in the context that the visits write too.  Every compilation comes
\* to its end, and one that answers OK has assembled a module with the body of
\* every kernel, whichever errors were overwritten on the way.
Delivers ==
    <>(\/ pc = "crashed"
       \/ /\ pc = "done"
          /\ err = OK => /\ output
                         /\ \A k \in Kernels : \E f \in Range(fns) : f.fn = k)
------------------------------------------------------------------------------
(***************************************************************************)
(* What the repository says and the code does not do.                      *)
(***************************************************************************)
\* OpenCL.md:24, for every kernel: one that has only scalars too.
PushConstantDeclared ==
    output /\ fails = 0 =>
        \A f \in Kernels :
            (\E i \in DOMAIN prog[f].params : prog[f].params[i].kind \in Scalars)
            => \E v \in Range(variables) : v.class = "PushConstant" /\ v.fn = f

\* OpenCL.md:42 "always parsed as u32[(COUNT + 3) / 4]": the length of a
\* workgroup array is computed from its count.
LocalLength == \A l \in lengths : l.used = l.count
=============================================================================
