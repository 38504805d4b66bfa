---------------------------- MODULE ConstantCache ----------------------------
(***************************************************************************)
(* How types and constants get their ids: the cache of nodes, one for each *)
(* word count or value, sorted by key (lib/util/constant.h and the pointer *)
(* template src/util/constant/ptr.c), and the fixed ids of the default     *)
(* types (lib/util/iddef.h).  A maker answers the id its memo holds, or    *)
(* emits the instruction into the types section under a fresh id, decorates*)
(* it, and fills the memo.                                                 *)
(*                                                                         *)
(* A maker holds a pointer to its node while it calls others.  A new node  *)
(* moves the whole vector and frees the old one, so the pointer goes stale:*)
(* a write through it is lost, and a read finds what was there, but for the*)
(* key, which may have been overwritten by then (trash).                   *)
(*                                                                         *)
(* An operator named after a maker maps the context before the call to the *)
(* context after it, with the answer in ret.  The caller decides which of  *)
(* the call's allocations fails (fuel); one fails in a behaviour at most.  *)
(* An emission is one allocation; of its words the model keeps the ids it  *)
(* defines and uses and its literal.  A decoration is the kind and the     *)
(* number it carries.  The build is the one without assertions.            *)
(***************************************************************************)
EXTENDS Integers, Sequences, FiniteSets, SequencesExt

CONSTANTS
    Keys,       \* the word counts, values, specialisation ids and their defaults
    Wanted,     \* the default types asked for
    MaxCalls,   \* bound: calls from outside the component
    MaxFuel     \* bound: a failing allocation is among the first MaxFuel

ASSUME CallAssumption ==
    /\ Keys \subseteq Nat
    /\ MaxCalls \in Nat
    /\ MaxFuel \in Nat

VARIABLES
    ctx,        \* what the makers read and write of x_aclspv_ctx
    asked,      \* the calls made, their answers, and whether one failed
    calls       \* how many there were

vars == << ctx, asked, calls >>
------------------------------------------------------------------------------
(***************************************************************************)
(* Default ids, in the order of e_id_default.                              *)
(***************************************************************************)
Defaults == << "VOID", "FN_VOID", "U8", "U8_PTR", "U16", "U16_PTR", "U32", "U32_PTR",
               "U64", "U64_PTR", "I32", "I32_PTR", "F16", "F16_PTR", "F32", "F32_PTR",
               "F64", "F64_PTR", "U32V4_INP", "U32V4_OUT" >>
DefaultId(d) == CHOOSE i \in DOMAIN Defaults : Defaults[i] = d
EndId == Len(Defaults) + 1

Bases == {"U8", "U16", "U32", "U64", "I32", "F16", "F32", "F64"}
Pointee == [p \in {"U8_PTR", "U16_PTR", "U32_PTR", "U64_PTR", "I32_PTR",
                   "F16_PTR", "F32_PTR", "F64_PTR"} |->
                CHOOSE b \in Bases : DefaultId(b) + 1 = DefaultId(p)]
Interfaces == {"U32V4_INP", "U32V4_OUT"}
Capability == [b \in {"U8", "U16", "U64", "F16", "F64"} |->
                CASE b = "U8" -> "Int8" [] b = "U16" -> "Int16" [] b = "U64" -> "Int64"
                  [] b = "F16" -> "Float16" [] b = "F64" -> "Float64"]
U32 == DefaultId("U32")

\* The default types util_mk_default_id is asked for.
ASSUME WantedAssumption == Wanted \subseteq Range(Defaults) \ {"FN_VOID"}

Fields == {"val", "spec", "vec32", "arr8", "arr16", "arr32", "arrspec32", "arr128",
           "struct", "struct128", "structpriv", "structprivspec",
           "ptr_psh", "ptr_storage", "ptr", "ptr_func", "ptr_work",
           "ptr_uniform", "ptr_uniformconst", "ptr_workspec"}

\* Mutant: the memset is left out.
MutEmptyNode(k) == [key |-> k, id |-> [f \in Fields |-> -1]]

EmptyNode(k) == [key |-> k, id |-> [f \in Fields |-> 0]]

\* sz_to_count
SzToCount(n) == (n + 3) \div 4
------------------------------------------------------------------------------
(***************************************************************************)
(* Emission.                                                               *)
(***************************************************************************)
Ret(s, id) == [s EXCEPT !.ret = id]

\* Spend an allocation; the last one the fuel allows is the one that fails.
Fails(s) == s.fuel = 1
Spend(s) == [s EXCEPT !.fuel = IF @ > 0 THEN @ - 1 ELSE 0,
                      !.failed = @ \/ Fails(s),
                      !.ok = ~Fails(s)]

\* by and key name the memo and the node the instruction was emitted for; a
\* default type's are "" and 0.
Instr(by, key, op, id, lit, uses) ==
    [by |-> by, key |-> key, op |-> op, id |-> id, lit |-> lit, uses |-> uses]

\* A failed emission loses its section.
Emit(s, i) == [Spend(s) EXCEPT !.types = IF Fails(s) THEN << >> ELSE Append(@, i)]
EmitCapability(s, c) == [Spend(s) EXCEPT !.caps = IF Fails(s) THEN << >> ELSE Append(@, c)]
Decorate(s, id, what) ==
    [Spend(s) EXCEPT !.deco = IF Fails(s) THEN {} ELSE @ \cup {<< id, what >>}]

\* Decorations: the kind and the number it carries.
ArrayStride == << "ArrayStride", 4 >>
ArrayStride128 == << "ArrayStride", 16 >>
Offset == << "Offset", 0 >>
Block == {<< "Block", 0 >>, Offset}
SpecId(k) == << "SpecId", k >>

\* As many allocations as there are decorations; the fuel may end at any.
DecorateEach(s, id, whats) ==
    LET n == Cardinality(whats)
        fails == s.fuel \in 1..n
    IN  [s EXCEPT !.fuel = IF @ > n THEN @ - n ELSE 0,
                  !.failed = @ \/ fails,
                  !.ok = ~fails,
                  !.deco = IF fails THEN {} ELSE @ \cup ({id} \X whats)]

\* Mutant: the offset of the member is left out.
MutDecorateAll(s, id, whats) == IF s.ok THEN DecorateEach(s, id, whats \ {Offset}) ELSE s

\* The decorations of an instruction that was emitted, until one fails.
DecorateAll(s, id, whats) == IF s.ok THEN DecorateEach(s, id, whats) ELSE s
------------------------------------------------------------------------------
(***************************************************************************)
(* The nodes.                                                              *)
(***************************************************************************)
Mid(l, r) == l + ((r - l) \div 2)

\* Mutant: the first node met whose key is not below k ends the search.
MutLowerBound(cache, k) ==
    LET Ends == 1..(Len(cache) + 1)
        search[w \in Ends \X Ends] ==
            LET l == w[1]  r == w[2]  m == Mid(l, r) IN
            IF l >= r THEN l
            ELSE IF cache[m].key >= k THEN m
            ELSE search[<< m + 1, r >>]
    IN  search[<< 1, Len(cache) + 1 >>]

\* The binary search of util_mk_constant_node and util_get_constant_node: the
\* index of the key, or the one it belongs at.
LowerBound(cache, k) ==
    LET Ends == 1..(Len(cache) + 1)
        search[w \in Ends \X Ends] ==
            LET l == w[1]  r == w[2]  m == Mid(l, r) IN
            IF l >= r THEN l
            ELSE IF cache[m].key = k THEN m
            ELSE IF cache[m].key < k THEN search[<< m + 1, r >>]
            ELSE search[<< l, m >>]
    IN  search[<< 1, Len(cache) + 1 >>]

IndexOf(s, k) == LowerBound(s.cache, k)
Holds(s, k) == IndexOf(s, k) <= Len(s.cache) /\ s.cache[IndexOf(s, k)].key = k

\* util_mk_constant_node.  The search also compares the node one past the end
\* of the vector; the model takes that word to differ from the key.
Node(s, k) ==
    IF Holds(s, k) THEN [s EXCEPT !.ok = TRUE]
    ELSE [Spend(s) EXCEPT !.gen = @ + 1,
            !.cache = IF Fails(s) THEN << >> ELSE InsertAt(@, IndexOf(s, k), EmptyNode(k))]

\* Mutant: the memo of the last node is written, whatever the key.
MutSetMemo(s, k, f, id) == [s EXCEPT !.cache[Len(s.cache)].id[f] = id]

Memo(s, k, f) == s.cache[IndexOf(s, k)].id[f]
SetMemo(s, k, f, id) == [s EXCEPT !.cache[IndexOf(s, k)].id[f] = id]

\* A pointer to a node taken in s is stale in t; what it writes is then lost,
\* and what it reads is what the node held in s.
Stale(s, t) == s.gen # t.gen
Through(s, t, k, f) == IF Stale(s, t) THEN Memo(s, k, f) ELSE Memo(t, k, f)
Write(s, t, k, f, id) == IF Stale(s, t) THEN t ELSE SetMemo(t, k, f, id)

\* Mutant: the id is not taken from the counter.
MutMake(s, k, f, op, lit, uses, whats) ==
    LET d == DecorateAll(Emit(s, Instr(f, k, op, s.next, lit, uses)), s.next, whats)
    IN  IF ~d.ok THEN Ret(d, 0)
        ELSE Ret(SetMemo(d, k, f, s.next), s.next)

\* Mutant: the memo is not filled.
MutMakeForgets(s, k, f, op, lit, uses, whats) ==
    LET d == DecorateAll(Emit(s, Instr(f, k, op, s.next, lit, uses)), s.next, whats)
    IN  IF ~d.ok THEN Ret(d, 0)
        ELSE Ret([d EXCEPT !.next = @ + 1], s.next)

\* The common end of the makers: the instruction, its decorations and only
\* then the id and the memo.
Make(s, k, f, op, lit, uses, whats) ==
    LET d == DecorateAll(Emit(s, Instr(f, k, op, s.next, lit, uses)), s.next, whats)
    IN  IF ~d.ok THEN Ret(d, 0)
        ELSE Ret(SetMemo([d EXCEPT !.next = @ + 1], k, f, s.next), s.next)
------------------------------------------------------------------------------
(***************************************************************************)
(* util_mk_default_id.                                                     *)
(***************************************************************************)
\* Mutant: a failed emission is not looked at.
MutFinish(s, d) == Ret([s EXCEPT !.defaults = @ \cup {d}], DefaultId(d))

Finish(s, d) == IF s.ok THEN Ret([s EXCEPT !.defaults = @ \cup {d}], DefaultId(d))
                ELSE Ret(s, 0)

\* A scalar or void, and the capability it takes.
Base(s, d) ==
    IF d \in s.defaults THEN Ret(s, DefaultId(d))
    ELSE LET e == Emit(s, Instr("", 0, "Type", DefaultId(d), d, << >>))
         IN  IF e.ok /\ d \in DOMAIN Capability
             THEN Finish(EmitCapability(e, Capability[d]), d)
             ELSE Finish(e, d)

\* The function type of the entry points; its name is one more allocation.
FnVoid(s) ==
    IF "FN_VOID" \in s.defaults THEN Ret(s, DefaultId("FN_VOID"))
    ELSE LET e == Emit(s, Instr("", 0, "TypeFunction", DefaultId("FN_VOID"), "", << DefaultId("VOID") >>))
         IN  Finish(IF e.ok THEN Spend(e) ELSE e, "FN_VOID")

Vec32(s, k) ==
    LET n == Node(s, k) u == Base(n, "U32") IN
    IF ~n.ok THEN Ret(n, 0)
    ELSE IF Memo(n, k, "vec32") # 0 THEN Ret(n, Memo(n, k, "vec32"))
    ELSE IF u.ret = 0 \/ k = 1 THEN u
    ELSE Make(u, k, "vec32", "TypeVector", k, << U32 >>, {})

Default(s, d) ==
    IF d \in s.defaults THEN Ret(s, DefaultId(d))
    ELSE IF d \in DOMAIN Pointee \cup Interfaces
    THEN LET e == IF d \in Interfaces THEN Vec32(s, 4) ELSE Base(s, Pointee[d])
             class == IF d \in Interfaces THEN d ELSE "Function"
         IN  IF e.ret = 0 THEN e
             ELSE Finish(Emit(e, Instr("", 0, "TypePointer", DefaultId(d), class, << e.ret >>)), d)
    ELSE Base(s, d)
------------------------------------------------------------------------------
(***************************************************************************)
(* Constants and arrays.                                                   *)
(***************************************************************************)
Val(s, k) ==
    LET n == Node(s, k) u == Base(n, "U32") IN
    IF ~n.ok THEN Ret(n, 0)
    ELSE IF Memo(n, k, "val") # 0 THEN Ret(n, Memo(n, k, "val"))
    ELSE IF u.ret = 0 THEN u
    ELSE Make(u, k, "val", "Constant", k, << U32 >>, {})

\* Mutant: the constant is decorated with its default.
MutSpec32(s, k, val) ==
    LET n == Node(s, k) u == Base(n, "U32") IN
    IF ~n.ok THEN Ret(n, 0)
    ELSE IF Memo(n, k, "spec") # 0 THEN Ret(n, Memo(n, k, "spec"))
    ELSE IF u.ret = 0 THEN u
    ELSE Make(u, k, "spec", "SpecConstant", val, << U32 >>, {SpecId(val)})

\* A specialisation constant is found by its number and holds the default it
\* was first asked for with.
Spec32(s, k, val) ==
    LET n == Node(s, k) u == Base(n, "U32") IN
    IF ~n.ok THEN Ret(n, 0)
    ELSE IF Memo(n, k, "spec") # 0 THEN Ret(n, Memo(n, k, "spec"))
    ELSE IF u.ret = 0 THEN u
    ELSE Make(u, k, "spec", "SpecConstant", val, << U32 >>, {SpecId(k)})

\* Mutant: the constant of the length is not made first.
MutArr(s, k, f, base) ==
    LET n == Node(s, k)
        b == Base(n, base)
    IN
    IF ~n.ok THEN Ret(n, 0)
    ELSE IF Memo(n, k, f) # 0 THEN Ret(n, Memo(n, k, f))
    ELSE IF b.ret = 0 \/ k = 1 THEN b
    ELSE Make(b, k, f, "TypeArray", "", << DefaultId(base), Memo(b, k, "val") >>, {ArrayStride})

\* util_mk_constant_arr8_id, arr16_id and arr32_id; nobody looks at whether
\* the constant of the length was made.
Arr(s, k, f, base) ==
    LET n == Node(s, k)
        v == IF Memo(n, k, "val") # 0 THEN n ELSE Val(n, k)
        b == Base(v, base)
    IN
    IF ~n.ok THEN Ret(n, 0)
    ELSE IF Memo(v, k, f) # 0 THEN Ret(v, Memo(v, k, f))
    ELSE IF b.ret = 0 \/ k = 1 THEN b
    ELSE Make(b, k, f, "TypeArray", "", << DefaultId(base), Memo(b, k, "val") >>, {ArrayStride})

Arr32(s, k) == Arr(s, k, "arr32", "U32")

ArrSpec32(s, k, count) ==
    LET n == Node(s, k)
        v == IF Memo(n, k, "spec") # 0 THEN n ELSE Spec32(n, k, count)
        b == Base(v, "U32")
    IN
    IF ~n.ok THEN Ret(n, 0)
    ELSE IF Memo(v, k, "arrspec32") # 0 THEN Ret(v, Memo(v, k, "arrspec32"))
    ELSE IF b.ret = 0 THEN b
    ELSE Make(b, k, "arrspec32", "TypeArray", "", << U32, Memo(b, k, "spec") >>, {ArrayStride})

\* The vector of four is asked for before the node is used: when it is new,
\* the pointer is stale from then on.  The decoration is written, but not
\* counted.
Arr128(s, k) ==
    LET n == Node(s, k)
        v == Vec32(n, 4)
        w == Val(v, k)
        e == Emit(w, Instr("arr128", k, "TypeArray", w.next, "",
                           << v.ret, Through(n, w, k, "val") >>))
        d == IF Fails(e) THEN Decorate(e, 0, ArrayStride128) ELSE Spend(e)
    IN
    IF ~n.ok \/ (Stale(n, v) /\ s.trash) THEN Ret(v, 0)
    ELSE IF w.ret = 0 THEN w
    ELSE IF Through(n, w, k, "arr128") # 0 THEN Ret(w, Through(n, w, k, "arr128"))
    ELSE IF k = 1 THEN Ret(w, v.ret)
    ELSE IF ~e.ok THEN Ret(e, 0)
    ELSE IF ~d.ok THEN Ret(d, 0)
    ELSE Ret(Write(n, [d EXCEPT !.next = @ + 1], k, "arr128", d.next), d.next)
------------------------------------------------------------------------------
(***************************************************************************)
(* Structures and pointers.                                                *)
(***************************************************************************)
\* The element array is made anew for a single word (it is u32 itself), and
\* nobody looks at whether it was.
Struct(s, k) ==
    LET n == Node(s, k)
        x == Arr32(n, k)
        a == IF Memo(n, k, "arr32") # 0 /\ k > 1 THEN n ELSE SetMemo(x, k, "arr32", x.ret)
    IN
    IF ~n.ok THEN Ret(n, 0)
    ELSE IF Memo(a, k, "struct") # 0 THEN Ret(a, Memo(a, k, "struct"))
    ELSE Make(a, k, "struct", "TypeStruct", "", << Memo(a, k, "arr32") >>, Block)

Struct128(s, k) ==
    LET n == Node(s, k)
        x == Arr128(n, k)
        a == Write(n, x, k, "arr128", x.ret)
        d == DecorateAll(Emit(a, Instr("struct128", k, "TypeStruct", a.next, "", << x.ret >>)),
                         a.next, Block)
    IN
    IF ~n.ok THEN Ret(n, 0)
    ELSE IF x.ret = 0 THEN a
    ELSE IF Through(n, a, k, "struct128") # 0 THEN Ret(a, Through(n, a, k, "struct128"))
    ELSE IF ~d.ok THEN Ret(d, 0)
    ELSE Ret(Write(n, [d EXCEPT !.next = @ + 1], k, "struct128", a.next), a.next)

StructPriv(s, k) ==
    LET n == Node(s, k)
        x == Arr32(n, k)
        a == IF Memo(n, k, "arr32") # 0 THEN n ELSE SetMemo(x, k, "arr32", x.ret)
    IN
    IF ~n.ok THEN Ret(n, 0)
    ELSE IF Memo(a, k, "arr32") = 0 THEN Ret(a, 0)
    ELSE IF Memo(a, k, "structpriv") # 0 THEN Ret(a, Memo(a, k, "structpriv"))
    ELSE Make(a, k, "structpriv", "TypeStruct", "", << Memo(a, k, "arr32") >>, {})

StructPrivSpec(s, k, count) ==
    LET n == Node(s, k)
        a == IF Memo(n, k, "arrspec32") # 0 THEN n ELSE ArrSpec32(n, k, count)
    IN
    IF ~n.ok THEN Ret(n, 0)
    ELSE IF Memo(a, k, "structprivspec") # 0 THEN Ret(a, Memo(a, k, "structprivspec"))
    ELSE Make(a, k, "structprivspec", "TypeStruct", "", << Memo(a, k, "arrspec32") >>, {})

\* _util_mk_constant_ptr_tmpl: f is the pointer's memo, g the pointee's, and x
\* the context after the pointee's maker, called with the node in place.
Pointer(s, k, f, g, x, class) ==
    LET n == Node(s, k)
        a == IF Memo(n, k, g) # 0 THEN n ELSE SetMemo(x, k, g, x.ret)
    IN
    IF ~n.ok THEN Ret(n, 0)
    ELSE IF Memo(n, k, f) # 0 THEN Ret(n, Memo(n, k, f))
    ELSE IF Memo(a, k, g) = 0 THEN Ret(a, 0)
    ELSE Make(a, k, f, "TypePointer", class, << Memo(a, k, g) >>, {})

\* util_mk_constant_ptr_uniform_id and ptr_uniformconstant_id: the pointee
\* belongs to another key.
PointerUniform(s, k, f, class) ==
    LET n == Node(s, k)
        x == Struct128(n, SzToCount(k))
        made == Memo(n, k, "struct128") = 0
        a == IF made THEN Write(n, x, k, "struct128", x.ret) ELSE n
        elm == IF made THEN x.ret ELSE Memo(n, k, "struct128")
        e == Emit(a, Instr(f, k, "TypePointer", a.next, class, << elm >>))
    IN
    IF ~n.ok THEN Ret(n, 0)
    ELSE IF Through(n, a, k, f) # 0 THEN Ret(a, Through(n, a, k, f))
    ELSE IF ~e.ok THEN Ret(e, 0)
    ELSE Ret(Write(n, [e EXCEPT !.next = @ + 1], k, f, a.next), a.next)

PointerWorkSpec(s, k, count) ==
    LET n == Node(s, k)
        a == IF Memo(n, k, "structprivspec") # 0 THEN n ELSE StructPrivSpec(n, k, count)
    IN
    IF ~n.ok THEN Ret(n, 0)
    ELSE IF Memo(a, k, "ptr_workspec") # 0 THEN Ret(a, Memo(a, k, "ptr_workspec"))
    ELSE Make(a, k, "ptr_workspec", "TypePointer", "Workgroup", << Memo(a, k, "structpriv") >>, {})
------------------------------------------------------------------------------
(***************************************************************************)
(* The calls from outside, in any order.                                   *)
(***************************************************************************)
NoContext == [cache |-> << >>, types |-> << >>, caps |-> << >>, deco |-> {},
              defaults |-> {}, next |-> EndId, failed |-> FALSE,
              gen |-> 0, ret |-> 0, fuel |-> 0, ok |-> TRUE, trash |-> FALSE]

Init == ctx = NoContext /\ asked = {} /\ calls = 0

\* What is left of a call when it has returned.
Returned(s) == [s EXCEPT !.gen = 0, !.ret = 0, !.fuel = 0, !.ok = TRUE, !.trash = FALSE]

Call(name, k, F(_)) ==
    /\ calls < MaxCalls
    /\ calls' = calls + 1
    /\ \E fuel \in 0..MaxFuel, trash \in BOOLEAN :
        /\ ctx.failed => fuel = 0
        /\ LET s == F([ctx EXCEPT !.fuel = fuel, !.trash = trash]) IN
            /\ ctx' = Returned(s)
            /\ asked' = asked \cup {[call |-> name, key |-> k, ret |-> s.ret,
                                     failed |-> s.failed /\ ~ctx.failed]}

MkVal(k)            == Call("val", k, LAMBDA s : Val(s, k))
MkVec32(k)          == Call("vec32", k, LAMBDA s : Vec32(s, k))
MkArr8(k)           == Call("arr8", k, LAMBDA s : Arr(s, k, "arr8", "U8"))
MkArr16(k)          == Call("arr16", k, LAMBDA s : Arr(s, k, "arr16", "U16"))
MkArr32(k)          == Call("arr32", k, LAMBDA s : Arr32(s, k))
MkArr128(k)         == Call("arr128", k, LAMBDA s : Arr128(s, k))
MkStruct(k)         == Call("struct", k, LAMBDA s : Struct(s, k))
MkStruct128(k)      == Call("struct128", k, LAMBDA s : Struct128(s, k))
MkStructPriv(k)     == Call("structpriv", k, LAMBDA s : StructPriv(s, k))

MkPtrPsh(k) ==
    Call("ptr_psh", k, LAMBDA s :
        Pointer(s, k, "ptr_psh", "struct", Struct(Node(s, k), k), "PushConstant"))
MkPtrStorage(k) ==
    Call("ptr_storage", k, LAMBDA s :
        Pointer(s, k, "ptr_storage", "struct", Struct(Node(s, k), k), "StorageBuffer"))
MkPtr(k) ==
    Call("ptr", k, LAMBDA s : Pointer(s, k, "ptr", "structpriv", StructPriv(Node(s, k), k), "Private"))
MkPtrFunc(k) ==
    Call("ptr_func", k, LAMBDA s :
        Pointer(s, k, "ptr_func", "structpriv", StructPriv(Node(s, k), k), "Function"))
MkPtrWork(k) ==
    Call("ptr_work", k, LAMBDA s :
        Pointer(s, k, "ptr_work", "structpriv", StructPriv(Node(s, k), k), "Workgroup"))
MkPtrUniform(k) ==
    Call("ptr_uniform", k, LAMBDA s : PointerUniform(s, k, "ptr_uniform", "Uniform"))
MkPtrUniformConst(k) ==
    Call("ptr_uniformconst", k, LAMBDA s : PointerUniform(s, k, "ptr_uniformconst", "UniformConstant"))

\* A specialisation constant and what is built on it: k is the number, val the
\* default or the word count.
MkSpec32(k, val)         == Call("spec", k, LAMBDA s : Spec32(s, k, val))
MkArrSpec32(k, val)      == Call("arrspec32", k, LAMBDA s : ArrSpec32(s, k, val))
MkStructPrivSpec(k, val) == Call("structprivspec", k, LAMBDA s : StructPrivSpec(s, k, val))
MkPtrWorkSpec(k, val)    == Call("ptr_workspec", k, LAMBDA s : PointerWorkSpec(s, k, val))

MkDefault(d) == Call("default", DefaultId(d), LAMBDA s : Default(s, d))

\* aclspv_compile, before the bodies: two calls, whose answers nobody looks at.
DeclareVoid == Call("void", DefaultId("FN_VOID"), LAMBDA s : FnVoid(Base(s, "VOID")))

Finished == calls = MaxCalls /\ UNCHANGED vars

Next ==
    \/ \E k \in Keys :
        \/ MkVal(k) \/ MkVec32(k)
        \/ MkArr8(k) \/ MkArr16(k) \/ MkArr32(k) \/ MkArr128(k)
        \/ MkStruct(k) \/ MkStruct128(k) \/ MkStructPriv(k)
        \/ MkPtrPsh(k) \/ MkPtrStorage(k) \/ MkPtr(k) \/ MkPtrFunc(k) \/ MkPtrWork(k)
        \/ MkPtrUniform(k) \/ MkPtrUniformConst(k)
    \/ \E k, val \in Keys :
        MkSpec32(k, val) \/ MkArrSpec32(k, val) \/ MkStructPrivSpec(k, val) \/ MkPtrWorkSpec(k, val)
    \/ \E d \in Wanted : MkDefault(d)
    \/ DeclareVoid
    \/ Finished

Spec == Init /\ [][Next]_vars
------------------------------------------------------------------------------
(***************************************************************************)
(* Properties                                                              *)
(***************************************************************************)
\* No allocation has failed.  A failure may leave the sections without what
\* the memos name.
Intact == ~ctx.failed

\* The nodes hold an id or zero for every field, instructions define an id,
\* and the counter is beyond the default ids.
TypeOK ==
    /\ \A i \in DOMAIN ctx.cache : ctx.cache[i] \in [key : Nat, id : [Fields -> Nat]]
    /\ \A i \in DOMAIN ctx.types : ctx.types[i].id \in Nat \ {0}
    /\ ctx.next \in Nat /\ ctx.next >= EndId
    /\ calls \in 0..MaxCalls

\* The cache is sorted by strictly increasing key, and the search finds each
\* node, whatever the order of the calls and whichever allocation failed: a
\* node a search misses would be made a second time.
KeysSorted ==
    /\ \A i, j \in DOMAIN ctx.cache : i < j => ctx.cache[i].key < ctx.cache[j].key
    /\ \A i \in DOMAIN ctx.cache : LowerBound(ctx.cache, ctx.cache[i].key) = i

\* No two instructions of the types section define the same id, and the
\* counter is beyond them all, although the id is taken from the counter only
\* when a maker that called others has succeeded.
IdsDefinedOnce ==
    Intact => \A i, j \in DOMAIN ctx.types :
                /\ ctx.types[i].id < ctx.next
                /\ i # j => ctx.types[i].id # ctx.types[j].id

\* The makers that answer and forget: a call of theirs that makes the vector
\* of four moves the nodes under them; and the specialised workgroup pointer,
\* whose pointee is another maker's memo.
Unsound == {"arr128", "struct128", "ptr_uniform", "ptr_uniformconst", "ptr_workspec"}

\* Memos do not share ids: even after a call that failed half way, when its
\* instruction is emitted and its id was never counted, no two nodes or fields
\* remember the same id, and none an id the counter has still to give.
MemosDistinct ==
    LET memos == (DOMAIN ctx.cache) \X (Fields \ Unsound)
        Id(m) == ctx.cache[m[1]].id[m[2]]
    IN  \A m, n \in memos :
            /\ Id(m) < ctx.next
            /\ m # n /\ Id(m) >= EndId => Id(m) # Id(n)

\* A maker that calls none but the makers of default types answers 0 when any
\* allocation of its call fails: the node, the type, its capability, the
\* instruction or the decoration.
LeavesReportFailure ==
    \A a \in asked :
        a.call \in {"val", "spec", "vec32", "default"} /\ a.failed => a.ret = 0

\* What an instruction made for field f of a node takes from the same node:
\* its literal and the memos of its operands.
Operands(n, f) ==
    CASE f \in {"val", "spec", "vec32"} -> << U32 >>
      [] f = "arr8" -> << DefaultId("U8"), n.id["val"] >>
      [] f = "arr16" -> << DefaultId("U16"), n.id["val"] >>
      [] f = "arr32" -> << U32, n.id["val"] >>
      [] f = "arrspec32" -> << U32, n.id["spec"] >>
      [] f \in {"struct", "structpriv"} -> << n.id["arr32"] >>
      [] f = "structprivspec" -> << n.id["arrspec32"] >>
      [] f \in {"ptr_psh", "ptr_storage"} -> << n.id["struct"] >>
      [] OTHER -> << n.id["structpriv"] >>

\* A memo names the instruction that was emitted for its own node and field,
\* with the operands the node remembers (an array of one word is the word); a
\* constant's literal is the key, a specialisation constant's number is; and a
\* default type that is noted is declared.
MemoTruthful ==
    Intact =>
        /\ \A c \in DOMAIN ctx.cache : \A f \in Fields \ Unsound :
            LET n == ctx.cache[c] IN
            n.id[f] # 0 =>
                \E i \in DOMAIN ctx.types :
                    /\ ctx.types[i].id = n.id[f]
                    /\ \/ /\ ctx.types[i].by = f
                          /\ ctx.types[i].uses = Operands(n, f)
                          /\ f \in {"val", "vec32"} => ctx.types[i].lit = n.key
                          /\ f = "spec" => << n.id[f], SpecId(n.key) >> \in ctx.deco
                       \/ n.key = 1 /\ f = "arr32" /\ n.id[f] = U32
        /\ \A d \in ctx.defaults : \E i \in DOMAIN ctx.types : ctx.types[i].id = DefaultId(d)

\* The types section declares before it uses: each operand of an instruction
\* is the result of an earlier one.
OperandsDefined ==
    Intact => \A i \in DOMAIN ctx.types :
        ctx.types[i].by \notin Unsound =>
            \A u \in DOMAIN ctx.types[i].uses :
                \E j \in 1..(i - 1) : ctx.types[j].id = ctx.types[i].uses[u]

\* No type and no constant is declared twice: no two instructions differ in
\* their ids alone, decorations included.  Two specialisation constants may hold
\* the same default, and a structure for buffers may have the member of a
\* private one: their decorations tell them apart.
Looks(i) == << ctx.types[i].op, ctx.types[i].lit, ctx.types[i].uses,
               { d[2] : d \in { p \in ctx.deco : p[1] = ctx.types[i].id } } >>

NoTwins ==
    Intact => \A i, j \in DOMAIN ctx.types :
        i # j /\ {ctx.types[i].by, ctx.types[j].by} \cap Unsound = {} => Looks(i) # Looks(j)

\* What a storage buffer or a push constant needs of its types is decorated:
\* arrays have a stride, structures a block and an offset, specialisation
\* constants their number, and nothing else is decorated (deco is a set: how
\* often is not seen).  And a capability is declared, once, if a type that
\* takes it is.
Wants(i) ==
    CASE i.by \in {"arr8", "arr16", "arr32", "arrspec32"} -> {ArrayStride}
      [] i.by = "spec" -> {SpecId(i.key)}
      [] i.by \in {"struct", "struct128"} -> Block
      [] OTHER -> {}

Decorated ==
    Intact =>
        /\ ctx.deco = UNION { { << ctx.types[i].id, w >> : w \in Wants(ctx.types[i]) } :
                                i \in DOMAIN ctx.types }
        /\ \A i, j \in DOMAIN ctx.caps : i # j => ctx.caps[i] # ctx.caps[j]
        /\ Range(ctx.caps) =
            { Capability[d] : d \in { b \in DOMAIN Capability :
                \E i \in DOMAIN ctx.types : ctx.types[i].id = DefaultId(b) } }

\* A maker that gives an id twice for a key gives the same one, whatever was
\* asked in between.
SameAnswers(names) ==
    Intact => \A a, b \in asked :
        /\ a.call \in names /\ a.call = b.call /\ a.key = b.key
        /\ a.ret # 0 /\ b.ret # 0
        => a.ret = b.ret

CacheStable == SameAnswers((Fields \cup {"default"}) \ (Unsound \ {"ptr_workspec"}))
------------------------------------------------------------------------------
(***************************************************************************)
(* What the code says of itself and does not keep: it is violated, and the *)
(* README says how.                                                        *)
(***************************************************************************)
\* "cache for elements related to unsigned integer constants" (lib/util/ctx.h):
\* every maker remembers what it made.
CachesAll == SameAnswers(Fields \cup {"default"})
=============================================================================
