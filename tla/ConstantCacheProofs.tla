------------------------- MODULE ConstantCacheProofs -------------------------
(***************************************************************************)
(* What holds of types and constants for any keys, any number of calls and *)
(* a failing allocation anywhere.                                          *)
(***************************************************************************)
EXTENDS ConstantCache, SequenceTheorems, FiniteSetTheorems, WellFoundedInduction, TLAPS

------------------------------------------------------------------------------
(***************************************************************************)
(* The binary search.  It is a recursive function; the lemma that a set of *)
(* naturals has a least element stands for induction on the width of the   *)
(* window.                                                                 *)
(***************************************************************************)
LEMMA Least ==
    ASSUME NEW T \in SUBSET Nat, T # {}
    PROVE  \E x \in T : \A y \in T : x <= y
<1> DEFINE R == OpToRel(<, Nat)
<1>1. IsWellFoundedOn(R, Nat)
  BY NatLessThanWellFounded
<1>2. PICK x \in T : \A y \in T : ~(<< y, x >> \in R)
  <2> HIDE DEF R
  <2>1. QED
    BY <1>1, WFMin
<1>3. \A y \in T : ~(y < x)
  BY <1>2 DEF OpToRel
<1>4. QED
  BY <1>3

LEMMA MidOK ==
    ASSUME NEW l \in Nat, NEW r \in Nat, l < r
    PROVE  Mid(l, r) \in Nat /\ l <= Mid(l, r) /\ Mid(l, r) < r
BY DEF Mid

\* A step of the search over the window from l to r, with g to look further.
Look(g, cache, k, l, r) ==
    IF l >= r THEN l
    ELSE IF cache[Mid(l, r)].key = k THEN Mid(l, r)
    ELSE IF cache[Mid(l, r)].key < k THEN g[<< Mid(l, r) + 1, r >>]
    ELSE g[<< l, Mid(l, r) >>]

Fix(g, cache, k, E) == g = [w \in E \X E |-> Look(g, cache, k, w[1], w[2])]

\* The answers of the search for windows of at most d nodes.
FixUpTo(g, cache, k, E, d) ==
    /\ g = [w \in E \X E |-> g[w]]
    /\ \A l \in E, r \in E : r <= l + d => g[<< l, r >>] = Look(g, cache, k, l, r)

\* The first index whose key is not below k.
IsBound(cache, k, i) ==
    /\ i \in 1..(Len(cache) + 1)
    /\ \A j \in 1..Len(cache) : j < i => cache[j].key < k
    /\ \A j \in 1..Len(cache) : j >= i => cache[j].key >= k

LEMMA SearchStep ==
    ASSUME NEW cache, NEW k, NEW n \in Nat, NEW d \in Nat, NEW g, FixUpTo(g, cache, k, 1..n, d)
    PROVE  \E h : FixUpTo(h, cache, k, 1..n, d + 1)
<1> DEFINE E == 1..n
           h == [w \in E \X E |-> Look(g, cache, k, w[1], w[2])]
<1>1. \A l \in E, r \in E : h[<< l, r >>] = Look(g, cache, k, l, r)
  OBVIOUS
<1>2. h = [w \in E \X E |-> h[w]]
  OBVIOUS
<1>3. \A l \in E, r \in E : r <= l + d => g[<< l, r >>] = Look(g, cache, k, l, r)
  BY DEF FixUpTo
<1> HIDE DEF h
<1>4. \A l \in E, r \in E : r <= l + d => g[<< l, r >>] = h[<< l, r >>]
  BY <1>1, <1>3
<1>5. ASSUME NEW l \in E, NEW r \in E, r <= l + (d + 1)
      PROVE  Look(g, cache, k, l, r) = Look(h, cache, k, l, r)
  <2>1. CASE l >= r
    BY <2>1 DEF Look
  <2>2. CASE l < r
    <3> DEFINE m == Mid(l, r)
    <3>1. m \in Nat /\ l <= m /\ m < r
      BY <2>2, MidOK
    <3> HIDE DEF m
    <3>2. m + 1 \in E /\ m \in E /\ r <= (m + 1) + d /\ m <= l + d
      BY <3>1, <1>5
    <3>3. g[<< m + 1, r >>] = h[<< m + 1, r >>] /\ g[<< l, m >>] = h[<< l, m >>]
      BY <3>2, <1>4
    <3>4. QED
      BY <3>3, Zenon DEF Look, m
  <2>3. QED
    BY <2>1, <2>2
<1>6. \A l \in E, r \in E : r <= l + (d + 1) => h[<< l, r >>] = Look(h, cache, k, l, r)
  BY <1>1, <1>5
<1>7. QED
  BY <1>2, <1>6 DEF FixUpTo

LEMMA SearchUpTo ==
    ASSUME NEW cache, NEW k, NEW n \in Nat
    PROVE  \A d \in Nat : \E g : FixUpTo(g, cache, k, 1..n, d)
<1> DEFINE P(d) == \E g : FixUpTo(g, cache, k, 1..n, d)
           T == {d \in Nat : ~P(d)}
<1>1. SUFFICES ASSUME T # {} PROVE FALSE
  OBVIOUS
<1>2. PICK d \in T : \A e \in T : d <= e
  <2> T \in SUBSET Nat
    OBVIOUS
  <2> HIDE DEF T
  <2>1. QED
    BY <1>1, Least
<1>3. CASE d = 0
  <2> DEFINE g == [w \in (1..n) \X (1..n) |-> w[1]]
  <2>1. g = [w \in (1..n) \X (1..n) |-> g[w]]
    OBVIOUS
  <2>2. \A l \in 1..n, r \in 1..n : r <= l + 0 => g[<< l, r >>] = Look(g, cache, k, l, r)
    BY DEF Look
  <2>3. FixUpTo(g, cache, k, 1..n, 0)
    BY <2>1, <2>2, Zenon DEF FixUpTo
  <2>4. QED
    BY <2>3, <1>3
<1>4. CASE d # 0
  <2>1. d - 1 \in Nat /\ (d - 1) + 1 = d
    BY <1>4
  <2>2. P(d - 1)
    BY <2>1, <1>2
  <2>3. P((d - 1) + 1)
    BY <2>1, <2>2, SearchStep, Zenon
  <2>4. QED
    BY <2>1, <2>3
<1>5. QED
  BY <1>3, <1>4

LEMMA SearchDefined ==
    ASSUME NEW cache, NEW k, NEW n \in Nat
    PROVE  \E g : Fix(g, cache, k, 1..n)
<1>1. PICK g : FixUpTo(g, cache, k, 1..n, n)
  BY SearchUpTo
<1>2. \A l \in 1..n, r \in 1..n : g[<< l, r >>] = Look(g, cache, k, l, r)
  <2>1. \A l \in 1..n, r \in 1..n : r <= l + n => g[<< l, r >>] = Look(g, cache, k, l, r)
    BY <1>1 DEF FixUpTo
  <2>2. \A l \in 1..n, r \in 1..n : r <= l + n
    OBVIOUS
  <2>3. QED
    BY <2>1, <2>2
<1>3. g = [w \in (1..n) \X (1..n) |-> g[w]]
  BY <1>1 DEF FixUpTo
<1>4. \A w \in (1..n) \X (1..n) : g[w] = Look(g, cache, k, w[1], w[2])
  BY <1>2
<1>5. g = [w \in (1..n) \X (1..n) |-> Look(g, cache, k, w[1], w[2])]
  BY <1>3, <1>4, Zenon
<1>6. QED
  BY <1>5, Zenon DEF Fix

\* LowerBound is what such a function answers for the whole vector.
LEMMA LowerBoundUnfold ==
    ASSUME NEW cache, NEW k, NEW n \in Nat, n = Len(cache) + 1
    PROVE  \E h : Fix(h, cache, k, 1..n) /\ LowerBound(cache, k) = h[<< 1, n >>]
<1> DEFINE h == CHOOSE h : Fix(h, cache, k, 1..n)
<1>1. Fix(h, cache, k, 1..n)
  <2>1. \E x : Fix(x, cache, k, 1..n)
    BY SearchDefined
  <2>2. QED
    BY <2>1, Zenon
<1>2. LowerBound(cache, k) = h[<< 1, n >>]
  <2>1. LowerBound(cache, k) = (CHOOSE x : Fix(x, cache, k, 1..(Len(cache) + 1)))[<< 1, Len(cache) + 1 >>]
    BY Zenon DEF LowerBound, Look, Fix
  <2>2. QED
    BY <2>1
<1>3. QED
  <2> HIDE DEF h
  <2>1. QED
    BY <1>1, <1>2

KeysOf(cache) == \A i \in DOMAIN cache : cache[i].key \in Nat

Sorted(cache) == \A i, j \in DOMAIN cache : i < j => cache[i].key < cache[j].key

\* What such a function answers for a window outside of which the keys are on
\* their side of k.
WindowOK(h, cache, k, n, l, r) ==
    l <= r
    /\ (\A j \in 1..(n - 1) : j < l => cache[j].key < k)
    /\ (\A j \in 1..(n - 1) : j >= r => cache[j].key >= k)
    => IsBound(cache, k, h[<< l, r >>])

LEMMA WindowStep ==
    ASSUME NEW n \in Nat, NEW cache, Len(cache) + 1 = n, DOMAIN cache = 1..(n - 1),
           KeysOf(cache), Sorted(cache), NEW k \in Nat, NEW h, Fix(h, cache, k, 1..n),
           NEW l \in 1..n, NEW r \in 1..n,
           \A a, b \in 1..n : b - a < r - l => WindowOK(h, cache, k, n, a, b)
    PROVE  WindowOK(h, cache, k, n, l, r)
<1> SUFFICES ASSUME l <= r,
                    \A j \in 1..(n - 1) : j < l => cache[j].key < k,
                    \A j \in 1..(n - 1) : j >= r => cache[j].key >= k
             PROVE  IsBound(cache, k, h[<< l, r >>])
  BY DEF WindowOK
<1>1. h[<< l, r >>] = Look(h, cache, k, l, r)
  BY DEF Fix
<1>2. CASE l = r
  <2>1. h[<< l, r >>] = l
    BY <1>1, <1>2 DEF Look
  <2>2. IsBound(cache, k, l)
    BY <1>2 DEF IsBound
  <2>3. QED
    BY <2>1, <2>2
<1>3. CASE l < r
  <2>1. PICK m \in Nat : m = Mid(l, r) /\ l <= m /\ m < r
    BY <1>3, MidOK
  <2>2. m \in 1..(n - 1) /\ m \in 1..n /\ m + 1 \in 1..n /\ cache[m].key \in Nat
    BY <2>1 DEF KeysOf
  <2>3. \A j \in 1..(n - 1) : (j < m => cache[j].key < cache[m].key)
                              /\ (j > m => cache[m].key < cache[j].key)
    BY <2>2 DEF Sorted
  <2>4. \A j \in 1..(n - 1) : cache[j].key \in Nat
    BY DEF KeysOf
  <2>5. h[<< l, r >>] = IF cache[m].key = k THEN m
                        ELSE IF cache[m].key < k THEN h[<< m + 1, r >>]
                        ELSE h[<< l, m >>]
    <3>1. ~(l >= r)
      BY <1>3
    <3>2. QED
      BY <1>1, <2>1, <3>1, Zenon DEF Look
  <2>6. CASE cache[m].key = k
    <3>1. h[<< l, r >>] = m
      BY <2>5, <2>6
    <3>2. \A j \in 1..(n - 1) : j < m => cache[j].key < k
      BY <2>3, <2>6
    <3>3. \A j \in 1..(n - 1) : j >= m => cache[j].key >= k
      BY <2>2, <2>3, <2>4, <2>6
    <3>4. QED
      BY <2>2, <3>1, <3>2, <3>3 DEF IsBound
  <2>7. CASE cache[m].key < k
    <3>1. h[<< l, r >>] = h[<< m + 1, r >>]
      BY <2>2, <2>5, <2>7
    <3>2. \A j \in 1..(n - 1) : j < m + 1 => cache[j].key < k
      BY <2>2, <2>3, <2>4, <2>7
    <3>3. r - (m + 1) < r - l /\ m + 1 <= r
      BY <2>1
    <3>4. WindowOK(h, cache, k, n, m + 1, r)
      BY <2>2, <3>3
    <3>5. QED
      BY <3>1, <3>2, <3>3, <3>4 DEF WindowOK
  <2>8. CASE ~(cache[m].key = k) /\ ~(cache[m].key < k)
    <3>1. h[<< l, r >>] = h[<< l, m >>]
      BY <2>5, <2>8
    <3>2. \A j \in 1..(n - 1) : j >= m => cache[j].key >= k
      BY <2>2, <2>3, <2>4, <2>8
    <3>3. m - l < r - l /\ l <= m
      BY <2>1
    <3>4. WindowOK(h, cache, k, n, l, m)
      BY <2>2, <3>3
    <3>5. QED
      BY <3>1, <3>2, <3>3, <3>4 DEF WindowOK
  <2>9. QED
    BY <2>6, <2>7, <2>8
<1>4. QED
  BY <1>2, <1>3

\* The search finds the first index whose key is not below k.
LEMMA LowerBoundOK ==
    ASSUME NEW n \in Nat, NEW cache, Len(cache) + 1 = n, DOMAIN cache = 1..(n - 1),
           KeysOf(cache), Sorted(cache), NEW k \in Nat, n # 0
    PROVE  IsBound(cache, k, LowerBound(cache, k))
<1>1. PICK h : Fix(h, cache, k, 1..n) /\ LowerBound(cache, k) = h[<< 1, n >>]
  BY LowerBoundUnfold
<1> DEFINE T == {d \in Nat : \E l, r \in 1..n : r - l = d /\ ~WindowOK(h, cache, k, n, l, r)}
<1>2. T = {}
  <2> SUFFICES ASSUME T # {} PROVE FALSE
    OBVIOUS
  <2>1. PICK d \in T : \A e \in T : d <= e
    <3> T \in SUBSET Nat
      OBVIOUS
    <3> HIDE DEF T
    <3>1. QED
      BY Least
  <2>2. PICK l \in 1..n, r \in 1..n : r - l = d /\ ~WindowOK(h, cache, k, n, l, r)
    BY <2>1
  <2>3. \A a, b \in 1..n : b - a < r - l => WindowOK(h, cache, k, n, a, b)
    <3> SUFFICES ASSUME NEW a \in 1..n, NEW b \in 1..n, b - a < r - l,
                        ~WindowOK(h, cache, k, n, a, b)
                 PROVE  FALSE
      OBVIOUS
    <3>1. a <= b
      BY Zenon DEF WindowOK
    <3>2. b - a \in T
      BY <3>1
    <3>3. d <= b - a
      BY <2>1, <3>2
    <3>4. QED
      BY <2>2, <3>3
  <2>4. WindowOK(h, cache, k, n, l, r)
    BY <1>1, <2>3, WindowStep
  <2>5. QED
    BY <2>2, <2>4
<1>3. WindowOK(h, cache, k, n, 1, n)
  <2>1. n - 1 \in Nat /\ 1 \in 1..n /\ n \in 1..n
    OBVIOUS
  <2>2. n - 1 \notin T
    <3> HIDE DEF T
    <3>1. QED
      BY <1>2
  <2>3. QED
    BY <2>1, <2>2
<1>4. (\A j \in 1..(n - 1) : j < 1 => cache[j].key < k)
      /\ (\A j \in 1..(n - 1) : j >= n => cache[j].key >= k)
  OBVIOUS
<1>5. QED
  BY <1>1, <1>3, <1>4 DEF WindowOK
------------------------------------------------------------------------------
(***************************************************************************)
(* The inductive invariant.                                                *)
(***************************************************************************)
\* The memos that are not written through a pointer that may be stale.
Kept == {"val", "spec", "vec32", "arr8", "arr16", "arr32", "arrspec32",
         "struct", "structpriv", "structprivspec",
         "ptr_psh", "ptr_storage", "ptr", "ptr_func", "ptr_work", "ptr_workspec"}
Sound == Kept \ {"ptr_workspec"}

DefaultNames == {"VOID", "FN_VOID", "U8", "U8_PTR", "U16", "U16_PTR", "U32", "U32_PTR",
                 "U64", "U64_PTR", "I32", "I32_PTR", "F16", "F16_PTR", "F32", "F32_PTR",
                 "F64", "F64_PTR", "U32V4_INP", "U32V4_OUT"}
Classes == {"PushConstant", "StorageBuffer", "Private", "Function", "Workgroup",
            "Uniform", "UniformConstant"}
CapNames == {"Int8", "Int16", "Int64", "Float16", "Float64"}
Whats == {"ArrayStride", "SpecId", "Block", "Offset"} \X Nat

NodeT == [key : Nat, id : [Fields -> Nat]]
InstrT == [by : Fields \cup {""},
           key : Nat,
           op : {"Type", "TypeFunction", "TypePointer", "TypeVector", "Constant",
                 "SpecConstant", "TypeArray", "TypeStruct"},
           id : Nat \ {0},
           lit : Nat \cup {""} \cup Classes \cup DefaultNames,
           uses : Seq(Nat)]
CtxT == [cache : Seq(NodeT), types : Seq(InstrT), caps : Seq(CapNames),
         deco : SUBSET (Nat \X Whats), defaults : SUBSET DefaultNames, next : Nat,
         failed : BOOLEAN, gen : Nat, ret : Nat, fuel : Nat, ok : BOOLEAN, trash : BOOLEAN]

Shape(s) == s \in CtxT /\ s.next >= EndId /\ Sorted(s.cache)

\* What is remembered for a key, and the node as the makers see it.
M(s, k, f) == IF Holds(s, k) THEN Memo(s, k, f) ELSE 0
NodeOf(s, k) == [key |-> k, id |-> [f \in Fields |-> M(s, k, f)]]

MemosOK(s) ==
    /\ \A k \in Nat, f \in Kept : M(s, k, f) < s.next
    /\ \A k, l \in Nat, f, g \in Kept :
            M(s, k, f) = M(s, l, g) /\ M(s, k, f) >= EndId => k = l /\ f = g

\* The instruction a default type is declared by.
DefaultOp(d) == IF d = "FN_VOID" THEN "TypeFunction"
                ELSE IF d \in DOMAIN Pointee \cup Interfaces THEN "TypePointer" ELSE "Type"
DefaultLit(d) == IF d = "FN_VOID" THEN ""
                 ELSE IF d \in DOMAIN Pointee THEN "Function" ELSE d
IsDefault(i, d) ==
    /\ i.by = "" /\ i.id = DefaultId(d) /\ i.op = DefaultOp(d) /\ i.lit = DefaultLit(d)
    /\ d \in DOMAIN Pointee => i.uses = << DefaultId(Pointee[d]) >>

\* The instruction of field f of a node: its operation and its literal.
OpOf(f) == CASE f = "val" -> "Constant" [] f = "spec" -> "SpecConstant"
             [] f = "vec32" -> "TypeVector"
             [] f \in {"arr8", "arr16", "arr32", "arrspec32"} -> "TypeArray"
             [] f \in {"struct", "structpriv", "structprivspec"} -> "TypeStruct"
             [] OTHER -> "TypePointer"
LitOf(f, k) == CASE f \in {"val", "vec32"} -> k
                 [] f = "ptr_psh" -> "PushConstant" [] f = "ptr_storage" -> "StorageBuffer"
                 [] f = "ptr" -> "Private" [] f = "ptr_func" -> "Function"
                 [] f = "ptr_work" -> "Workgroup" [] OTHER -> ""
\* A specialisation constant's literal is the default it was first asked for with.
LitOK(lit, f, k) == f # "spec" => lit = LitOf(f, k)
\* An array or vector of one word is the word, and is not made.
Words == {"vec32", "arr8", "arr16", "arr32"}
IsMade(i, s, k, f) ==
    /\ k = 1 => f \notin Words
    /\ i.by = f /\ i.key = k /\ i.id = M(s, k, f) /\ i.id >= EndId
    /\ i.op = OpOf(f) /\ LitOK(i.lit, f, k) /\ i.uses = Operands(NodeOf(s, k), f)

Declared(s, id, n) == \E j \in 1..n : s.types[j].id = id

IdsOK(s) ==
    /\ \A i \in DOMAIN s.types : s.types[i].id < s.next
    /\ \A i, j \in DOMAIN s.types : s.types[i].id = s.types[j].id => i = j
UsesOK(s) ==
    \A i \in DOMAIN s.types : s.types[i].by \notin Unsound =>
        \A u \in DOMAIN s.types[i].uses : Declared(s, s.types[i].uses[u], i - 1)
\* Every instruction is a default type's, a memo's, or one of those that may be
\* forgotten ...
KnownOK(s) ==
    \A i \in DOMAIN s.types :
        \/ \E d \in s.defaults : IsDefault(s.types[i], d)
        \/ \E k \in Nat, f \in Sound : IsMade(s.types[i], s, k, f)
        \/ s.types[i].by \in Unsound /\ s.types[i].id >= EndId
\* ... and every default type noted and every memo has one; an array of one
\* word is the word.
MadeOK(s) ==
    /\ \A d \in s.defaults : \E i \in DOMAIN s.types : IsDefault(s.types[i], d)
    /\ \A k \in Nat, f \in Sound : M(s, k, f) # 0 =>
            \/ \E i \in DOMAIN s.types : IsMade(s.types[i], s, k, f)
            \/ k = 1 /\ f = "arr32" /\ M(s, k, f) = U32 /\ "U32" \in s.defaults
DecoOK(s) ==
    s.deco = {p \in Nat \X Whats : \E i \in DOMAIN s.types :
                p[1] = s.types[i].id /\ p[2] \in Wants(s.types[i])}
CapsOK(s) ==
    /\ \A i, j \in DOMAIN s.caps : s.caps[i] = s.caps[j] => i = j
    /\ \A i \in DOMAIN s.caps : \E d \in s.defaults \cap DOMAIN Capability : s.caps[i] = Capability[d]
    /\ \A d \in s.defaults \cap DOMAIN Capability : \E i \in DOMAIN s.caps : s.caps[i] = Capability[d]

Intended(s) == IdsOK(s) /\ UsesOK(s) /\ KnownOK(s) /\ MadeOK(s) /\ DecoOK(s) /\ CapsOK(s)

Good(s) == Shape(s) /\ MemosOK(s) /\ (~s.failed => Intended(s))
------------------------------------------------------------------------------
(***************************************************************************)
(* The default ids.                                                        *)
(***************************************************************************)
LEMMA DefaultsAre ==
    /\ DOMAIN Defaults = 1..20 /\ EndId = 21
    /\ \A i, j \in 1..20 : Defaults[i] = Defaults[j] => i = j
    /\ \A i \in 1..20 : Defaults[i] \in DefaultNames
    /\ Range(Defaults) = DefaultNames
<1>1. DOMAIN Defaults = 1..20 /\ Len(Defaults) = 20
  BY DEF Defaults
<1>2. \A i, j \in 1..20 : Defaults[i] = Defaults[j] => i = j
  BY DEF Defaults
<1>3. \A i \in 1..20 : Defaults[i] \in DefaultNames
  BY DEF Defaults, DefaultNames
<1>4. \A d \in DefaultNames : \E i \in 1..20 : Defaults[i] = d
  BY DEF Defaults, DefaultNames
<1>5. Range(Defaults) = DefaultNames
  BY <1>1, <1>3, <1>4 DEF Range
<1>6. QED
  BY <1>1, <1>2, <1>3, <1>5 DEF EndId

LEMMA DefaultIdIs ==
    ASSUME NEW d, NEW i \in 1..20, Defaults[i] = d
    PROVE  DefaultId(d) = i
<1>1. \A j \in DOMAIN Defaults : Defaults[j] = d <=> j = i
  BY DefaultsAre
<1>2. i \in DOMAIN Defaults
  BY DefaultsAre
<1>3. QED
  BY <1>1, <1>2 DEF DefaultId

LEMMA DefaultIdOK ==
    /\ \A d \in DefaultNames : DefaultId(d) \in 1..20
    /\ \A d, e \in DefaultNames : DefaultId(d) = DefaultId(e) => d = e
<1>1. \A d \in DefaultNames : \E i \in 1..20 : Defaults[i] = d
  BY DefaultsAre DEF Range
<1>2. \A d \in DefaultNames : DefaultId(d) \in 1..20 /\ Defaults[DefaultId(d)] = d
  BY <1>1, DefaultIdIs
<1>3. QED
  BY <1>2

LEMMA U32Is == U32 = DefaultId("U32") /\ U32 = 7 /\ "U32" \in DefaultNames
<1>1. Defaults[7] = "U32"
  BY DEF Defaults
<1>2. QED
  BY <1>1, DefaultIdIs DEF U32, DefaultNames

\* The pointee of a pointer type is a base type.
LEMMA PointeeOK ==
    \A p \in DOMAIN Pointee : Pointee[p] \in Bases /\ DefaultId(Pointee[p]) + 1 = DefaultId(p)
<1>1. \A i \in 3..18 : DefaultId(Defaults[i]) = i
  BY DefaultIdIs
<1>2. /\ Defaults[3] = "U8" /\ Defaults[5] = "U16" /\ Defaults[7] = "U32" /\ Defaults[9] = "U64"
      /\ Defaults[11] = "I32" /\ Defaults[13] = "F16" /\ Defaults[15] = "F32" /\ Defaults[17] = "F64"
      /\ Defaults[4] = "U8_PTR" /\ Defaults[6] = "U16_PTR" /\ Defaults[8] = "U32_PTR"
      /\ Defaults[10] = "U64_PTR" /\ Defaults[12] = "I32_PTR" /\ Defaults[14] = "F16_PTR"
      /\ Defaults[16] = "F32_PTR" /\ Defaults[18] = "F64_PTR"
  BY DEF Defaults
<1>3. /\ DefaultId("U8") = 3 /\ DefaultId("U16") = 5 /\ DefaultId("U32") = 7 /\ DefaultId("U64") = 9
      /\ DefaultId("I32") = 11 /\ DefaultId("F16") = 13 /\ DefaultId("F32") = 15 /\ DefaultId("F64") = 17
      /\ DefaultId("U8_PTR") = 4 /\ DefaultId("U16_PTR") = 6 /\ DefaultId("U32_PTR") = 8
      /\ DefaultId("U64_PTR") = 10 /\ DefaultId("I32_PTR") = 12 /\ DefaultId("F16_PTR") = 14
      /\ DefaultId("F32_PTR") = 16 /\ DefaultId("F64_PTR") = 18
  BY <1>1, <1>2
<1>4. \A p \in DOMAIN Pointee : \E b \in Bases : DefaultId(b) + 1 = DefaultId(p)
  BY <1>3 DEF Pointee, Bases
<1>5. \A p \in DOMAIN Pointee : Pointee[p] = CHOOSE b \in Bases : DefaultId(b) + 1 = DefaultId(p)
  BY Zenon DEF Pointee
<1>6. QED
  BY <1>4, <1>5
------------------------------------------------------------------------------
(***************************************************************************)
(* The nodes.                                                              *)
(***************************************************************************)
LEMMA CacheIs ==
    ASSUME NEW s, Shape(s)
    PROVE  /\ s \in CtxT /\ s.cache \in Seq(NodeT) /\ Sorted(s.cache)
           /\ Len(s.cache) \in Nat /\ DOMAIN s.cache = 1..Len(s.cache)
           /\ KeysOf(s.cache)
           /\ \A j \in DOMAIN s.cache : s.cache[j] \in NodeT
<1>1. s \in CtxT /\ Sorted(s.cache)
  BY DEF Shape
<1>2. s.cache \in Seq(NodeT)
  BY <1>1 DEF CtxT
<1>3. Len(s.cache) \in Nat /\ DOMAIN s.cache = 1..Len(s.cache)
  BY <1>2
<1>4. \A j \in DOMAIN s.cache : s.cache[j] \in NodeT
  BY <1>2
<1>5. QED
  BY <1>1, <1>2, <1>3, <1>4 DEF KeysOf, NodeT

LEMMA IndexOK ==
    ASSUME NEW s, Shape(s), NEW k \in Nat
    PROVE  /\ IsBound(s.cache, k, IndexOf(s, k))
           /\ IndexOf(s, k) \in 1..(Len(s.cache) + 1)
           /\ Holds(s, k) <=> \E j \in DOMAIN s.cache : s.cache[j].key = k
           /\ \A j \in DOMAIN s.cache : s.cache[j].key = k => IndexOf(s, k) = j
<1>1. PICK n \in Nat : n = Len(s.cache) + 1
  BY CacheIs
<1>2. DOMAIN s.cache = 1..(n - 1) /\ KeysOf(s.cache) /\ Sorted(s.cache) /\ n # 0
  BY <1>1, CacheIs
<1>3. IsBound(s.cache, k, IndexOf(s, k))
  BY <1>1, <1>2, LowerBoundOK DEF IndexOf
<1>4. PICK i : i = IndexOf(s, k)
  OBVIOUS
<1>5. i \in 1..n /\ \A j \in 1..(n - 1) : (j < i => s.cache[j].key < k) /\ (j >= i => s.cache[j].key >= k)
  <2>1. Len(s.cache) = n - 1 /\ Len(s.cache) + 1 = n
    BY <1>1, CacheIs
  <2>2. QED
    BY <1>3, <1>4, <2>1, Zenon DEF IsBound
<1>6. \A j \in 1..(n - 1) : s.cache[j].key \in Nat
  BY <1>2 DEF KeysOf
<1>7. \A j \in 1..(n - 1) : s.cache[j].key = k => i = j
  <2> SUFFICES ASSUME NEW j \in 1..(n - 1), s.cache[j].key = k PROVE i = j
    OBVIOUS
  <2>1. ~(j < i)
    BY <1>5
  <2>2. i <= j /\ i \in 1..(n - 1)
    BY <2>1, <1>5
  <2>3. s.cache[i].key >= k
    BY <2>2, <1>5
  <2>4. ~(i < j)
    <3>1. i < j => s.cache[i].key < s.cache[j].key
      BY <2>2, <1>2 DEF Sorted
    <3>2. QED
      BY <2>2, <2>3, <3>1, <1>6
  <2>5. QED
    BY <2>2, <2>4
<1>8. Holds(s, k) <=> \E j \in DOMAIN s.cache : s.cache[j].key = k
  <2>1. Len(s.cache) = n - 1
    BY <1>1, CacheIs
  <2>2. Holds(s, k) <=> i <= n - 1 /\ s.cache[i].key = k
    BY <1>4, <2>1 DEF Holds
  <2>3. QED
    BY <2>2, <1>2, <1>5, <1>7
<1>9. QED
  BY <1>1, <1>2, <1>3, <1>4, <1>5, <1>7, <1>8

\* What a memo holds, at the index of its node.
LEMMA MIs ==
    ASSUME NEW s, Shape(s), NEW k \in Nat, NEW f \in Fields
    PROVE  /\ M(s, k, f) \in Nat
           /\ \A j \in DOMAIN s.cache : s.cache[j].key = k => M(s, k, f) = s.cache[j].id[f]
           /\ ~Holds(s, k) => M(s, k, f) = 0
           /\ Holds(s, k) => M(s, k, f) = Memo(s, k, f)
<1>1. CASE Holds(s, k)
  <2>1. PICK j \in DOMAIN s.cache : s.cache[j].key = k
    BY <1>1, IndexOK
  <2>2. IndexOf(s, k) = j
    BY <2>1, IndexOK
  <2>3. s.cache[j] \in NodeT
    BY <2>1, CacheIs
  <2>4. s.cache[j].id[f] \in Nat
    BY <2>3 DEF NodeT
  <2>5. M(s, k, f) = s.cache[j].id[f]
    BY <1>1, <2>2 DEF M, Memo
  <2>6. \A l \in DOMAIN s.cache : s.cache[l].key = k => l = j
    BY <2>2, IndexOK
  <2>7. QED
    BY <1>1, <2>4, <2>5, <2>6 DEF M
<1>2. CASE ~Holds(s, k)
  <2>1. \A j \in DOMAIN s.cache : s.cache[j].key # k
    BY <1>2, IndexOK
  <2>2. QED
    BY <1>2, <2>1 DEF M
<1>3. QED
  BY <1>1, <1>2

\* Contexts with the same nodes answer alike.
LEMMA SameCache ==
    ASSUME NEW s, NEW t, t.cache = s.cache
    PROVE  /\ \A k : Holds(t, k) <=> Holds(s, k)
           /\ \A k, f : M(t, k, f) = M(s, k, f) /\ Memo(t, k, f) = Memo(s, k, f)
BY DEF Holds, IndexOf, M, Memo

\* All of a context but its nodes.
SameTypes(s, t) ==
    /\ t.types = s.types /\ t.caps = s.caps /\ t.deco = s.deco
    /\ t.defaults = s.defaults /\ t.next = s.next /\ t.failed = s.failed

\* Field f of the node of key k is filled, and no other.
Filled(s, t, k, f, id) ==
    /\ \A l \in Nat : Holds(t, l) <=> Holds(s, l)
    /\ \A l \in Nat, g \in Fields : g # f => M(t, l, g) = M(s, l, g)
    /\ Holds(s, k) => \A l \in Nat, g \in Fields :
                         M(t, l, g) = IF l = k /\ g = f THEN id ELSE M(s, l, g)

LEMMA SetMemoIs ==
    ASSUME NEW s, Shape(s), NEW k \in Nat, NEW f \in Fields, NEW id \in Nat,
           NEW t, t = SetMemo(s, k, f, id)
    PROVE  /\ Shape(t) /\ SameTypes(s, t) /\ t.ok = s.ok /\ t.ret = s.ret /\ t.gen = s.gen
           /\ Filled(s, t, k, f, id)
<1> DEFINE i == IndexOf(s, k)
           c == [s.cache EXCEPT ![i] = [s.cache[i] EXCEPT !.id = [s.cache[i].id EXCEPT ![f] = id]]]
<1>1. t = [s EXCEPT !.cache = c]
  BY DEF SetMemo
<1>2. s \in CtxT /\ s.cache \in Seq(NodeT) /\ Sorted(s.cache) /\ DOMAIN s.cache = 1..Len(s.cache)
  BY CacheIs
<1>3. /\ t.cache = c /\ SameTypes(s, t) /\ t.ok = s.ok /\ t.ret = s.ret /\ t.gen = s.gen
  <2> HIDE DEF c
  <2>1. QED
    BY <1>1, <1>2 DEF CtxT, SameTypes
<1>4. DOMAIN c = DOMAIN s.cache
  OBVIOUS
<1>5. \A j \in DOMAIN s.cache : s.cache[j] \in NodeT /\ s.cache[j].id \in [Fields -> Nat] /\ s.cache[j].key \in Nat
  BY CacheIs DEF NodeT
<1>6. \A j \in DOMAIN s.cache : j # i => c[j] = s.cache[j]
  OBVIOUS
<1>7. i \in DOMAIN s.cache => /\ c[i] \in NodeT /\ c[i].key = s.cache[i].key
                              /\ c[i].id = [s.cache[i].id EXCEPT ![f] = id]
  <2> SUFFICES ASSUME i \in DOMAIN s.cache PROVE /\ c[i] \in NodeT /\ c[i].key = s.cache[i].key
                              /\ c[i].id = [s.cache[i].id EXCEPT ![f] = id]
    OBVIOUS
  <2>1. s.cache[i] \in NodeT /\ s.cache[i].id \in [Fields -> Nat]
    BY <1>5
  <2>2. c[i] = [s.cache[i] EXCEPT !.id = [s.cache[i].id EXCEPT ![f] = id]]
    OBVIOUS
  <2> HIDE DEF c, i
  <2>3. [s.cache[i].id EXCEPT ![f] = id] \in [Fields -> Nat]
    BY <2>1
  <2>4. QED
    BY <2>1, <2>2, <2>3 DEF NodeT
<1> HIDE DEF c, i
<1>8. \A j \in DOMAIN s.cache : c[j] \in NodeT /\ c[j].key = s.cache[j].key
  BY <1>5, <1>6, <1>7
<1>9. c \in Seq(NodeT)
  <2>1. c \in [1..Len(s.cache) -> NodeT]
    <3>1. c = [j \in DOMAIN s.cache |-> c[j]]
      BY <1>4 DEF c
    <3>2. QED
      BY <1>2, <1>8, <3>1
  <2>2. QED
    BY <2>1, CacheIs
<1>10. Sorted(c)
  BY <1>2, <1>4, <1>8 DEF Sorted
<1>11. Shape(t)
  <2>1. t \in CtxT
    BY <1>1, <1>2, <1>9 DEF CtxT
  <2>2. t.next = s.next /\ s.next >= EndId
    BY <1>3 DEF SameTypes, Shape
  <2>3. QED
    BY <1>3, <1>10, <2>1, <2>2 DEF Shape
<1>12. \A l \in Nat : Holds(t, l) <=> Holds(s, l)
  <2>1. \A l \in Nat : Holds(s, l) <=> \E j \in DOMAIN s.cache : s.cache[j].key = l
    BY IndexOK
  <2>2. \A l \in Nat : Holds(t, l) <=> \E j \in DOMAIN t.cache : t.cache[j].key = l
    BY <1>11, IndexOK
  <2>3. QED
    BY <1>3, <1>4, <1>8, <2>1, <2>2
<1>13. \A l \in Nat, g \in Fields : ~Holds(s, l) => M(t, l, g) = 0 /\ M(s, l, g) = 0
  BY <1>12 DEF M
<1>14. \A j \in DOMAIN s.cache, g \in Fields :
          /\ M(t, s.cache[j].key, g) = c[j].id[g]
          /\ M(s, s.cache[j].key, g) = s.cache[j].id[g]
  BY <1>3, <1>4, <1>5, <1>8, <1>11, MIs
<1>15. \A l \in Nat : Holds(s, l) => \E j \in DOMAIN s.cache : s.cache[j].key = l
  BY IndexOK
<1>16. \A j \in DOMAIN s.cache, g \in Fields :
          (j # i \/ g # f) => c[j].id[g] = s.cache[j].id[g]
  BY <1>5, <1>6, <1>7
<1>17. i \in DOMAIN s.cache => c[i].id[f] = id
  BY <1>5, <1>7
<1>18. \A l \in Nat, g \in Fields : g # f => M(t, l, g) = M(s, l, g)
  BY <1>13, <1>14, <1>15, <1>16
<1>19. ASSUME Holds(s, k), NEW l \in Nat, NEW g \in Fields
       PROVE  M(t, l, g) = IF l = k /\ g = f THEN id ELSE M(s, l, g)
  <2>1. i \in DOMAIN s.cache /\ s.cache[i].key = k
    BY <1>19, IndexOK, SMTT(30) DEF i
  <2>2. CASE Holds(s, l)
    <3>1. PICK j \in DOMAIN s.cache : s.cache[j].key = l
      BY <1>15, <2>2
    <3>2. j = i <=> l = k
      BY <2>1, <3>1, IndexOK DEF i
    <3>3. QED
      BY <1>14, <1>16, <1>17, <2>1, <3>1, <3>2
  <2>3. CASE ~Holds(s, l)
    BY <1>13, <1>19, <2>3
  <2>4. QED
    BY <2>2, <2>3
<1>20. QED
  BY <1>3, <1>11, <1>12, <1>18, <1>19 DEF Filled

MemoSet(s, t, k, f, id) == Shape(t) /\ SameTypes(s, t) /\ t.ok = s.ok /\ Filled(s, t, k, f, id)

LEMMA MemoSetIs ==
    ASSUME NEW s, Shape(s), NEW k \in Nat, NEW f \in Fields, NEW id \in Nat,
           NEW t, t = SetMemo(s, k, f, id)
    PROVE  MemoSet(s, t, k, f, id)
BY SetMemoIs DEF MemoSet

LEMMA EmptyNodeIs ==
    ASSUME NEW k \in Nat
    PROVE  EmptyNode(k) \in NodeT /\ EmptyNode(k).key = k /\ \A f \in Fields : EmptyNode(k).id[f] = 0
BY DEF EmptyNode, NodeT

Inserted(S, q, i, e, c) ==
    /\ c \in Seq(S) /\ Len(c) = Len(q) + 1 /\ c[i] = e
    /\ \A j \in 1..Len(q) : c[IF j < i THEN j ELSE j + 1] = q[j]

LEMMA InsertAtIs ==
    ASSUME NEW S, NEW q \in Seq(S), NEW i \in 1..(Len(q) + 1), NEW e \in S,
           NEW c, c = InsertAt(q, i, e)
    PROVE  Inserted(S, q, i, e, c)
<1> DEFINE a == SubSeq(q, 1, i - 1)
           b == SubSeq(q, i, Len(q))
<1>0. PICK n \in Nat : n = Len(q)
  OBVIOUS
<1>1. a \in Seq(S) /\ Len(a) = i - 1 /\ \A j \in 1..(i - 1) : a[j] = q[j]
  <2>1. 1 \in 1..(Len(q) + 1) /\ i - 1 \in 0..Len(q)
    BY <1>0
  <2>2. QED
    BY <1>0, <2>1, SubSeqProperties
<1>2. b \in Seq(S) /\ Len(b) = (n + 1) - i /\ \A j \in 1..((n + 1) - i) : b[j] = q[i + j - 1]
  <2>1. CASE i = n + 1
    BY <1>0, <2>1, SubSeqProperties
  <2>2. CASE i # n + 1
    BY <1>0, <2>2, SubSeqProperties
  <2>3. QED
    BY <2>1, <2>2
<1>3. c = (a \o << e >>) \o b
  BY DEF InsertAt
<1>4. << e >> \in Seq(S) /\ Len(<< e >>) = 1
  OBVIOUS
<1> HIDE DEF a, b
<1>5. PICK d : d = a \o << e >>
  OBVIOUS
<1>6. /\ d \in Seq(S) /\ Len(d) = i /\ d[i] = e
      /\ \A j \in 1..(i - 1) : d[j] = q[j]
  <2>1. d \in Seq(S) /\ Len(d) = Len(a) + 1
    BY <1>1, <1>4, <1>5, ConcatProperties
  <2>2. \A j \in 1..Len(a) : d[j] = a[j]
    BY <1>1, <1>4, <1>5, ConcatProperties
  <2>3. d[Len(a) + 1] = e
    BY <1>1, <1>4, <1>5
  <2>4. Len(a) = i - 1 /\ i \in Nat
    BY <1>0, <1>1
  <2>5. Len(a) + 1 = i /\ \A j \in 1..(i - 1) : d[j] = q[j]
    BY <1>1, <2>2, <2>4
  <2>6. QED
    BY <2>1, <2>3, <2>5
<1>7. c \in Seq(S) /\ Len(c) = i + ((n + 1) - i)
  <2>1. c = d \o b
    BY <1>3, <1>5
  <2>2. c \in Seq(S) /\ Len(c) = Len(d) + Len(b)
    BY <1>2, <1>6, <2>1, ConcatProperties
  <2>3. QED
    BY <1>2, <1>6, <2>2
<1>8. \A j \in 1..i : c[j] = d[j]
  BY <1>2, <1>3, <1>5, <1>6, ConcatProperties
<1>9. \A j \in 1..((n + 1) - i) : c[i + j] = b[j]
  <2>1. \A j \in 1..(i + ((n + 1) - i)) : c[j] = IF j <= i THEN d[j] ELSE b[j - i]
    BY <1>2, <1>3, <1>5, <1>6, ConcatProperties, SMTT(30)
  <2>2. \A j \in 1..((n + 1) - i) : i + j \in 1..(i + ((n + 1) - i)) /\ ~(i + j <= i) /\ (i + j) - i = j
    OBVIOUS
  <2>3. QED
    BY <2>1, <2>2
<1>10. \A j \in 1..n : j < i => c[j] = q[j]
  BY <1>6, <1>8
<1>11. \A j \in 1..n : ~(j < i) => c[j + 1] = q[j]
  <2> SUFFICES ASSUME NEW j \in 1..n, ~(j < i) PROVE c[j + 1] = q[j]
    OBVIOUS
  <2>1. (j + 1) - i \in 1..((n + 1) - i) /\ i + ((j + 1) - i) = j + 1 /\ i + ((j + 1) - i) - 1 = j
    OBVIOUS
  <2>2. c[j + 1] = b[(j + 1) - i] /\ b[(j + 1) - i] = q[j]
    BY <1>2, <1>9, <2>1
  <2>3. QED
    BY <2>2
<1>12. c[i] = e
  BY <1>6, <1>8
<1>13. QED
  BY <1>0, <1>7, <1>10, <1>11, <1>12 DEF Inserted

LEMMA SpendIs ==
    ASSUME NEW s \in CtxT, NEW t, t = Spend(s)
    PROVE  /\ t \in CtxT
           /\ t.cache = s.cache /\ t.types = s.types /\ t.caps = s.caps /\ t.deco = s.deco
           /\ t.defaults = s.defaults /\ t.next = s.next
           /\ t.gen = s.gen /\ t.ret = s.ret /\ t.trash = s.trash
           /\ t.failed <=> s.failed \/ Fails(s)
           /\ t.ok <=> ~Fails(s)
           /\ ~Fails(s) => t.failed = s.failed
<1> DEFINE x == IF s.fuel > 0 THEN s.fuel - 1 ELSE 0
           y == s.failed \/ Fails(s)
           z == ~Fails(s)
<1>1. x \in Nat /\ s.failed \in BOOLEAN
  <2>1. s.fuel \in Nat /\ s.failed \in BOOLEAN
    BY DEF CtxT
  <2>2. QED
    BY <2>1
<1>2. y \in BOOLEAN /\ z \in BOOLEAN
  BY Zenon DEF Fails
<1>3. Spend(s) = [s EXCEPT !.fuel = x, !.failed = y, !.ok = z]
  BY DEF Spend
<1>4. ~Fails(s) => y = s.failed
  BY <1>1
<1> HIDE DEF x
<1>5. PICK b \in BOOLEAN : b = y
  BY <1>2
<1>6. PICK c \in BOOLEAN : c = z
  BY <1>2
<1>7. t = [s EXCEPT !.fuel = x, !.failed = b, !.ok = c]
  BY <1>3, <1>5, <1>6, Zenon
<1>8. /\ t \in CtxT /\ t.failed = b /\ t.ok = c
      /\ t.cache = s.cache /\ t.types = s.types /\ t.caps = s.caps /\ t.deco = s.deco
      /\ t.defaults = s.defaults /\ t.next = s.next
      /\ t.gen = s.gen /\ t.ret = s.ret /\ t.trash = s.trash
  BY <1>1, <1>7 DEF CtxT
<1>9. QED
  BY <1>1, <1>4, <1>5, <1>6, <1>8

\* A node is found or made; where that fails, all nodes are lost.
LEMMA NodeIs ==
    ASSUME NEW s, Shape(s), NEW k \in Nat, NEW t, t = Node(s, k)
    PROVE  /\ Shape(t)
           /\ t.types = s.types /\ t.caps = s.caps /\ t.deco = s.deco
           /\ t.defaults = s.defaults /\ t.next = s.next
           /\ Holds(s, k) => t.ok
           /\ t.ok => /\ t.failed = s.failed
                      /\ Holds(t, k)
                      /\ \A l \in Nat : Holds(s, l) => Holds(t, l)
                      /\ \A l \in Nat, f \in Fields : M(t, l, f) = M(s, l, f)
           /\ ~t.ok => t.failed /\ \A l \in Nat, f \in Fields : M(t, l, f) = 0
<1>1. s \in CtxT /\ s.cache \in Seq(NodeT) /\ s.next >= EndId /\ Sorted(s.cache)
  BY CacheIs DEF Shape
<1>2. CASE Holds(s, k)
  <2>1. t = [s EXCEPT !.ok = TRUE]
    BY <1>2 DEF Node
  <2>2. /\ t \in CtxT /\ t.cache = s.cache /\ t.ok
        /\ t.types = s.types /\ t.caps = s.caps /\ t.deco = s.deco
        /\ t.defaults = s.defaults /\ t.next = s.next /\ t.failed = s.failed
    BY <1>1, <2>1 DEF CtxT
  <2>3. QED
    BY <1>1, <1>2, <2>2, SameCache DEF Shape
<1>3. CASE ~Holds(s, k) /\ Fails(s)
  <2>1. t = [Spend(s) EXCEPT !.gen = @ + 1, !.cache = << >>]
    BY <1>3 DEF Node
  <2>2. /\ t \in CtxT /\ t.cache = << >> /\ ~t.ok
        /\ t.types = s.types /\ t.caps = s.caps /\ t.deco = s.deco
        /\ t.defaults = s.defaults /\ t.next = s.next /\ t.failed
    <3>1. PICK u \in CtxT : u = Spend(s)
      BY <1>1, SpendIs
    <3>2. t = [u EXCEPT !.gen = u.gen + 1, !.cache = << >>]
      BY <2>1, <3>1
    <3>3. u.gen + 1 \in Nat /\ << >> \in Seq(NodeT)
      BY DEF CtxT
    <3>4. /\ t \in CtxT /\ t.cache = << >> /\ t.ok = u.ok
          /\ t.types = u.types /\ t.caps = u.caps /\ t.deco = u.deco
          /\ t.defaults = u.defaults /\ t.next = u.next /\ t.failed = u.failed
      BY <3>2, <3>3 DEF CtxT
    <3>5. QED
      BY <1>1, <1>3, <3>1, <3>4, SpendIs
  <2>3. Shape(t)
    BY <1>1, <2>2 DEF Shape, Sorted
  <2>4. \A l \in Nat, f \in Fields : M(t, l, f) = 0
    <3>1. \A l \in Nat : ~Holds(t, l)
      <4>1. DOMAIN t.cache = {}
        BY <2>2
      <4>2. \A l \in Nat : Holds(t, l) <=> \E j \in DOMAIN t.cache : t.cache[j].key = l
        BY <2>3, IndexOK
      <4>3. QED
        BY <4>1, <4>2
    <3>2. QED
      BY <3>1 DEF M
  <2>5. QED
    BY <1>3, <2>2, <2>3, <2>4
<1>4. CASE ~Holds(s, k) /\ ~Fails(s)
  <2> DEFINE i == IndexOf(s, k)
             e == EmptyNode(k)
             c == InsertAt(s.cache, i, e)
  <2>1. t = [Spend(s) EXCEPT !.gen = Spend(s).gen + 1, !.cache = c]
    <3>1. Spend(s).cache = s.cache
      BY <1>1, SpendIs
    <3>2. t = [Spend(s) EXCEPT !.gen = Spend(s).gen + 1,
                               !.cache = InsertAt(Spend(s).cache, IndexOf(s, k), EmptyNode(k))]
      BY <1>4, Zenon DEF Node
    <3>3. QED
      BY <3>1, <3>2
  <2>2. PICK n \in Nat : n = Len(s.cache) /\ DOMAIN s.cache = 1..n
    BY CacheIs
  <2>3. i \in 1..(n + 1)
    BY <2>2, IndexOK
  <2>4. /\ \A j \in 1..n : j < i => s.cache[j].key < k
        /\ \A j \in 1..n : j >= i => s.cache[j].key >= k
    BY <2>2, IndexOK DEF IsBound
  <2>5. e \in NodeT /\ e.key = k /\ \A f \in Fields : e.id[f] = 0
    BY EmptyNodeIs
  <2> HIDE DEF e, i, c
  <2>6. /\ c \in Seq(NodeT) /\ Len(c) = n + 1 /\ c[i] = e
        /\ \A j \in 1..n : c[IF j < i THEN j ELSE j + 1] = s.cache[j]
    <3>1. i \in 1..(Len(s.cache) + 1) /\ Len(s.cache) = n
      BY <2>2, <2>3
    <3>2. /\ c \in Seq(NodeT) /\ Len(c) = Len(s.cache) + 1 /\ c[i] = e
          /\ \A j \in 1..Len(s.cache) : c[IF j < i THEN j ELSE j + 1] = s.cache[j]
      <4>1. c = InsertAt(s.cache, i, e)
        BY DEF c
      <4>2. s.cache \in Seq(NodeT) /\ i \in 1..(Len(s.cache) + 1) /\ e \in NodeT
        BY <1>1, <2>5, <3>1
      <4> HIDE DEF NodeT
      <4>3. Inserted(NodeT, s.cache, i, e, c)
        BY <4>1, <4>2, InsertAtIs
      <4>4. QED
        BY <4>3 DEF Inserted
    <3>3. QED
      BY <3>1, <3>2
  <2>7. /\ t \in CtxT /\ t.cache = c /\ t.ok
        /\ t.types = s.types /\ t.caps = s.caps /\ t.deco = s.deco
        /\ t.defaults = s.defaults /\ t.next = s.next /\ t.failed = s.failed
    <3>1. PICK u \in CtxT : u = Spend(s)
      BY <1>1, SpendIs
    <3>2. t = [u EXCEPT !.gen = u.gen + 1, !.cache = c]
      BY <2>1, <3>1
    <3>3. u.gen + 1 \in Nat
      BY DEF CtxT
    <3>4. /\ t \in CtxT /\ t.cache = c /\ t.ok = u.ok
          /\ t.types = u.types /\ t.caps = u.caps /\ t.deco = u.deco
          /\ t.defaults = u.defaults /\ t.next = u.next /\ t.failed = u.failed
      BY <2>6, <3>2, <3>3 DEF CtxT
    <3>5. QED
      BY <1>1, <1>4, <3>1, <3>4, SpendIs
  <2>8. DOMAIN c = 1..(n + 1)
    BY <2>6
  <2>9. /\ \A j \in 1..n : j < i => c[j] = s.cache[j]
        /\ \A j \in 1..n : ~(j < i) => c[j + 1] = s.cache[j]
    BY <2>6
  <2>10. \A j \in 1..n : s.cache[j].key \in Nat /\ s.cache[j].key # k
    <3>1. \A j \in 1..n : s.cache[j].key # k
      BY <1>4, <2>2, IndexOK
    <3>2. QED
      BY <3>1, <2>2, CacheIs DEF KeysOf
  <2>11. \A j \in 1..(n + 1) : j > i => j - 1 \in 1..n /\ ~(j - 1 < i) /\ c[j] = s.cache[j - 1]
    <3>1. \A j \in 1..(n + 1) : j > i => j - 1 \in 1..n /\ ~(j - 1 < i) /\ (j - 1) + 1 = j
      BY <2>3
    <3>2. QED
      BY <2>9, <3>1
  <2>12. \A j \in 1..(n + 1) : j < i => j \in 1..n /\ c[j] = s.cache[j]
    BY <2>3, <2>9
  <2>13. Sorted(c)
    <3> SUFFICES ASSUME NEW a \in 1..(n + 1), NEW b \in 1..(n + 1), a < b
                 PROVE  c[a].key < c[b].key
      BY <2>8 DEF Sorted
    <3>1. \A x, y \in 1..n : x < y => s.cache[x].key < s.cache[y].key
      BY <1>1, <2>2 DEF Sorted
    <3>2. CASE b < i
      <4>1. c[a] = s.cache[a] /\ a \in 1..n /\ c[b] = s.cache[b] /\ b \in 1..n
        <5>1. a < i /\ b < i
          BY <2>3, <3>2
        <5>2. QED
          BY <2>12, <5>1
      <4>2. QED
        BY <3>1, <4>1
    <3>3. CASE b = i
      <4>1. c[a] = s.cache[a] /\ a \in 1..n /\ a < i
        BY <2>12, <3>3
      <4>2. c[b].key = k
        BY <2>5, <2>6, <3>3
      <4>3. QED
        BY <2>4, <4>1, <4>2
    <3>4. CASE b > i /\ a < i
      <4>1. c[a] = s.cache[a] /\ a \in 1..n /\ c[b] = s.cache[b - 1] /\ b - 1 \in 1..n /\ a < b - 1
        BY <2>3, <2>11, <2>12, <3>4
      <4>2. QED
        BY <3>1, <4>1
    <3>5. CASE b > i /\ a = i
      <4>1. c[b] = s.cache[b - 1] /\ b - 1 \in 1..n /\ b - 1 >= i
        BY <2>3, <2>11, <3>5
      <4>2. c[a].key = k
        BY <2>5, <2>6, <3>5
      <4>3. s.cache[b - 1].key >= k /\ s.cache[b - 1].key # k /\ s.cache[b - 1].key \in Nat
        BY <2>4, <2>10, <4>1
      <4>4. QED
        BY <4>1, <4>2, <4>3
    <3>6. CASE b > i /\ a > i
      <4>1. /\ c[b] = s.cache[b - 1] /\ b - 1 \in 1..n
            /\ c[a] = s.cache[a - 1] /\ a - 1 \in 1..n /\ a - 1 < b - 1
        BY <2>3, <2>11, <3>6
      <4>2. QED
        BY <3>1, <4>1
    <3>7. QED
      BY <2>3, <3>2, <3>3, <3>4, <3>5, <3>6
  <2>14. Shape(t)
    BY <1>1, <2>7, <2>13 DEF Shape
  <2>15. \A l \in Nat : Holds(t, l) <=> \E j \in 1..(n + 1) : c[j].key = l
    BY <2>7, <2>8, <2>14, IndexOK
  <2>16. \A j \in 1..(n + 1) : j = i \/ \E x \in 1..n : c[j] = s.cache[x]
    BY <2>3, <2>11, <2>12
  <2>17. \A x \in 1..n : \E j \in 1..(n + 1) : c[j] = s.cache[x]
    BY <2>9
  <2>18. \A l \in Nat : Holds(t, l) <=> l = k \/ Holds(s, l)
    <3>1. \A l \in Nat : Holds(s, l) <=> \E x \in 1..n : s.cache[x].key = l
      BY <2>2, IndexOK
    <3>2. c[i].key = k /\ i \in 1..(n + 1)
      BY <2>3, <2>5, <2>6
    <3>3. QED
      BY <2>15, <2>16, <2>17, <3>1, <3>2
  <2>19. \A l \in Nat, f \in Fields : M(t, l, f) = M(s, l, f)
    <3> SUFFICES ASSUME NEW l \in Nat, NEW f \in Fields PROVE M(t, l, f) = M(s, l, f)
      OBVIOUS
    <3>1. CASE l = k
      <4>1. i \in DOMAIN t.cache /\ t.cache[i].key = k /\ t.cache[i].id[f] = 0
        BY <2>3, <2>5, <2>6, <2>7, <2>8
      <4>2. M(t, l, f) = 0
        BY <2>14, <3>1, <4>1, MIs
      <4>3. QED
        BY <1>4, <3>1, <4>2 DEF M
    <3>2. CASE Holds(s, l)
      <4>1. PICK x \in 1..n : s.cache[x].key = l
        BY <3>2, <2>2, IndexOK
      <4>2. PICK j \in 1..(n + 1) : c[j] = s.cache[x]
        BY <2>17
      <4>3. M(t, l, f) = c[j].id[f]
        <5>1. j \in DOMAIN t.cache /\ t.cache[j] = c[j] /\ c[j].key = l
          BY <2>7, <2>8, <4>1, <4>2
        <5>2. QED
          BY <2>14, <5>1, MIs
      <4>4. M(s, l, f) = s.cache[x].id[f]
        <5>1. x \in DOMAIN s.cache
          BY <2>2
        <5>2. QED
          BY <4>1, <5>1, MIs
      <4>5. QED
        BY <4>2, <4>3, <4>4
    <3>3. CASE l # k /\ ~Holds(s, l)
      BY <2>18, <3>3 DEF M
    <3>4. QED
      BY <3>1, <3>2, <3>3
  <2>20. QED
    BY <1>4, <2>7, <2>14, <2>18, <2>19
<1>5. QED
  BY <1>2, <1>3, <1>4
------------------------------------------------------------------------------
(***************************************************************************)
(* Emission.                                                               *)
(***************************************************************************)
\* All of a context but its sections, and whether an allocation failed.
SameNodes(s, t) ==
    /\ t.cache = s.cache /\ t.defaults = s.defaults /\ t.next = s.next
    /\ (s.failed => t.failed)
    /\ (t.ok => t.failed = s.failed)
    /\ (~t.ok => t.failed)

LEMMA EmitIs ==
    ASSUME NEW s \in CtxT, NEW i \in InstrT, NEW t, t = Emit(s, i)
    PROVE  /\ t \in CtxT /\ SameNodes(s, t) /\ t.caps = s.caps /\ t.deco = s.deco
           /\ t.ok => t.types = Append(s.types, i)
<1>1. PICK u \in CtxT : u = Spend(s)
  BY SpendIs
<1>2. PICK y \in Seq(InstrT) : y = IF Fails(s) THEN << >> ELSE Append(s.types, i)
  <2>1. s.types \in Seq(InstrT)
    BY DEF CtxT
  <2> HIDE DEF InstrT
  <2>2. Append(s.types, i) \in Seq(InstrT) /\ << >> \in Seq(InstrT)
    BY <2>1
  <2>3. QED
    BY <2>2
<1>3. t = [u EXCEPT !.types = y]
  <2>1. t = [u EXCEPT !.types = IF Fails(s) THEN << >> ELSE Append(u.types, i)]
    BY <1>1 DEF Emit
  <2>2. u.types = s.types
    BY <1>1, SpendIs
  <2>3. QED
    BY <1>2, <2>1, <2>2
<1>4. /\ t \in CtxT /\ t.types = y /\ t.caps = u.caps /\ t.deco = u.deco /\ t.cache = u.cache
      /\ t.defaults = u.defaults /\ t.next = u.next /\ t.failed = u.failed /\ t.ok = u.ok
  BY <1>1, <1>3 DEF CtxT
<1>5. /\ u.cache = s.cache /\ u.caps = s.caps /\ u.deco = s.deco
      /\ u.defaults = s.defaults /\ u.next = s.next
      /\ (u.failed <=> s.failed \/ Fails(s)) /\ (u.ok <=> ~Fails(s))
      /\ (~Fails(s) => u.failed = s.failed)
  BY <1>1, SpendIs
<1>6. QED
  BY <1>2, <1>4, <1>5 DEF SameNodes

LEMMA EmitCapabilityIs ==
    ASSUME NEW s \in CtxT, NEW c \in CapNames, NEW t, t = EmitCapability(s, c)
    PROVE  /\ t \in CtxT /\ SameNodes(s, t) /\ t.types = s.types /\ t.deco = s.deco
           /\ t.ok => t.caps = Append(s.caps, c)
<1>1. PICK u \in CtxT : u = Spend(s)
  BY SpendIs
<1>2. PICK y \in Seq(CapNames) : y = IF Fails(s) THEN << >> ELSE Append(s.caps, c)
  <2>1. s.caps \in Seq(CapNames)
    BY DEF CtxT
  <2> HIDE DEF CapNames
  <2>2. Append(s.caps, c) \in Seq(CapNames) /\ << >> \in Seq(CapNames)
    BY <2>1
  <2>3. QED
    BY <2>2
<1>3. t = [u EXCEPT !.caps = y]
  <2>1. t = [u EXCEPT !.caps = IF Fails(s) THEN << >> ELSE Append(u.caps, c)]
    BY <1>1 DEF EmitCapability
  <2>2. u.caps = s.caps
    BY <1>1, SpendIs
  <2>3. QED
    BY <1>2, <2>1, <2>2
<1>4. /\ t \in CtxT /\ t.caps = y /\ t.types = u.types /\ t.deco = u.deco /\ t.cache = u.cache
      /\ t.defaults = u.defaults /\ t.next = u.next /\ t.failed = u.failed /\ t.ok = u.ok
  BY <1>1, <1>3 DEF CtxT
<1>5. /\ u.cache = s.cache /\ u.types = s.types /\ u.deco = s.deco
      /\ u.defaults = s.defaults /\ u.next = s.next
      /\ (u.failed <=> s.failed \/ Fails(s)) /\ (u.ok <=> ~Fails(s))
      /\ (~Fails(s) => u.failed = s.failed)
  BY <1>1, SpendIs
<1>6. QED
  BY <1>2, <1>4, <1>5 DEF SameNodes

LEMMA WantsOK ==
    ASSUME NEW i, i.key \in Nat
    PROVE  Wants(i) \in SUBSET Whats /\ Cardinality(Wants(i)) \in Nat
<1>1. ArrayStride \in Whats /\ SpecId(i.key) \in Whats /\ Block \in SUBSET Whats
  BY DEF Whats, ArrayStride, SpecId, Block, Offset
<1>2. \A x : IsFiniteSet({x})
  BY FS_Singleton
<1>3. IsFiniteSet({}) /\ IsFiniteSet({ArrayStride}) /\ IsFiniteSet({SpecId(i.key)})
  BY <1>2, FS_EmptySet
<1>4. IsFiniteSet(Block)
  <2>1. Block = {<< "Block", 0 >>} \cup {Offset}
    BY DEF Block
  <2>2. QED
    BY <1>2, <2>1, FS_Union
<1>5. Wants(i) \in {{}, {ArrayStride}, {SpecId(i.key)}, Block}
  BY DEF Wants
<1>6. QED
  BY <1>1, <1>3, <1>4, <1>5, FS_CardinalityType

LEMMA DecorateAllIs ==
    ASSUME NEW s \in CtxT, NEW id \in Nat,
           NEW whats \in SUBSET Whats, Cardinality(whats) \in Nat,
           NEW t, t = DecorateAll(s, id, whats), s.ok \/ s.failed
    PROVE  /\ t \in CtxT /\ SameNodes(s, t) /\ t.caps = s.caps
           /\ t.types = s.types
           /\ t.ok => s.ok /\ t.deco = s.deco \cup ({id} \X whats)
<1>0. s.ok \in BOOLEAN /\ s.failed \in BOOLEAN /\ s.fuel \in Nat
  BY DEF CtxT
<1>1. CASE ~s.ok
  BY <1>1 DEF DecorateAll, SameNodes
<1>2. CASE s.ok
  <2>1. PICK n \in Nat : n = Cardinality(whats)
    OBVIOUS
  <2> DEFINE fails == s.fuel \in 1..n
  <2>2. PICK x \in Nat : x = IF s.fuel > n THEN s.fuel - n ELSE 0
    BY <1>0, <2>1
  <2>3. PICK y \in BOOLEAN : (y <=> s.failed \/ fails) /\ (~fails => y = s.failed) /\ y = (s.failed \/ fails)
    BY <1>0
  <2>4. PICK z \in BOOLEAN : (z <=> ~fails) /\ z = ~fails
    OBVIOUS
  <2>5. PICK d : d = IF fails THEN {} ELSE s.deco \cup ({id} \X whats)
    OBVIOUS
  <2>6. d \in SUBSET (Nat \X Whats)
    <3>1. s.deco \in SUBSET (Nat \X Whats)
      BY DEF CtxT
    <3>2. {id} \X whats \in SUBSET (Nat \X Whats)
      OBVIOUS
    <3>3. QED
      BY <2>5, <3>1, <3>2
  <2>7. t = DecorateEach(s, id, whats)
    BY <1>2 DEF DecorateAll
  <2>8. t = [s EXCEPT !.fuel = IF s.fuel > n THEN s.fuel - n ELSE 0,
                      !.failed = s.failed \/ fails,
                      !.ok = ~fails,
                      !.deco = IF fails THEN {} ELSE s.deco \cup ({id} \X whats)]
    BY <2>1, <2>7 DEF DecorateEach
  <2> HIDE DEF fails
  <2>9. t = [s EXCEPT !.fuel = x, !.failed = y, !.ok = z, !.deco = d]
    BY <2>2, <2>3, <2>4, <2>5, <2>8
  <2>10. /\ t \in CtxT /\ t.types = s.types /\ t.caps = s.caps /\ t.deco = d /\ t.cache = s.cache
         /\ t.defaults = s.defaults /\ t.next = s.next /\ t.failed = y /\ t.ok = z
    BY <2>6, <2>9, ZenonT(40) DEF CtxT
  <2>11. QED
    BY <1>2, <2>3, <2>4, <2>5, <2>10 DEF SameNodes
<1>3. QED
  BY <1>0, <1>1, <1>2
------------------------------------------------------------------------------
(***************************************************************************)
(* The types section of a context in which nothing failed grows by one     *)
(* instruction at a time, and its memos are never changed once filled.     *)
(***************************************************************************)
MemosGrow(s, t) == \A l \in Nat, g \in Kept : M(s, l, g) # 0 => M(t, l, g) = M(s, l, g)

LEMMA SoundKept == Sound \subseteq Kept /\ Kept \subseteq Fields /\ Sound \cap Unsound = {}
                   /\ "" \notin Fields /\ Unsound \subseteq Fields
BY DEF Sound, Kept, Fields, Unsound

LEMMA TypesAre ==
    ASSUME NEW s, Shape(s)
    PROVE  /\ s.types \in Seq(InstrT) /\ Len(s.types) \in Nat /\ DOMAIN s.types = 1..Len(s.types)
           /\ s.next \in Nat /\ s.next >= EndId
           /\ \A j \in DOMAIN s.types : s.types[j] \in InstrT
           /\ \A j \in DOMAIN s.types : s.types[j].id \in Nat /\ s.types[j].id # 0
<1>1. s.types \in Seq(InstrT) /\ s.next \in Nat /\ s.next >= EndId
  BY DEF Shape, CtxT
<1>2. \A j \in DOMAIN s.types : s.types[j] \in InstrT
  BY <1>1
<1>3. \A j \in DOMAIN s.types : s.types[j].id \in Nat /\ s.types[j].id # 0
  BY <1>2 DEF InstrT
<1>4. QED
  BY <1>1, <1>2, <1>3

LEMMA Appended ==
    ASSUME NEW S, NEW q \in Seq(S), NEW i \in S, NEW r, r = Append(q, i), NEW n, n = Len(q)
    PROVE  /\ n \in Nat /\ DOMAIN q = 1..n /\ DOMAIN r = 1..(n + 1)
           /\ \A j \in 1..n : r[j] = q[j]
           /\ r[n + 1] = i
<1>1. n \in Nat /\ DOMAIN q = 1..n
  OBVIOUS
<1>2. r \in Seq(S) /\ Len(r) = n + 1
  BY AppendProperties
<1>3. QED
  BY <1>1, <1>2, AppendProperties

\* The operands of a node's field depend on the memos that are kept.
LEMMA OperandsSame ==
    ASSUME NEW s, NEW t, NEW k \in Nat, NEW f \in Sound,
           \A u \in DOMAIN Operands(NodeOf(s, k), f) : Operands(NodeOf(s, k), f)[u] # 0,
           MemosGrow(s, t)
    PROVE  Operands(NodeOf(t, k), f) = Operands(NodeOf(s, k), f)
<1>1. \A g \in Kept : M(s, k, g) # 0 => M(t, k, g) = M(s, k, g)
  BY DEF MemosGrow
<1>2. \A g \in Fields : NodeOf(s, k).id[g] = M(s, k, g) /\ NodeOf(t, k).id[g] = M(t, k, g)
  BY DEF NodeOf
<1>3. \A g \in {"val", "spec", "arr32", "arrspec32", "struct", "structpriv"} : g \in Kept /\ g \in Fields
  BY DEF Kept, Fields
<1>4. PICK a, b : a = NodeOf(s, k) /\ b = NodeOf(t, k)
  OBVIOUS
<1>5. \A g \in {"val", "spec", "arr32", "arrspec32", "struct", "structpriv"} :
        a.id[g] # 0 => b.id[g] = a.id[g]
  BY <1>1, <1>2, <1>3, <1>4
<1>6. \A u \in DOMAIN Operands(a, f) : Operands(a, f)[u] # 0
  BY <1>4
<1>7. CASE f \in {"val", "spec", "vec32"}
  BY <1>4, <1>7 DEF Operands
<1>8. CASE f \in {"arr8", "arr16", "arr32", "arrspec32"}
  <2> DEFINE Pair(x, g) == Operands(a, f) = << x, a.id[g] >> /\ Operands(b, f) = << x, b.id[g] >>
  <2>0. /\ f = "arr8" => Pair(DefaultId("U8"), "val")
        /\ f = "arr16" => Pair(DefaultId("U16"), "val")
        /\ f = "arr32" => Pair(U32, "val")
        /\ f = "arrspec32" => Pair(U32, "spec")
    BY DEF Operands
  <2>1. PICK x, g : g \in {"val", "spec"} /\ Pair(x, g)
    BY <1>8, <2>0
  <2>2. 2 \in DOMAIN Operands(a, f) /\ Operands(a, f)[2] = a.id[g]
    BY <2>1
  <2>3. QED
    BY <1>4, <1>5, <1>6, <2>1, <2>2
<1>9. CASE f \in {"struct", "structpriv", "structprivspec", "ptr_psh", "ptr_storage", "ptr", "ptr_func", "ptr_work"}
  <2>1. PICK g \in {"arr32", "arrspec32", "struct", "structpriv"} :
            Operands(a, f) = << a.id[g] >> /\ Operands(b, f) = << b.id[g] >>
    BY <1>9 DEF Operands
  <2>2. 1 \in DOMAIN Operands(a, f) /\ Operands(a, f)[1] = a.id[g]
    BY <2>1
  <2>3. QED
    BY <1>4, <1>5, <1>6, <2>1, <2>2
<1>10. QED
  BY <1>7, <1>8, <1>9 DEF Sound, Kept

LEMMA UsesNotZero ==
    ASSUME NEW s, Shape(s), UsesOK(s), NEW i \in DOMAIN s.types, s.types[i].by \notin Unsound
    PROVE  \A u \in DOMAIN s.types[i].uses : s.types[i].uses[u] # 0
<1> SUFFICES ASSUME NEW u \in DOMAIN s.types[i].uses PROVE s.types[i].uses[u] # 0
  OBVIOUS
<1>1. PICK j \in 1..(i - 1) : s.types[j].id = s.types[i].uses[u]
  BY DEF UsesOK, Declared
<1>2. j \in DOMAIN s.types
  BY TypesAre
<1>3. s.types[j] \in InstrT
  BY <1>2, TypesAre
<1>4. QED
  BY <1>1, <1>3 DEF InstrT

LEMMA MadeKept ==
    ASSUME NEW s, Shape(s), UsesOK(s), NEW i \in DOMAIN s.types, NEW k \in Nat, NEW f \in Sound,
           IsMade(s.types[i], s, k, f), NEW t, MemosGrow(s, t)
    PROVE  IsMade(s.types[i], t, k, f)
<1> DEFINE x == s.types[i]
<1>1. x.by = f /\ x.id = M(s, k, f) /\ x.id >= EndId /\ x.op = OpOf(f) /\ LitOK(x.lit, f, k) /\ x.key = k
      /\ x.uses = Operands(NodeOf(s, k), f) /\ (k = 1 => f \notin Words)
  BY DEF IsMade
<1>2. x.by \notin Unsound /\ f \in Kept /\ f \in Fields
  BY <1>1, SoundKept
<1>3. \A u \in DOMAIN x.uses : x.uses[u] # 0
  BY <1>2, UsesNotZero
<1>4. Operands(NodeOf(t, k), f) = Operands(NodeOf(s, k), f)
  BY <1>1, <1>3, OperandsSame
<1>5. M(s, k, f) # 0
  <2>1. M(s, k, f) \in Nat
    BY <1>2, MIs
  <2>2. QED
    BY <1>1, <2>1, DefaultsAre
<1>6. M(t, k, f) = M(s, k, f)
  BY <1>2, <1>5 DEF MemosGrow
<1>7. QED
  BY <1>1, <1>4, <1>6 DEF IsMade

\* A context of which nothing changed but a memo that is filled with the word
\* itself.
LEMMA IntendedSame ==
    ASSUME NEW s, NEW t, Shape(s), Intended(s), MemosGrow(s, t), SameTypes(s, t),
           \A k \in Nat, f \in Sound : M(s, k, f) = 0 /\ M(t, k, f) # 0 =>
                k = 1 /\ f = "arr32" /\ M(t, k, f) = U32 /\ "U32" \in t.defaults
    PROVE  Intended(t)
<1>1. /\ t.types = s.types /\ t.caps = s.caps /\ t.deco = s.deco
      /\ t.defaults = s.defaults /\ t.next = s.next
  BY DEF SameTypes
<1>2. IdsOK(t) /\ UsesOK(t) /\ DecoOK(t) /\ CapsOK(t)
  BY <1>1 DEF Intended, IdsOK, UsesOK, Declared, DecoOK, CapsOK
<1>3. \A i \in DOMAIN s.types, k \in Nat, f \in Sound :
        IsMade(s.types[i], s, k, f) => IsMade(s.types[i], t, k, f)
  BY MadeKept DEF Intended
<1>4. KnownOK(t)
  <2>1. KnownOK(s)
    BY DEF Intended
  <2>2. QED
    BY <1>1, <1>3, <2>1 DEF KnownOK
<1>5. MadeOK(t)
  <2>1. \A d \in t.defaults : \E i \in DOMAIN t.types : IsDefault(t.types[i], d)
    BY <1>1 DEF Intended, MadeOK
  <2>2. ASSUME NEW k \in Nat, NEW f \in Sound, M(t, k, f) # 0
        PROVE  \/ \E i \in DOMAIN t.types : IsMade(t.types[i], t, k, f)
               \/ k = 1 /\ f = "arr32" /\ M(t, k, f) = U32 /\ "U32" \in t.defaults
    <3>1. CASE M(s, k, f) = 0
      BY <2>2, <3>1
    <3>2. CASE M(s, k, f) # 0
      <4>1. M(t, k, f) = M(s, k, f)
        BY <3>2, SoundKept DEF MemosGrow
      <4>2. \/ \E i \in DOMAIN s.types : IsMade(s.types[i], s, k, f)
            \/ k = 1 /\ f = "arr32" /\ M(s, k, f) = U32 /\ "U32" \in s.defaults
        BY <3>2 DEF Intended, MadeOK
      <4>3. QED
        BY <1>1, <1>3, <4>1, <4>2
    <3>3. QED
      BY <3>1, <3>2
  <2>3. QED
    BY <2>1, <2>2 DEF MadeOK
<1>6. QED
  BY <1>2, <1>4, <1>5 DEF Intended

\* A context to which one instruction was added, for a default type, for a memo
\* or for a caller that may forget it.
Fresh(s, i) == \A j \in DOMAIN s.types : s.types[j].id # i.id

LEMMA IntendedMore ==
    ASSUME NEW s, NEW t, Shape(s), Intended(s), MemosGrow(s, t),
           NEW i \in InstrT, t.types = Append(s.types, i), Fresh(s, i),
           s.next <= t.next, t.next \in Nat, i.id < t.next, s.defaults \subseteq t.defaults,
           i.by \notin Unsound => \A u \in DOMAIN i.uses : \E j \in DOMAIN s.types : s.types[j].id = i.uses[u],
           \/ \E d \in t.defaults : IsDefault(i, d)
           \/ \E k \in Nat, f \in Sound : IsMade(i, t, k, f)
           \/ i.by \in Unsound /\ i.id >= EndId,
           \A d \in t.defaults : d \in s.defaults \/ IsDefault(i, d),
           \A k \in Nat, f \in Sound : M(t, k, f) # 0 => M(s, k, f) # 0 \/ IsMade(i, t, k, f),
           t.deco = s.deco \cup ({i.id} \X Wants(i)),
           CapsOK(t)
    PROVE  Intended(t)
<1>1. PICK n \in Nat : n = Len(s.types)
  BY TypesAre
<1>2. /\ DOMAIN s.types = 1..n /\ DOMAIN t.types = 1..(n + 1)
      /\ \A j \in 1..n : t.types[j] = s.types[j]
      /\ t.types[n + 1] = i
  <2>1. s.types \in Seq(InstrT)
    BY TypesAre
  <2> HIDE DEF InstrT
  <2>2. QED
    BY <1>1, <2>1, Appended
<1>3. IdsOK(s) /\ UsesOK(s) /\ KnownOK(s) /\ MadeOK(s) /\ DecoOK(s)
  BY DEF Intended
<1>4. \A j \in 1..n : s.types[j].id \in Nat /\ i.id \in Nat /\ s.next \in Nat
  BY <1>2, TypesAre DEF InstrT
<1>5. \A j \in 1..(n + 1) : j \in 1..n \/ j = n + 1
  OBVIOUS
<1>6. \A j \in 1..n : j \in 1..(n + 1) /\ j # n + 1
  OBVIOUS
<1>7. IdsOK(t)
  <2>1. \A j \in 1..n : s.types[j].id < s.next
    BY <1>2, <1>3 DEF IdsOK
  <2>2. \A j \in 1..n : s.types[j].id < t.next
    BY <1>4, <2>1
  <2>3. \A j \in 1..(n + 1) : t.types[j].id < t.next
    BY <1>2, <1>5, <2>2
  <2>4. \A j, m \in 1..n : s.types[j].id = s.types[m].id => j = m
    BY <1>2, <1>3 DEF IdsOK
  <2>5. \A j \in 1..n : s.types[j].id # i.id
    BY <1>2 DEF Fresh
  <2>6. \A j, m \in 1..(n + 1) : t.types[j].id = t.types[m].id => j = m
    BY <1>2, <1>5, <2>4, <2>5
  <2>7. QED
    BY <1>2, <2>3, <2>6 DEF IdsOK
<1>8. UsesOK(t)
  <2> SUFFICES ASSUME NEW j \in 1..(n + 1), t.types[j].by \notin Unsound,
                      NEW u \in DOMAIN t.types[j].uses
               PROVE  \E m \in 1..(j - 1) : t.types[m].id = t.types[j].uses[u]
    BY <1>2 DEF UsesOK, Declared
  <2>1. CASE j \in 1..n
    <3>1. \E m \in 1..(j - 1) : s.types[m].id = s.types[j].uses[u]
      BY <1>2, <1>3, <2>1 DEF UsesOK, Declared
    <3>2. \A m \in 1..(j - 1) : m \in 1..n
      BY <2>1
    <3>3. QED
      BY <1>2, <2>1, <3>1, <3>2
  <2>2. CASE j = n + 1
    <3>1. j - 1 = n
      BY <2>2
    <3>2. \E m \in 1..n : s.types[m].id = i.uses[u]
      BY <1>2, <2>2
    <3>3. QED
      BY <1>2, <2>2, <3>1, <3>2
  <2>3. QED
    BY <1>5, <2>1, <2>2
<1>9. \A j \in 1..n, k \in Nat, f \in Sound :
        IsMade(s.types[j], s, k, f) => IsMade(s.types[j], t, k, f)
  BY <1>2, <1>3, MadeKept
<1>10. KnownOK(t)
  <2>1. \A j \in 1..n : \/ \E d \in t.defaults : IsDefault(s.types[j], d)
                        \/ \E k \in Nat, f \in Sound : IsMade(s.types[j], t, k, f)
                        \/ s.types[j].by \in Unsound /\ s.types[j].id >= EndId
    BY <1>2, <1>3, <1>9 DEF KnownOK
  <2>2. QED
    BY <1>2, <1>5, <2>1 DEF KnownOK
<1>11. MadeOK(t)
  <2>1. \A d \in t.defaults : \E j \in 1..(n + 1) : IsDefault(t.types[j], d)
    <3>1. \A d \in s.defaults : \E j \in 1..n : IsDefault(s.types[j], d)
      BY <1>2, <1>3 DEF MadeOK
    <3>2. n + 1 \in 1..(n + 1)
      OBVIOUS
    <3>3. QED
      BY <1>2, <1>6, <3>1, <3>2
  <2>2. ASSUME NEW k \in Nat, NEW f \in Sound, M(t, k, f) # 0
        PROVE  \/ \E j \in 1..(n + 1) : IsMade(t.types[j], t, k, f)
               \/ k = 1 /\ f = "arr32" /\ M(t, k, f) = U32 /\ "U32" \in t.defaults
    <3>1. CASE IsMade(i, t, k, f)
      <4>1. n + 1 \in 1..(n + 1)
        OBVIOUS
      <4>2. QED
        BY <1>2, <3>1, <4>1
    <3>2. CASE M(s, k, f) # 0
      <4>1. M(t, k, f) = M(s, k, f)
        BY <3>2, SoundKept DEF MemosGrow
      <4>2. \/ \E j \in 1..n : IsMade(s.types[j], s, k, f)
            \/ k = 1 /\ f = "arr32" /\ M(s, k, f) = U32 /\ "U32" \in s.defaults
        BY <1>2, <1>3, <3>2 DEF MadeOK
      <4>3. QED
        BY <1>2, <1>6, <1>9, <4>1, <4>2
    <3>3. QED
      BY <2>2, <3>1, <3>2
  <2>3. QED
    BY <1>2, <2>1, <2>2 DEF MadeOK
<1>12. DecoOK(t)
  <2> SUFFICES \A p : p \in t.deco <=>
                    /\ p \in Nat \X Whats
                    /\ \E j \in 1..(n + 1) : p[1] = t.types[j].id /\ p[2] \in Wants(t.types[j])
    BY <1>2 DEF DecoOK
  <2>1. \A p : p \in s.deco <=> /\ p \in Nat \X Whats
                                /\ \E j \in 1..n : p[1] = s.types[j].id /\ p[2] \in Wants(s.types[j])
    BY <1>2, <1>3 DEF DecoOK
  <2>2. Wants(i) \subseteq Whats
    BY WantsOK DEF InstrT
  <2>3. \A p : p \in {i.id} \X Wants(i) <=> p \in Nat \X Whats /\ p[1] = i.id /\ p[2] \in Wants(i)
    BY <2>2 DEF InstrT
  <2>4. \A p : (\E j \in 1..(n + 1) : p[1] = t.types[j].id /\ p[2] \in Wants(t.types[j]))
            <=> \/ \E j \in 1..n : p[1] = s.types[j].id /\ p[2] \in Wants(s.types[j])
                \/ p[1] = i.id /\ p[2] \in Wants(i)
    <3>1. n + 1 \in 1..(n + 1)
      OBVIOUS
    <3>2. QED
      BY <1>2, <1>5, <1>6, <3>1
  <2>5. QED
    BY <2>1, <2>3, <2>4
<1>13. QED
  BY <1>7, <1>8, <1>10, <1>11, <1>12 DEF Intended
------------------------------------------------------------------------------
(***************************************************************************)
(* What each step of a maker preserves.                                    *)
(***************************************************************************)
Grows(s, t) ==
    /\ s.failed => t.failed
    /\ s.next <= t.next
    /\ ~t.failed => s.defaults \subseteq t.defaults /\ MemosGrow(s, t)

Holding(s, t) == \A l \in Nat : Holds(s, l) => Holds(t, l)

SameMemos(s, t) == \A l \in Nat, g \in Kept : M(t, l, g) = M(s, l, g)

\* The makers of structures and what they call do not fill the memos of
\* pointers.
Pointers == {"ptr_psh", "ptr_storage", "ptr", "ptr_func", "ptr_work", "ptr_workspec"}
Bare(s, t) == \A l \in Nat, g \in Pointers : M(s, l, g) = 0 => M(t, l, g) = 0

OnlyFills(s, t, f) == \A l \in Nat, g \in Kept : g # f => M(t, l, g) = M(s, l, g)

LEMMA BareTransitive ==
    ASSUME NEW s, NEW t, NEW u, Bare(s, t), Bare(t, u)
    PROVE  Bare(s, u)
BY DEF Bare

LEMMA PointersKept == Pointers \subseteq Kept /\ Pointers \subseteq Fields
BY DEF Pointers, Kept, Fields

LEMMA FillsBare ==
    ASSUME NEW s, NEW t, NEW f, f \notin Pointers, OnlyFills(s, t, f)
    PROVE  Bare(s, t)
BY PointersKept DEF Bare, OnlyFills

LEMMA GrowsTransitive ==
    ASSUME NEW s, NEW t, NEW u, s.next \in Nat, t.next \in Nat, u.next \in Nat,
           Grows(s, t), Grows(t, u)
    PROVE  Grows(s, u)
BY DEF Grows, MemosGrow

LEMMA HoldingTransitive ==
    ASSUME NEW s, NEW t, NEW u, Holding(s, t), Holding(t, u)
    PROVE  Holding(s, u)
BY DEF Holding

LEMMA RetIs ==
    ASSUME NEW s, Shape(s), NEW id \in Nat, NEW t, t = Ret(s, id)
    PROVE  /\ Shape(t) /\ t.ret = id /\ SameTypes(s, t) /\ t.cache = s.cache /\ t.ok = s.ok
           /\ SameMemos(s, t) /\ Holding(s, t) /\ Grows(s, t)
<1>1. /\ t \in CtxT /\ t.ret = id /\ SameTypes(s, t) /\ t.cache = s.cache /\ t.ok = s.ok
  BY DEF Shape, CtxT, Ret, SameTypes
<1>2. t.next = s.next /\ t.failed = s.failed /\ t.defaults = s.defaults /\ s.next \in Nat
  BY <1>1, TypesAre DEF SameTypes
<1>3. Shape(t)
  BY <1>1, <1>2 DEF Shape
<1>4. SameMemos(s, t) /\ Holding(s, t)
  BY <1>1, SameCache DEF SameMemos, Holding
<1>5. Grows(s, t)
  BY <1>2, <1>4 DEF Grows, MemosGrow, SameMemos
<1>6. QED
  BY <1>1, <1>3, <1>4, <1>5

RetShape(s, t, id) ==
    Shape(t) /\ t.ret = id /\ SameTypes(s, t) /\ t.cache = s.cache /\ t.ok = s.ok /\ SameMemos(s, t)

LEMMA RetShapeIs ==
    ASSUME NEW s, Shape(s), NEW id \in Nat, NEW t, t = Ret(s, id)
    PROVE  RetShape(s, t, id)
BY RetIs DEF RetShape

LEMMA GoodSame ==
    ASSUME NEW s, NEW t, Good(s), Shape(t), SameTypes(s, t), SameMemos(s, t)
    PROVE  Good(t) /\ Grows(s, t)
<1>1. MemosGrow(s, t) /\ s.next \in Nat /\ Shape(s)
  BY TypesAre DEF MemosGrow, SameMemos, Good
<1>2. t.next = s.next /\ t.failed = s.failed /\ t.defaults = s.defaults
  BY DEF SameTypes
<1>3. MemosOK(t)
  BY <1>2 DEF Good, MemosOK, SameMemos
<1>4. ~t.failed => Intended(t)
  <2> SUFFICES ASSUME ~t.failed PROVE Intended(t)
    OBVIOUS
  <2>1. Intended(s)
    BY <1>2 DEF Good
  <2>2. \A k \in Nat, f \in Sound : M(t, k, f) = M(s, k, f)
    BY SoundKept DEF SameMemos
  <2>3. QED
    BY <1>1, <2>1, <2>2, IntendedSame
<1>5. QED
  BY <1>1, <1>2, <1>3, <1>4 DEF Good, Grows

LEMMA GoodFailed ==
    ASSUME NEW s, NEW t, Good(s), Shape(t), t.failed, s.next <= t.next,
           SameMemos(s, t) \/ \A l \in Nat, g \in Kept : M(t, l, g) = 0
    PROVE  Good(t) /\ Grows(s, t)
<1>1. s.next \in Nat /\ t.next \in Nat /\ t.next >= EndId /\ Shape(s)
  BY TypesAre DEF Good
<1>2. \A l \in Nat, g \in Kept : M(s, l, g) \in Nat
  BY <1>1, MIs, SoundKept
<1>3. MemosOK(t)
  <2>1. CASE SameMemos(s, t)
    <3>1. \A l \in Nat, g \in Kept : M(s, l, g) < t.next
      BY <1>1, <1>2 DEF Good, MemosOK
    <3>2. QED
      BY <2>1, <3>1 DEF Good, MemosOK, SameMemos
  <2>2. CASE \A l \in Nat, g \in Kept : M(t, l, g) = 0
    BY <1>1, <2>2, DefaultsAre DEF MemosOK
  <2>3. QED
    BY <2>1, <2>2
<1>4. QED
  BY <1>3 DEF Good, Grows

\* A memo that is given the id it has, or the one of the word itself.
LEMMA GoodWord ==
    ASSUME NEW s, Good(s), NEW k \in Nat, Holds(s, k), NEW f \in Kept, NEW id \in Nat,
           \/ id = M(s, k, f)
           \/ id < EndId /\ (s.failed \/ /\ k = 1 /\ f = "arr32" /\ id = U32 /\ "U32" \in s.defaults
                                         /\ M(s, k, f) \in {0, U32}),
           NEW t, t = SetMemo(s, k, f, id)
    PROVE  Good(t) /\ Grows(s, t) /\ Holding(s, t) /\ M(t, k, f) = id
           /\ \A l \in Nat, g \in Fields : g # f => M(t, l, g) = M(s, l, g)
<1>0. Shape(s) /\ f \in Fields
  BY SoundKept DEF Good
<1>1. /\ Shape(t) /\ SameTypes(s, t) /\ \A l \in Nat : Holds(t, l) <=> Holds(s, l)
      /\ \A l \in Nat, g \in Fields : M(t, l, g) = IF l = k /\ g = f THEN id ELSE M(s, l, g)
  <2>1. MemoSet(s, t, k, f, id)
    BY <1>0, MemoSetIs
  <2>2. QED
    BY <2>1 DEF MemoSet, Filled
<1>2. Holding(s, t) /\ M(t, k, f) = id /\ \A l \in Nat, g \in Fields : g # f => M(t, l, g) = M(s, l, g)
  BY <1>0, <1>1 DEF Holding
<1>3. CASE id = M(s, k, f)
  <2>1. SameMemos(s, t)
    BY <1>1, <1>3, SoundKept DEF SameMemos
  <2>2. QED
    BY <1>1, <1>2, <2>1, GoodSame
<1>4. CASE /\ id < EndId
           /\ (s.failed \/ /\ k = 1 /\ f = "arr32" /\ id = U32 /\ "U32" \in s.defaults
                           /\ M(s, k, f) \in {0, U32})
  <2>1. t.next = s.next /\ t.failed = s.failed /\ t.defaults = s.defaults
        /\ s.next \in Nat /\ s.next >= EndId
    BY <1>0, <1>1, TypesAre DEF SameTypes
  <2>2. \A l \in Nat, g \in Kept : M(t, l, g) = IF l = k /\ g = f THEN id ELSE M(s, l, g)
    BY <1>1, SoundKept
  <2>3. MemosOK(t)
    <3>1. \A l \in Nat, g \in Kept : M(t, l, g) < t.next
      BY <1>4, <2>1, <2>2, DefaultsAre DEF Good, MemosOK
    <3>2. \A l, m \in Nat, g, h \in Kept :
            M(t, l, g) = M(t, m, h) /\ M(t, l, g) >= EndId => l = m /\ g = h
      <4>1. ~(id >= EndId)
        BY <1>4, DefaultsAre
      <4>2. QED
        BY <2>2, <4>1 DEF Good, MemosOK
    <3>3. QED
      BY <3>1, <3>2 DEF MemosOK
  <2>4. ~s.failed => MemosGrow(s, t)
    BY <1>4, <2>2 DEF MemosGrow
  <2>5. ~t.failed => Intended(t)
    <3> SUFFICES ASSUME ~t.failed PROVE Intended(t)
      OBVIOUS
    <3>1. \A l \in Nat, g \in Sound : M(s, l, g) = 0 /\ M(t, l, g) # 0 =>
                l = 1 /\ g = "arr32" /\ M(t, l, g) = U32 /\ "U32" \in t.defaults
      BY <1>4, <2>1, <2>2, SoundKept
    <3>2. QED
      BY <1>0, <1>1, <2>1, <2>4, <3>1, IntendedSame DEF Good
  <2>6. QED
    BY <1>1, <1>2, <2>1, <2>3, <2>4, <2>5 DEF Good, Grows
<1>5. QED
  BY <1>3, <1>4
------------------------------------------------------------------------------
(***************************************************************************)
(* Make: the instruction, its decorations, the id and the memo.            *)
(***************************************************************************)
Added(s, t, i) ==
    /\ t.types = Append(s.types, i) /\ t.caps = s.caps
    /\ t.deco = s.deco \cup ({i.id} \X Wants(i))
    /\ t.defaults = s.defaults /\ t.next = s.next + 1 /\ t.failed = s.failed

\* The instruction and its decorations.
LEMMA EmittedIs ==
    ASSUME NEW s, Shape(s), NEW i \in InstrT, NEW id, id = i.id, NEW d,
           d = DecorateAll(Emit(s, i), id, Wants(i))
    PROVE  /\ Shape(d) /\ SameNodes(s, d)
           /\ d.ok => /\ d.types = Append(s.types, i) /\ d.caps = s.caps
                      /\ d.deco = s.deco \cup ({id} \X Wants(i))
<1>1. s \in CtxT
  BY DEF Shape
<1>2. PICK e \in CtxT : e = Emit(s, i)
  BY <1>1, EmitIs
<1>3. /\ SameNodes(s, e) /\ e.caps = s.caps /\ e.deco = s.deco
      /\ (e.ok => e.types = Append(s.types, i))
  BY <1>1, <1>2, EmitIs
<1>4. Wants(i) \in SUBSET Whats /\ Cardinality(Wants(i)) \in Nat
  BY WantsOK DEF InstrT
<1>5. e.ok \/ e.failed
  BY <1>3 DEF SameNodes
<1>6. id \in Nat
  BY DEF InstrT
<1>7. /\ d \in CtxT /\ SameNodes(e, d) /\ d.caps = e.caps /\ d.types = e.types
      /\ d.ok => e.ok /\ d.deco = e.deco \cup ({id} \X Wants(i))
  BY <1>2, <1>4, <1>5, <1>6, DecorateAllIs
<1>8. SameNodes(s, d)
  BY <1>3, <1>7 DEF SameNodes
<1>9. Shape(d)
  BY <1>7, <1>8 DEF Shape, SameNodes
<1>10. QED
  BY <1>3, <1>7, <1>8, <1>9

\* The id is counted when all has been written.
LEMMA CountedIs ==
    ASSUME NEW d, Shape(d), NEW t, t = [d EXCEPT !.next = @ + 1]
    PROVE  /\ Shape(t) /\ t.cache = d.cache /\ t.types = d.types /\ t.caps = d.caps /\ t.deco = d.deco
           /\ t.defaults = d.defaults /\ t.failed = d.failed /\ t.next = d.next + 1
           /\ t.ok = d.ok /\ t.gen = d.gen
<1>1. d \in CtxT /\ d.next \in Nat /\ d.next >= EndId /\ EndId \in Nat
  BY TypesAre, DefaultsAre DEF Shape
<1>2. /\ t \in CtxT /\ t.cache = d.cache /\ t.types = d.types /\ t.caps = d.caps /\ t.deco = d.deco
      /\ t.defaults = d.defaults /\ t.failed = d.failed /\ t.next = d.next + 1
      /\ t.ok = d.ok /\ t.gen = d.gen
  <2>1. PICK n \in Nat : n = d.next + 1
    BY <1>1
  <2>2. t = [d EXCEPT !.next = n]
    BY <2>1
  <2>3. QED
    BY <1>1, <2>1, <2>2 DEF CtxT
<1>3. QED
  BY <1>1, <1>2 DEF Shape

LEMMA MakeIs ==
    ASSUME NEW s, Shape(s), NEW k \in Nat, NEW f \in Fields, NEW op, NEW lit, NEW uses, NEW whats,
           NEW n, n = s.next, NEW i \in InstrT, i = Instr(f, k, op, n, lit, uses), whats = Wants(i),
           NEW t, t = Make(s, k, f, op, lit, uses, whats)
    PROVE  /\ Shape(t) /\ t.ret \in Nat
           /\ \/ Added(s, t, i) /\ t.ret = n /\ Filled(s, t, k, f, n)
              \/ t.ret = 0 /\ t.failed /\ t.cache = s.cache /\ t.next = n /\ t.defaults = s.defaults
<1>1. i.id = s.next /\ i.by = f /\ n = s.next
  BY DEF Instr
<1>2. PICK d : d = DecorateAll(Emit(s, i), s.next, Wants(i))
  OBVIOUS
<1>3. /\ Shape(d) /\ SameNodes(s, d)
      /\ d.ok => /\ d.types = Append(s.types, i) /\ d.caps = s.caps
                 /\ d.deco = s.deco \cup ({s.next} \X Wants(i))
  BY <1>1, <1>2, EmittedIs
<1>4. CASE ~d.ok
  <2>1. t = Ret(d, 0)
    BY <1>1, <1>2, <1>4 DEF Make
  <2>2. Shape(t) /\ t.ret = 0 /\ t.cache = d.cache /\ t.next = d.next /\ t.failed = d.failed
        /\ t.defaults = d.defaults
    BY <1>3, <2>1, RetIs DEF SameTypes
  <2>3. QED
    BY <1>1, <1>3, <1>4, <2>2 DEF SameNodes
<1>5. CASE d.ok
  <2>1. PICK a : a = [d EXCEPT !.next = @ + 1]
    OBVIOUS
  <2>2. PICK b : b = SetMemo(a, k, f, s.next)
    OBVIOUS
  <2>3. t = Ret(b, s.next)
    BY <1>1, <1>2, <1>5, <2>1, <2>2 DEF Make
  <2>4. s.next \in Nat
    BY TypesAre
  <2>5. /\ Shape(a) /\ a.cache = d.cache /\ a.types = d.types /\ a.caps = d.caps /\ a.deco = d.deco
        /\ a.defaults = d.defaults /\ a.failed = d.failed /\ a.next = d.next + 1
    BY <1>3, <2>1, CountedIs
  <2>6. Shape(b) /\ SameTypes(a, b) /\ Filled(a, b, k, f, n)
    <3>1. Shape(a) /\ n \in Nat
      BY <1>1, <2>4, <2>5
    <3>2. b = SetMemo(a, k, f, n)
      BY <1>1, <2>2
    <3>3. QED
      <4>1. MemoSet(a, b, k, f, n)
        BY <3>1, <3>2, MemoSetIs
      <4>2. QED
        BY <4>1 DEF MemoSet
  <2>7. Shape(t) /\ t.ret = s.next /\ SameTypes(b, t) /\ t.cache = b.cache
    <3>1. RetShape(b, t, s.next)
      BY <2>3, <2>4, <2>6, RetShapeIs
    <3>2. QED
      BY <3>1 DEF RetShape
  <2>8. /\ \A l \in Nat : Holds(t, l) <=> Holds(b, l)
        /\ \A l \in Nat, g \in Fields : M(t, l, g) = M(b, l, g)
    BY <2>7, SameCache
  <2>9. a.cache = s.cache
    BY <1>3, <2>5 DEF SameNodes
  <2>10. /\ \A l \in Nat : Holds(a, l) <=> Holds(s, l)
         /\ \A l \in Nat, g \in Fields : M(a, l, g) = M(s, l, g)
    BY <2>9, SameCache
  <2>11. Added(s, t, i)
    BY <1>1, <1>3, <1>5, <2>5, <2>6, <2>7 DEF Added, SameTypes, SameNodes
  <2>12. Filled(s, t, k, f, n)
    BY <2>6, <2>8, <2>10 DEF Filled
  <2>13. QED
    BY <1>1, <2>4, <2>7, <2>11, <2>12
<1>6. QED
  BY <1>4, <1>5

\* The operands are declared.
There(s, uses) == \A u \in DOMAIN uses : \E j \in DOMAIN s.types : s.types[j].id = uses[u]

\* What a maker of field f for key k promises its callers.
Answers(s, t, k, f) ==
    /\ t.ret = 0 \/ t.ret = M(t, k, f)
    /\ ~t.failed => t.ret # 0
    /\ t.failed /\ ~s.failed => t.ret = 0

Made(s, t, k, f) ==
    /\ Good(t) /\ Grows(s, t) /\ Holding(s, t) /\ t.ret \in Nat /\ Answers(s, t, k, f)
    /\ OnlyFills(s, t, f) /\ t.defaults = s.defaults

LEMMA GoodMake ==
    ASSUME NEW s, Good(s), NEW k \in Nat, Holds(s, k), NEW f \in Kept, M(s, k, f) = 0,
           k = 1 => f \notin Words, NEW op, NEW lit, NEW uses, NEW whats,
           NEW i \in InstrT, i = Instr(f, k, op, s.next, lit, uses), whats = Wants(i),
           f \in Sound => op = OpOf(f) /\ LitOK(lit, f, k) /\ uses = Operands(NodeOf(s, k), f),
           f \in Sound /\ ~s.failed => There(s, uses),
           NEW t, t = Make(s, k, f, op, lit, uses, whats)
    PROVE  Made(s, t, k, f)
<1>1. /\ Shape(s) /\ f \in Fields /\ s.next \in Nat /\ s.next >= EndId /\ EndId = 21
      /\ s.types \in Seq(InstrT)
  BY SoundKept, TypesAre, DefaultsAre DEF Good
<1>0. PICK n \in Nat : n = s.next
  BY <1>1
<1>2. /\ Shape(t) /\ t.ret \in Nat
      /\ \/ Added(s, t, i) /\ t.ret = n /\ Filled(s, t, k, f, n)
         \/ t.ret = 0 /\ t.failed /\ t.cache = s.cache /\ t.next = n /\ t.defaults = s.defaults
  <2>1. i = Instr(f, k, op, n, lit, uses)
    BY <1>0
  <2>2. QED
    BY <1>1, <1>0, <2>1, MakeIs
<1>3. CASE t.ret = 0 /\ t.failed /\ t.cache = s.cache /\ t.next = n /\ t.defaults = s.defaults
  <2>1. SameMemos(s, t) /\ Holding(s, t)
    BY <1>3, SameCache DEF SameMemos, Holding
  <2>2. s.next <= t.next
    BY <1>1, <1>3, <1>0
  <2>3. Good(t) /\ Grows(s, t)
    BY <1>2, <1>3, <2>1, <2>2, GoodFailed
  <2>4. OnlyFills(s, t, f)
    BY <2>1 DEF OnlyFills, SameMemos
  <2>5. QED
    BY <1>2, <1>3, <2>1, <2>3, <2>4 DEF Answers, Made
<1>4. CASE Added(s, t, i) /\ t.ret = n /\ Filled(s, t, k, f, n)
  <2>1. /\ t.types = Append(s.types, i) /\ t.caps = s.caps
        /\ t.deco = s.deco \cup ({i.id} \X Wants(i))
        /\ t.defaults = s.defaults /\ t.next = n + 1 /\ t.failed = s.failed
    BY <1>4, <1>0 DEF Added
  <2>2. /\ i.id = n /\ i.by = f /\ i.key = k /\ i.op = op /\ i.lit = lit /\ i.uses = uses
    BY <1>0 DEF Instr
  <2>3. Holding(s, t)
    BY <1>4 DEF Holding, Filled
  <2>4. \A l \in Nat, g \in Kept : M(t, l, g) = IF l = k /\ g = f THEN n ELSE M(s, l, g)
    BY <1>4, SoundKept DEF Filled
  <2>5. MemosGrow(s, t)
    BY <2>4 DEF MemosGrow
  <2>6. \A l \in Nat, g \in Kept : M(s, l, g) < n /\ M(s, l, g) \in Nat
    BY <1>1, <1>0, MIs, SoundKept DEF Good, MemosOK
  <2>7. MemosOK(t)
    <3>1. \A l \in Nat, g \in Kept : M(t, l, g) < n + 1
      <4>1. \A l \in Nat, g \in Kept : M(s, l, g) < n + 1
        BY <2>6
      <4>2. n < n + 1
        OBVIOUS
      <4>3. QED
        BY <2>4, <4>1, <4>2
    <3>2. \A l, m \in Nat, g, h \in Kept :
            M(t, l, g) = M(t, m, h) /\ M(t, l, g) >= EndId => l = m /\ g = h
      <4>1. \A l \in Nat, g \in Kept : M(s, l, g) # n
        BY <2>6
      <4>2. \A l, m \in Nat, g, h \in Kept :
            M(s, l, g) = M(s, m, h) /\ M(s, l, g) >= EndId => l = m /\ g = h
        BY DEF Good, MemosOK
      <4>3. QED
        BY <2>4, <4>1, <4>2
    <3>3. \A l \in Nat, g \in Kept : M(t, l, g) < t.next
      BY <2>1, <3>1
    <3>4. QED
      BY <3>2, <3>3 DEF MemosOK
  <2>8. ASSUME ~s.failed PROVE Intended(t)
    <3>1. Intended(s)
      BY <2>8 DEF Good
    <3>2. Fresh(s, i)
      <4>1. \A j \in DOMAIN s.types : s.types[j].id < n /\ s.types[j].id \in Nat
        BY <1>1, <1>0, <3>1, TypesAre DEF Intended, IdsOK, InstrT
      <4>2. QED
        BY <1>1, <2>2, <4>1 DEF Fresh
    <3>3. s.next <= t.next /\ t.next \in Nat /\ i.id < t.next /\ i.id >= EndId
      BY <1>1, <1>0, <2>1, <2>2
    <3>4. i.by \notin Unsound => f \in Sound
      BY <2>2 DEF Sound, Unsound
    <3>5. f \in Sound => IsMade(i, t, k, f)
      <4> SUFFICES ASSUME f \in Sound PROVE IsMade(i, t, k, f)
        OBVIOUS
      <4>1. \A u \in DOMAIN uses : uses[u] # 0
        <5>1. \A j \in DOMAIN s.types : s.types[j].id # 0
          BY <1>1, TypesAre
        <5>2. QED
          BY <2>8, <5>1 DEF There
      <4>2. Operands(NodeOf(t, k), f) = Operands(NodeOf(s, k), f)
        BY <2>5, <4>1, OperandsSame
      <4>3. M(t, k, f) = i.id
        BY <2>2, <2>4
      <4>4. QED
        BY <2>2, <3>3, <4>2, <4>3 DEF IsMade
    <3>6. \/ \E d \in t.defaults : IsDefault(i, d)
          \/ \E l \in Nat, g \in Sound : IsMade(i, t, l, g)
          \/ i.by \in Unsound /\ i.id >= EndId
      BY <3>3, <3>4, <3>5
    <3>7. \A l \in Nat, g \in Sound : M(t, l, g) # 0 => M(s, l, g) # 0 \/ IsMade(i, t, l, g)
      BY <2>4, <3>5, SoundKept
    <3>8. CapsOK(t)
      BY <2>1, <3>1 DEF Intended, CapsOK
    <3>9. i.by \notin Unsound =>
            \A u \in DOMAIN i.uses : \E j \in DOMAIN s.types : s.types[j].id = i.uses[u]
      BY <2>2, <2>8, <3>4 DEF There
    <3>10. s.defaults \subseteq t.defaults /\ \A d \in t.defaults : d \in s.defaults \/ IsDefault(i, d)
      BY <2>1
    <3>11. QED
      BY <1>1, <2>1, <2>5, <3>1, <3>2, <3>3, <3>6, <3>7, <3>8, <3>9, <3>10, IntendedMore
  <2>9. Good(t)
    BY <1>2, <2>1, <2>7, <2>8 DEF Good
  <2>10. Grows(s, t)
    BY <1>1, <1>0, <2>1, <2>5 DEF Grows
  <2>11. Answers(s, t, k, f)
    <3>1. M(t, k, f) = n
      BY <2>4
    <3>2. QED
      BY <1>1, <1>4, <1>0, <2>1, <3>1 DEF Answers
  <2>12. OnlyFills(s, t, f)
    BY <2>4 DEF OnlyFills
  <2>13. QED
    BY <1>2, <2>1, <2>3, <2>9, <2>10, <2>11, <2>12 DEF Made
<1>5. QED
  BY <1>2, <1>3, <1>4
------------------------------------------------------------------------------
(***************************************************************************)
(* Default types.                                                          *)
(***************************************************************************)
LEMMA CapabilityOK ==
    /\ DOMAIN Capability = {"U8", "U16", "U64", "F16", "F64"}
    /\ \A b \in DOMAIN Capability : Capability[b] \in CapNames
    /\ \A b, c \in DOMAIN Capability : Capability[b] = Capability[c] => b = c
<1>1. /\ DOMAIN Capability = {"U8", "U16", "U64", "F16", "F64"}
      /\ Capability["U8"] = "Int8" /\ Capability["U16"] = "Int16" /\ Capability["U64"] = "Int64"
      /\ Capability["F16"] = "Float16" /\ Capability["F64"] = "Float64"
  BY DEF Capability
<1>2. QED
  BY <1>1 DEF CapNames

LEMMA BasesOK ==
    /\ Bases \subseteq DefaultNames /\ DOMAIN Capability \subseteq Bases
    /\ DOMAIN Pointee \subseteq DefaultNames /\ Interfaces \subseteq DefaultNames
    /\ DefaultNames = Bases \cup DOMAIN Pointee \cup Interfaces \cup {"VOID", "FN_VOID"}
    /\ DOMAIN Pointee \cap (Bases \cup {"VOID", "FN_VOID"} \cup Interfaces) = {}
    /\ Interfaces \cap (Bases \cup {"VOID", "FN_VOID"}) = {}
    /\ {"VOID", "FN_VOID"} \cap Bases = {}
BY CapabilityOK DEF Bases, DefaultNames, Pointee, Interfaces

\* Default type d was declared by i and noted.
Noted(s, t, d, i) ==
    /\ t.types = Append(s.types, i) /\ t.deco = s.deco /\ t.defaults = s.defaults \cup {d}
    /\ t.next = s.next /\ t.failed = s.failed /\ t.cache = s.cache /\ t.ret = DefaultId(d)
    /\ d \in DOMAIN Capability => t.caps = Append(s.caps, Capability[d])
    /\ d \notin DOMAIN Capability => t.caps = s.caps

\* A call that failed and answers 0.
Lost(s, t) == t.ret = 0 /\ t.failed /\ t.cache = s.cache /\ t.next = s.next
              /\ t.defaults = s.defaults

LEMMA GoodLost ==
    ASSUME NEW s, NEW t, Good(s), Shape(t), Lost(s, t)
    PROVE  Good(t) /\ Grows(s, t) /\ Holding(s, t)
<1>1. SameMemos(s, t) /\ Holding(s, t) /\ t.failed
  BY SameCache DEF Lost, SameMemos, Holding
<1>2. s.next <= t.next
  BY TypesAre DEF Lost, Good
<1>3. QED
  BY <1>1, <1>2, GoodFailed

LEMMA CapsNoted ==
    ASSUME NEW s, NEW t, Shape(s), CapsOK(s), NEW d \in DefaultNames, d \notin s.defaults,
           t.defaults = s.defaults \cup {d},
           d \in DOMAIN Capability => t.caps = Append(s.caps, Capability[d]),
           d \notin DOMAIN Capability => t.caps = s.caps
    PROVE  CapsOK(t)
<1>1. s.caps \in Seq(CapNames)
  BY DEF Shape, CtxT
<1>2. CASE d \notin DOMAIN Capability
  <2>1. t.defaults \cap DOMAIN Capability = s.defaults \cap DOMAIN Capability
    BY <1>2
  <2>2. QED
    BY <1>2, <2>1 DEF CapsOK
<1>3. CASE d \in DOMAIN Capability
  <2>1. PICK n : n = Len(s.caps)
    OBVIOUS
  <2>2. Capability[d] \in CapNames
    BY <1>3, CapabilityOK
  <2>3. /\ n \in Nat /\ DOMAIN s.caps = 1..n /\ DOMAIN t.caps = 1..(n + 1)
        /\ \A j \in 1..n : t.caps[j] = s.caps[j]
        /\ t.caps[n + 1] = Capability[d]
    <3> HIDE DEF CapNames
    <3>1. QED
      BY <1>1, <1>3, <2>1, <2>2, Appended
  <2>4. \A j \in 1..(n + 1) : j \in 1..n \/ j = n + 1
    BY <2>3
  <2>5. \A j \in 1..n : \E e \in s.defaults \cap DOMAIN Capability : s.caps[j] = Capability[e]
    BY <2>3 DEF CapsOK
  <2>6. \A j \in 1..n : s.caps[j] # Capability[d]
    BY <1>3, <2>5, CapabilityOK
  <2>7. \A i, j \in 1..n : s.caps[i] = s.caps[j] => i = j
    BY <2>3 DEF CapsOK
  <2>8. \A i, j \in 1..(n + 1) : t.caps[i] = t.caps[j] => i = j
    BY <2>3, <2>4, <2>6, <2>7
  <2>9. \A j \in 1..(n + 1) : \E e \in t.defaults \cap DOMAIN Capability : t.caps[j] = Capability[e]
    <3>1. \A j \in 1..n : \E e \in t.defaults \cap DOMAIN Capability : t.caps[j] = Capability[e]
      BY <1>3, <2>3, <2>5
    <3>2. \E e \in t.defaults \cap DOMAIN Capability : t.caps[n + 1] = Capability[e]
      BY <1>3, <2>3
    <3>3. QED
      BY <2>4, <3>1, <3>2
  <2>10. \A e \in t.defaults \cap DOMAIN Capability : \E j \in 1..(n + 1) : t.caps[j] = Capability[e]
    <3>1. \A e \in s.defaults \cap DOMAIN Capability : \E j \in 1..n : s.caps[j] = Capability[e]
      BY <2>3 DEF CapsOK
    <3>2. n + 1 \in 1..(n + 1) /\ \A j \in 1..n : j \in 1..(n + 1)
      BY <2>3
    <3>3. QED
      BY <1>3, <2>3, <3>1, <3>2
  <2>11. QED
    BY <2>3, <2>8, <2>9, <2>10 DEF CapsOK
<1>4. QED
  BY <1>2, <1>3

LEMMA GoodNoted ==
    ASSUME NEW s, NEW t, Good(s), Shape(t), NEW d \in DefaultNames, d \notin s.defaults,
           NEW i \in InstrT, IsDefault(i, d), Noted(s, t, d, i),
           ~s.failed => \A u \in DOMAIN i.uses : \E j \in DOMAIN s.types : s.types[j].id = i.uses[u]
    PROVE  Good(t) /\ Grows(s, t)
<1>1. Shape(s) /\ s.next \in Nat /\ s.next >= EndId /\ EndId = 21
  BY TypesAre, DefaultsAre DEF Good
<1>2. /\ t.types = Append(s.types, i) /\ t.deco = s.deco /\ t.defaults = s.defaults \cup {d}
      /\ t.next = s.next /\ t.failed = s.failed /\ t.cache = s.cache
      /\ d \in DOMAIN Capability => t.caps = Append(s.caps, Capability[d])
      /\ d \notin DOMAIN Capability => t.caps = s.caps
  BY DEF Noted
<1>3. \A l \in Nat, g \in Fields : M(t, l, g) = M(s, l, g)
  BY <1>2, SameCache
<1>4. \A l \in Nat, g \in Kept : M(t, l, g) = M(s, l, g)
  BY <1>3, SoundKept
<1>5. MemosOK(t) /\ MemosGrow(s, t)
  BY <1>2, <1>4 DEF Good, MemosOK, MemosGrow
<1>6. ASSUME ~s.failed PROVE Intended(t)
  <2>1. Intended(s)
    BY <1>6 DEF Good
  <2>2. i.by = "" /\ i.id = DefaultId(d) /\ DefaultId(d) \in 1..20
    BY DefaultIdOK DEF IsDefault
  <2>3. Fresh(s, i)
    <3> SUFFICES ASSUME NEW j \in DOMAIN s.types PROVE s.types[j].id # DefaultId(d)
      BY <2>2 DEF Fresh
    <3>1. \/ \E e \in s.defaults : IsDefault(s.types[j], e)
          \/ s.types[j].id >= EndId
      BY <2>1 DEF Intended, KnownOK, IsMade
    <3>2. CASE \E e \in s.defaults : IsDefault(s.types[j], e)
      <4>1. PICK e \in s.defaults : s.types[j].id = DefaultId(e)
        BY <3>2 DEF IsDefault
      <4>2. e \in DefaultNames /\ e # d
        BY <1>1 DEF Shape, CtxT
      <4>3. QED
        BY <4>1, <4>2, DefaultIdOK
    <3>3. CASE s.types[j].id >= EndId
      <4>1. PICK c \in 1..20 : c = DefaultId(d)
        BY <2>2
      <4>2. ~(c >= EndId)
        BY <1>1
      <4>3. QED
        BY <3>3, <4>1, <4>2
    <3>4. QED
      BY <3>1, <3>2, <3>3
  <2>4. s.next <= t.next /\ t.next \in Nat /\ i.id < t.next
    <3>1. PICK n \in Nat : n = s.next /\ n >= 21
      BY <1>1
    <3>2. PICK c \in 1..20 : c = i.id
      BY <2>2
    <3>3. n <= n /\ c < n
      BY <3>1
    <3>4. QED
      BY <1>2, <3>1, <3>2, <3>3
  <2>5. CapsOK(t)
    BY <1>1, <1>2, <2>1, CapsNoted DEF Intended
  <2>6. Wants(i) = {}
    BY <2>2 DEF Wants
  <2>7. t.deco = s.deco \cup ({i.id} \X Wants(i))
    BY <1>2, <2>6
  <2>8. s.defaults \subseteq t.defaults /\ \A e \in t.defaults : e \in s.defaults \/ IsDefault(i, e)
    BY <1>2
  <2>9. \E e \in t.defaults : IsDefault(i, e)
    BY <1>2
  <2>10. \A l \in Nat, g \in Sound : M(t, l, g) # 0 => M(s, l, g) # 0 \/ IsMade(i, t, l, g)
    BY <1>4, SoundKept
  <2>11. \A u \in DOMAIN i.uses : \E j \in DOMAIN s.types : s.types[j].id = i.uses[u]
    BY <1>6
  <2>12. QED
    BY <1>1, <1>2, <1>5, <2>1, <2>3, <2>4, <2>5, <2>7, <2>8, <2>9, <2>10, <2>11, IntendedMore
<1>7. QED
  BY <1>1, <1>2, <1>5, <1>6 DEF Good, Grows

\* What the makers of default types promise their callers.
Gives(s, t, d) ==
    /\ t.ret = 0 \/ t.ret = DefaultId(d)
    /\ ~t.failed => t.ret # 0 /\ d \in t.defaults
    /\ t.failed /\ ~s.failed => t.ret = 0

\* The end of such a maker: e is the context after the emissions.
LEMMA FinishIs ==
    ASSUME NEW s, Shape(s), NEW e \in CtxT, SameNodes(s, e), NEW d \in DefaultNames,
           NEW t, t = Finish(e, d), NEW i,
           e.ok => /\ e.types = Append(s.types, i) /\ e.deco = s.deco
                   /\ d \in DOMAIN Capability => e.caps = Append(s.caps, Capability[d])
                   /\ d \notin DOMAIN Capability => e.caps = s.caps
    PROVE  Shape(t) /\ (Noted(s, t, d, i) \/ Lost(s, t))
<1>1. Shape(e) /\ DefaultId(d) \in Nat
  BY DefaultIdOK DEF Shape, SameNodes
<1>2. CASE ~e.ok
  <2>1. t = Ret(e, 0)
    BY <1>2 DEF Finish
  <2>2. Shape(t) /\ t.ret = 0 /\ SameTypes(e, t) /\ t.cache = e.cache
    <3>1. RetShape(e, t, 0)
      BY <1>1, <2>1, RetShapeIs
    <3>2. QED
      BY <3>1 DEF RetShape
  <2>3. QED
    BY <1>2, <2>2 DEF SameTypes, SameNodes, Lost
<1>3. CASE e.ok
  <2>1. PICK a : a = [e EXCEPT !.defaults = @ \cup {d}]
    OBVIOUS
  <2>2. t = Ret(a, DefaultId(d))
    BY <1>3, <2>1 DEF Finish
  <2>3. PICK x \in SUBSET DefaultNames : x = e.defaults \cup {d}
    BY DEF CtxT
  <2>4. a = [e EXCEPT !.defaults = x]
    BY <2>1, <2>3
  <2>5. /\ a \in CtxT /\ a.cache = e.cache /\ a.types = e.types /\ a.caps = e.caps /\ a.deco = e.deco
        /\ a.defaults = x /\ a.failed = e.failed /\ a.next = e.next
    BY <2>4 DEF CtxT
  <2>6. Shape(a)
    BY <1>1, <2>5 DEF Shape
  <2>7. Shape(t) /\ t.ret = DefaultId(d) /\ SameTypes(a, t) /\ t.cache = a.cache
    <3>1. PICK c \in Nat : c = DefaultId(d)
      BY <1>1
    <3>2. t = Ret(a, c)
      BY <2>2, <3>1
    <3>3. QED
      BY <2>6, <3>1, <3>2, RetIs
  <2>8. Noted(s, t, d, i)
    BY <1>3, <2>3, <2>5, <2>7 DEF Noted, SameTypes, SameNodes
  <2>9. QED
    BY <2>7, <2>8
<1>4. QED
  BY <1>2, <1>3

\* A maker of a default type that is not declared, whose operands are.
LEMMA GoodFinish ==
    ASSUME NEW s, Good(s), NEW e \in CtxT, SameNodes(s, e),
           NEW d \in DefaultNames, d \notin s.defaults, NEW t, t = Finish(e, d),
           NEW i \in InstrT, IsDefault(i, d),
           e.ok => /\ e.types = Append(s.types, i) /\ e.deco = s.deco
                   /\ d \in DOMAIN Capability => e.caps = Append(s.caps, Capability[d])
                   /\ d \notin DOMAIN Capability => e.caps = s.caps,
           ~s.failed => \A u \in DOMAIN i.uses : \E j \in DOMAIN s.types : s.types[j].id = i.uses[u]
    PROVE  /\ Good(t) /\ Grows(s, t) /\ Holding(s, t) /\ Gives(s, t, d) /\ t.ret \in Nat
           /\ t.cache = s.cache /\ t.defaults \subseteq s.defaults \cup {d}
<1>1. Shape(s) /\ DefaultId(d) \in Nat /\ DefaultId(d) # 0
  <2>1. Shape(s)
    BY DEF Good
  <2>2. QED
    BY <2>1, DefaultIdOK, SMTT(30)
<1>2. Shape(t) /\ (Noted(s, t, d, i) \/ Lost(s, t))
  BY <1>1, FinishIs
<1>3. CASE Lost(s, t)
  <2>1. Good(t) /\ Grows(s, t) /\ Holding(s, t)
    BY <1>2, <1>3, GoodLost
  <2>2. QED
    BY <1>3, <2>1 DEF Lost, Gives
<1>4. CASE Noted(s, t, d, i)
  <2>1. Good(t) /\ Grows(s, t)
    BY <1>2, <1>4, GoodNoted
  <2>2. Holding(s, t)
    BY <1>4, SameCache DEF Noted, Holding
  <2>3. QED
    BY <1>1, <1>4, <2>1, <2>2 DEF Noted, Gives
<1>5. QED
  BY <1>2, <1>3, <1>4

LEMMA KnownDefault ==
    ASSUME NEW s, Good(s), NEW d \in s.defaults, NEW t, t = Ret(s, DefaultId(d))
    PROVE  /\ Good(t) /\ Grows(s, t) /\ Holding(s, t) /\ Gives(s, t, d) /\ t.ret \in Nat
           /\ t.cache = s.cache /\ t.defaults \subseteq s.defaults \cup {d}
<1>1. Shape(s) /\ d \in DefaultNames
  BY DEF Good, Shape, CtxT
<1>2. DefaultId(d) \in Nat /\ DefaultId(d) # 0
  BY <1>1, DefaultIdOK
<1>3. /\ Shape(t) /\ t.ret = DefaultId(d) /\ SameTypes(s, t) /\ t.cache = s.cache
      /\ SameMemos(s, t) /\ Holding(s, t)
  BY <1>1, <1>2, RetIs
<1>4. Good(t) /\ Grows(s, t)
  BY <1>3, GoodSame
<1>5. QED
  BY <1>2, <1>3, <1>4 DEF Gives, SameTypes

LEMMA BaseIs ==
    ASSUME NEW s, Good(s), NEW d \in Bases \cup {"VOID"}, NEW t, t = Base(s, d)
    PROVE  /\ Good(t) /\ Grows(s, t) /\ Holding(s, t) /\ Gives(s, t, d) /\ t.ret \in Nat
           /\ t.cache = s.cache /\ t.defaults \subseteq s.defaults \cup {d}
<1>1. CASE d \in s.defaults
  <2>1. t = Ret(s, DefaultId(d))
    BY <1>1 DEF Base
  <2>2. QED
    BY <1>1, <2>1, KnownDefault
<1>2. CASE d \notin s.defaults
  <2>1. d \in DefaultNames /\ DefaultId(d) \in 1..20 /\ s \in CtxT /\ Shape(s)
    BY BasesOK, DefaultIdOK DEF Good, Shape
  <2>2. PICK i : i = Instr("", 0, "Type", DefaultId(d), d, << >>)
    OBVIOUS
  <2>3. i \in InstrT
    <3>1. DefaultId(d) \in Nat \ {0} /\ << >> \in Seq(Nat)
      BY <2>1
    <3>2. QED
      BY <2>1, <2>2, <3>1 DEF InstrT, Instr
  <2>4. i.by = "" /\ i.id = DefaultId(d) /\ i.op = "Type" /\ i.lit = d /\ i.uses = << >>
    BY <2>2 DEF Instr
  <2>5. IsDefault(i, d)
    <3>1. d # "FN_VOID" /\ d \notin DOMAIN Pointee /\ d \notin Interfaces
      BY BasesOK
    <3>2. QED
      BY <2>4, <3>1 DEF IsDefault, DefaultOp, DefaultLit
  <2>6. PICK e : e = Emit(s, i)
    OBVIOUS
  <2>7. /\ e \in CtxT /\ SameNodes(s, e) /\ e.caps = s.caps /\ e.deco = s.deco
        /\ (e.ok => e.types = Append(s.types, i))
    <3> HIDE DEF InstrT
    <3>1. QED
      BY <2>1, <2>3, <2>6, EmitIs
  <2>8. ~s.failed => \A u \in DOMAIN i.uses : \E j \in DOMAIN s.types : s.types[j].id = i.uses[u]
    <3>1. DOMAIN i.uses = {}
      <4>1. << >> \in Seq(Nat) /\ Len(<< >>) = 0
        OBVIOUS
      <4>2. i.uses \in Seq(Nat) /\ Len(i.uses) = 0
        BY <2>4, <4>1
      <4>3. QED
        BY <4>2
    <3>2. QED
      BY <3>1
  <2>9. CASE e.ok /\ d \in DOMAIN Capability
    <3>1. PICK c : c = EmitCapability(e, Capability[d])
      OBVIOUS
    <3>2. t = Finish(c, d)
      BY <1>2, <2>2, <2>6, <2>9, <3>1 DEF Base
    <3>3. Capability[d] \in CapNames
      BY <2>9, CapabilityOK
    <3>4. /\ c \in CtxT /\ SameNodes(e, c) /\ c.types = e.types /\ c.deco = e.deco
          /\ (c.ok => c.caps = Append(e.caps, Capability[d]))
      <4> HIDE DEF CapNames
      <4>1. QED
        BY <2>7, <3>1, <3>3, EmitCapabilityIs
    <3>5. SameNodes(s, c)
      BY <2>7, <2>9, <3>4 DEF SameNodes
    <3>6. /\ c.ok => /\ c.types = Append(s.types, i) /\ c.deco = s.deco
                     /\ d \in DOMAIN Capability => c.caps = Append(s.caps, Capability[d])
                     /\ d \notin DOMAIN Capability => c.caps = s.caps
      BY <2>7, <2>9, <3>4
    <3>7. QED
      BY <1>2, <2>1, <2>3, <2>5, <2>8, <3>2, <3>4, <3>5, <3>6, GoodFinish
  <2>10. CASE ~(e.ok /\ d \in DOMAIN Capability)
    <3>1. t = Finish(e, d)
      BY <1>2, <2>2, <2>6, <2>10 DEF Base
    <3>2. /\ e.ok => /\ e.types = Append(s.types, i) /\ e.deco = s.deco
                     /\ d \in DOMAIN Capability => e.caps = Append(s.caps, Capability[d])
                     /\ d \notin DOMAIN Capability => e.caps = s.caps
      BY <2>7, <2>10
    <3>3. QED
      BY <1>2, <2>1, <2>3, <2>5, <2>7, <2>8, <3>1, <3>2, GoodFinish
  <2>11. QED
    BY <2>9, <2>10
<1>3. QED
  BY <1>1, <1>2
------------------------------------------------------------------------------
(***************************************************************************)
(* The makers, one after the other.                                        *)
(***************************************************************************)
\* What every maker keeps.
Keeps(s, t, k) ==
    /\ Good(t) /\ Grows(s, t) /\ t.ret \in Nat
    /\ Holds(s, k) => Holding(s, t)
    /\ t.ret # 0 => Holds(t, k)

\* The word, for an array or a vector of one.
WordOf(f) == IF f = "arr8" THEN "U8" ELSE IF f = "arr16" THEN "U16" ELSE "U32"
IsWord(t, k, f) ==
    /\ k = 1 /\ f \in Words /\ t.ret = DefaultId(WordOf(f))
    /\ ~t.failed => WordOf(f) \in t.defaults /\ M(t, k, f) \in {0, t.ret}

\* A maker of field f answers its memo, or the word, or 0 for a call that
\* failed.
Makes(s, t, k, f) ==
    /\ Keeps(s, t, k)
    /\ ~t.failed => t.ret # 0
    /\ t.ret = 0 \/ t.ret = M(t, k, f) \/ IsWord(t, k, f)
    /\ f \notin Pointers => Bare(s, t)

LEMMA GrowsLike ==
    ASSUME NEW s, NEW t, Good(s), Good(t), SameTypes(s, t), SameMemos(s, t)
    PROVE  Grows(s, t)
BY GoodSame DEF Good

LEMMA GoodNext ==
    ASSUME NEW s, Good(s)
    PROVE  Shape(s) /\ s \in CtxT /\ s.next \in Nat /\ s.failed \in BOOLEAN
<1>1. Shape(s)
  BY DEF Good
<1>2. QED
  BY <1>1 DEF Shape, CtxT

\* Contexts with the same nodes and memos.
SameView(s, t) ==
    /\ \A l \in Nat : Holds(t, l) <=> Holds(s, l)
    /\ \A l \in Nat, g \in Fields : M(t, l, g) = M(s, l, g)

GivenBack(s, t, id) ==
    /\ Good(t) /\ Grows(s, t) /\ Holding(s, t) /\ t.ret = id /\ t.failed = s.failed
    /\ t.defaults = s.defaults /\ SameView(s, t)

LEMMA GoodRet ==
    ASSUME NEW s, Good(s), NEW id \in Nat, NEW t, t = Ret(s, id)
    PROVE  /\ Good(t) /\ Grows(s, t) /\ Holding(s, t) /\ t.ret = id /\ t.failed = s.failed
           /\ t.defaults = s.defaults /\ SameView(s, t)
<1>1. /\ Shape(t) /\ t.ret = id /\ SameTypes(s, t) /\ t.cache = s.cache
      /\ SameMemos(s, t) /\ Holding(s, t)
  BY GoodNext, RetIs
<1>2. Good(t) /\ Grows(s, t)
  BY <1>1, GoodSame
<1>3. SameView(s, t)
  BY <1>1, SameCache DEF SameView
<1>4. QED
  BY <1>1, <1>2, <1>3 DEF SameTypes

LEMMA GivenBackIs ==
    ASSUME NEW s, Good(s), NEW id \in Nat, NEW t, t = Ret(s, id)
    PROVE  GivenBack(s, t, id)
BY GoodRet DEF GivenBack

LEMMA GrowsOn ==
    ASSUME NEW s, NEW t, NEW u, Good(s), Good(t), Good(u), Grows(s, t), Grows(t, u)
    PROVE  Grows(s, u)
BY GoodNext, GrowsTransitive

\* The node is there when the maker goes on.
SameFields(s, t) == \A l \in Nat, g \in Fields : M(t, l, g) = M(s, l, g)

NodeGot(s, n, k) ==
    /\ Good(n) /\ Grows(s, n)
    /\ Holds(s, k) => n.ok
    /\ n.ok => /\ Holding(s, n) /\ Holds(n, k) /\ n.failed = s.failed
               /\ n.defaults = s.defaults
               /\ SameFields(s, n)
    /\ ~n.ok => n.failed

LEMMA NodeIsGot ==
    ASSUME NEW s, Good(s), NEW k \in Nat, NEW n, n = Node(s, k)
    PROVE  NodeGot(s, n, k)
<1>1. Shape(s)
  BY GoodNext
<1>2. /\ Shape(n)
      /\ n.types = s.types /\ n.caps = s.caps /\ n.deco = s.deco
      /\ n.defaults = s.defaults /\ n.next = s.next
      /\ Holds(s, k) => n.ok
      /\ n.ok => /\ n.failed = s.failed
                 /\ Holds(n, k)
                 /\ \A l \in Nat : Holds(s, l) => Holds(n, l)
                 /\ \A l \in Nat, f \in Fields : M(n, l, f) = M(s, l, f)
      /\ ~n.ok => n.failed /\ \A l \in Nat, f \in Fields : M(n, l, f) = 0
  BY <1>1, NodeIs
<1>3. CASE n.ok
  <2>1. SameTypes(s, n) /\ SameMemos(s, n) /\ Holding(s, n)
    BY <1>2, <1>3, SoundKept DEF SameTypes, SameMemos, Holding
  <2>2. Good(n) /\ Grows(s, n)
    BY <1>2, <2>1, GoodSame
  <2>3. QED
    BY <1>2, <1>3, <2>1, <2>2 DEF NodeGot, SameFields
<1>4. CASE ~n.ok
  <2>1. \A l \in Nat, f \in Kept : M(n, l, f) = 0
    BY <1>2, <1>4, SoundKept
  <2>2. s.next <= n.next
    BY <1>2, GoodNext
  <2>3. Good(n) /\ Grows(s, n)
    BY <1>2, <1>4, <2>1, <2>2, GoodFailed
  <2>4. QED
    BY <1>2, <1>4, <2>3 DEF NodeGot
<1>5. QED
  BY <1>3, <1>4

LEMMA GoodNode ==
    ASSUME NEW s, Good(s), NEW k \in Nat, NEW n, n = Node(s, k)
    PROVE  /\ Good(n) /\ Grows(s, n)
           /\ Holds(s, k) => n.ok
           /\ n.ok => /\ Holding(s, n) /\ Holds(n, k) /\ n.failed = s.failed
                      /\ n.defaults = s.defaults
                      /\ \A l \in Nat, g \in Fields : M(n, l, g) = M(s, l, g)
           /\ ~n.ok => n.failed
BY NodeIsGot DEF NodeGot, SameFields

\* A maker whose node cannot be made.
LEMMA NodeLost ==
    ASSUME NEW s, Good(s), NEW k \in Nat, NEW f, NEW n, n = Node(s, k), ~n.ok, NEW t, t = Ret(n, 0)
    PROVE  Makes(s, t, k, f) /\ t.ret = 0 /\ t.defaults = s.defaults
<1>1. Good(n) /\ Grows(s, n) /\ ~Holds(s, k) /\ n.failed
  BY GoodNode
<1>2. PICK c \in Nat : c = 0
  OBVIOUS
<1>3. t = Ret(n, c)
  BY <1>2
<1>0. Good(n)
  BY <1>1
<1>4. GivenBack(n, t, c)
  BY <1>0, <1>3, GivenBackIs
<1>5. Grows(s, t) /\ Good(t)
  BY <1>1, <1>4, GrowsOn DEF GivenBack
<1>6. t.ret = 0 /\ t.ret \in Nat /\ t.failed
  BY <1>1, <1>2, <1>4 DEF GivenBack
<1>7. Bare(s, t)
  <2>1. ~n.ok => n.failed /\ \A l \in Nat, g \in Fields : M(n, l, g) = 0
    BY GoodNext, NodeIs
  <2>2. SameView(n, t)
    BY <1>4 DEF GivenBack
  <2>3. QED
    BY <2>1, <2>2, PointersKept DEF Bare, SameView
<1>8. t.defaults = s.defaults
  <2>1. t.defaults = n.defaults
    BY <1>4 DEF GivenBack
  <2>2. Shape(s)
    BY GoodNext
  <2>3. n.defaults = s.defaults
    BY <2>2, NodeIs
  <2>4. QED
    BY <2>1, <2>3
<1>9. QED
  BY <1>1, <1>4, <1>5, <1>6, <1>7, <1>8 DEF Makes, Keeps

\* A maker whose memo is filled.
LEMMA MemoFound ==
    ASSUME NEW s, Good(s), NEW v, Good(v), Grows(s, v), NEW k \in Nat, NEW f \in Fields,
           Holds(s, k) => Holding(s, v), Holds(v, k), f \notin Pointers => Bare(s, v), M(v, k, f) # 0,
           NEW t, t = Ret(v, Memo(v, k, f))
    PROVE  /\ Makes(s, t, k, f) /\ t.ret # 0 /\ t.failed = v.failed /\ t.ret = M(v, k, f)
           /\ t.defaults = v.defaults
<1>1. M(v, k, f) \in Nat /\ Memo(v, k, f) = M(v, k, f)
  BY GoodNext, MIs
<1>2. PICK c \in Nat : c = M(v, k, f) /\ c # 0
  BY <1>1
<1>3. t = Ret(v, c)
  BY <1>1, <1>2
<1>4. /\ Good(t) /\ Grows(v, t) /\ Holding(v, t) /\ t.ret = c /\ t.failed = v.failed
      /\ Holds(t, k) /\ M(t, k, f) = M(v, k, f) /\ t.defaults = v.defaults
  <2>1. /\ Good(t) /\ Grows(v, t) /\ Holding(v, t) /\ t.ret = c /\ t.failed = v.failed
        /\ t.defaults = v.defaults /\ SameView(v, t)
    <3>1. GivenBack(v, t, c)
      BY <1>3, GivenBackIs
    <3>2. QED
      BY <3>1 DEF GivenBack
  <2>2. QED
    BY <2>1 DEF SameView
<1>5. Grows(s, t)
  BY <1>4, GrowsOn
<1>6. Holds(s, k) => Holding(s, t)
  BY <1>4, HoldingTransitive
<1>7. f \notin Pointers => Bare(s, t)
  <2>1. Bare(v, t)
    <3>1. SameView(v, t)
      BY <1>3, GoodRet
    <3>2. QED
      BY <3>1, PointersKept DEF SameView, Bare
  <2>2. QED
    BY <2>1, BareTransitive
<1>8. QED
  BY <1>2, <1>4, <1>5, <1>6, <1>7 DEF Makes, Keeps

\* A maker that makes its instruction in u, where it fits.
LEMMA MakesMake ==
    ASSUME NEW s, Good(s), NEW u, Good(u), Grows(s, u), NEW k \in Nat, NEW f \in Kept,
           Holds(s, k) => Holding(s, u), Holds(u, k), f \notin Pointers => Bare(s, u), NEW t,
           Good(t) /\ Grows(u, t) /\ Holding(u, t) /\ t.ret \in Nat /\ Answers(u, t, k, f),
           OnlyFills(u, t, f)
    PROVE  Makes(s, t, k, f) /\ (t.failed /\ ~u.failed => t.ret = 0)
<1>1. Grows(s, t)
  BY GrowsOn
<1>2. Holds(s, k) => Holding(s, t)
  BY HoldingTransitive
<1>3. Holds(t, k)
  BY DEF Holding
<1>4. f \notin Pointers => Bare(s, t)
  BY FillsBare, BareTransitive
<1>5. QED
  BY <1>1, <1>2, <1>3, <1>4 DEF Makes, Keeps, Answers

LEMMA NotZero == ASSUME NEW n \in Nat, n >= EndId PROVE n \in Nat \ {0}
<1>1. EndId = 21
  BY DefaultsAre
<1>2. QED
  BY <1>1

MakerOps == {"TypePointer", "TypeVector", "Constant", "SpecConstant", "TypeArray", "TypeStruct"}
MakerLits == Nat \cup {""} \cup Classes

LEMMA InstrOK ==
    ASSUME NEW f \in Fields, NEW k \in Nat,
           NEW op \in MakerOps,
           NEW n \in Nat, n >= EndId,
           NEW lit \in MakerLits, NEW uses \in Seq(Nat), NEW i, i = Instr(f, k, op, n, lit, uses)
    PROVE  i \in InstrT /\ i.by = f /\ i.key = k
<1>1. n \in Nat \ {0}
  BY NotZero
<1>2. QED
  BY <1>1 DEF InstrT, Instr, MakerOps, MakerLits

LEMMA DefaultThere ==
    ASSUME NEW s, Good(s), ~s.failed, NEW d \in s.defaults
    PROVE  \E j \in DOMAIN s.types : s.types[j].id = DefaultId(d)
BY DEF Good, Intended, MadeOK, IsDefault

LEMMA MemoThere ==
    ASSUME NEW s, Good(s), ~s.failed, NEW k \in Nat, NEW f \in Sound, M(s, k, f) # 0
    PROVE  \E j \in DOMAIN s.types : s.types[j].id = M(s, k, f)
<1>1. \/ \E i \in DOMAIN s.types : IsMade(s.types[i], s, k, f)
      \/ k = 1 /\ f = "arr32" /\ M(s, k, f) = U32 /\ "U32" \in s.defaults
  BY DEF Good, Intended, MadeOK
<1>2. CASE \E i \in DOMAIN s.types : IsMade(s.types[i], s, k, f)
  BY <1>2 DEF IsMade
<1>3. CASE M(s, k, f) = U32 /\ "U32" \in s.defaults
  BY <1>3, DefaultThere DEF U32
<1>4. QED
  BY <1>1, <1>2, <1>3

LEMMA PairOfIds == ASSUME NEW x \in Nat, NEW y \in Nat PROVE << x, y >> \in Seq(Nat)
OBVIOUS

LEMMA OneThere ==
    ASSUME NEW s, NEW a \in Nat, \E j \in DOMAIN s.types : s.types[j].id = a
    PROVE  There(s, << a >>) /\ << a >> \in Seq(Nat)
<1>1. DOMAIN << a >> = {1} /\ << a >>[1] = a
  OBVIOUS
<1>2. QED
  BY <1>1 DEF There

LEMMA TwoThere ==
    ASSUME NEW s, NEW a \in Nat, NEW b \in Nat,
           \E j \in DOMAIN s.types : s.types[j].id = a, \E j \in DOMAIN s.types : s.types[j].id = b
    PROVE  There(s, << a, b >>) /\ << a, b >> \in Seq(Nat)
<1>1. DOMAIN << a, b >> = {1, 2} /\ << a, b >>[1] = a /\ << a, b >>[2] = b
  OBVIOUS
<1>2. QED
  BY <1>1 DEF There

\* What a field's instruction is decorated with.
WhatsOf(f, k) == Wants([by |-> f, key |-> k])

\* The end of a maker of field f, in u.
LEMMA MadeBy ==
    ASSUME NEW s, Good(s), NEW u, Good(u), Grows(s, u), NEW k \in Nat, NEW f \in Kept,
           Holds(s, k) => Holding(s, u), Holds(u, k), f \notin Pointers => Bare(s, u),
           M(u, k, f) = 0, k = 1 => f \notin Words,
           NEW op \in MakerOps,
           NEW lit \in MakerLits, NEW uses \in Seq(Nat),
           f \in Sound => op = OpOf(f) /\ LitOK(lit, f, k) /\ uses = Operands(NodeOf(u, k), f),
           f \in Sound /\ ~u.failed => There(u, uses),
           NEW t, t = Make(u, k, f, op, lit, uses, WhatsOf(f, k))
    PROVE  Makes(s, t, k, f) /\ (t.failed /\ ~u.failed => t.ret = 0) /\ t.defaults = u.defaults
<1>1. f \in Fields /\ u.next \in Nat /\ u.next >= EndId
  BY GoodNext, SoundKept DEF Shape
<1>2. PICK n \in Nat : n = u.next
  BY <1>1
<1>3. PICK i : i = Instr(f, k, op, n, lit, uses)
  OBVIOUS
<1>4. i \in InstrT /\ i.by = f /\ i.key = k
  <2>1. n >= EndId
    BY <1>1, <1>2
  <2>2. QED
    BY <1>1, <1>3, <2>1, InstrOK
<1>5. WhatsOf(f, k) = Wants(i)
  BY <1>4 DEF WhatsOf, Wants
<1>6. i = Instr(f, k, op, u.next, lit, uses)
  BY <1>2, <1>3
<1>7. Made(u, t, k, f)
  <2> HIDE DEF InstrT
  <2>1. PICK whats : whats = WhatsOf(f, k)
    OBVIOUS
  <2>2. t = Make(u, k, f, op, lit, uses, whats) /\ whats = Wants(i)
    BY <1>5, <2>1
  <2>3. QED
    BY <1>4, <1>6, <2>2, GoodMake
<1>8. QED
  BY <1>7, MakesMake DEF Made

LEMMA NodeThere ==
    ASSUME NEW s, Good(s), NEW k \in Nat, NEW n, n = Node(s, k), n.ok
    PROVE  /\ Good(n) /\ Grows(s, n) /\ Holding(s, n) /\ Holds(n, k)
           /\ n.failed = s.failed /\ n.defaults = s.defaults /\ SameFields(s, n)
<1>1. NodeGot(s, n, k)
  BY NodeIsGot
<1>2. QED
  BY <1>1 DEF NodeGot

LEMMA MemoIs ==
    ASSUME NEW s, Good(s), NEW k \in Nat, Holds(s, k), NEW f \in Fields
    PROVE  Memo(s, k, f) = M(s, k, f) /\ M(s, k, f) \in Nat
BY GoodNext, MIs

\* A context with the same nodes, after a maker of default types.
LEMMA SameNodesFields ==
    ASSUME NEW s, NEW t, t.cache = s.cache, NEW k
    PROVE  SameFields(s, t) /\ (Holds(t, k) <=> Holds(s, k))
BY SameCache DEF SameFields

LEMMA FieldsBare == ASSUME NEW s, NEW t, SameFields(s, t) PROVE Bare(s, t)
BY PointersKept DEF SameFields, Bare

\* The makers that call none but those of default types.
LEMMA WordMaker ==
    ASSUME NEW s, Good(s), NEW k \in Nat, NEW f \in {"val", "spec", "vec32"},
           NEW val \in Nat, f # "spec" => val = k,
           NEW n, n = Node(s, k), NEW u, u = Base(n, "U32"), NEW t,
           ~n.ok => t = Ret(n, 0),
           n.ok /\ Memo(n, k, f) # 0 => t = Ret(n, Memo(n, k, f)),
           n.ok /\ Memo(n, k, f) = 0 /\ (u.ret = 0 \/ (f = "vec32" /\ k = 1)) => t = u,
           n.ok /\ Memo(n, k, f) = 0 /\ u.ret # 0 /\ ~(f = "vec32" /\ k = 1) =>
                t = Make(u, k, f, OpOf(f), val, << U32 >>, WhatsOf(f, k))
    PROVE  /\ Makes(s, t, k, f) /\ (t.failed /\ ~s.failed => t.ret = 0)
           /\ t.defaults \subseteq s.defaults \cup {"U32"}
<1>1. f \in Sound /\ f \in Kept /\ f \in Fields
  BY SoundKept DEF Sound, Kept
<1>2. CASE ~n.ok
  BY <1>2, NodeLost
<1>3. CASE n.ok
  <2>1. /\ Good(n) /\ Grows(s, n) /\ Holding(s, n) /\ Holds(n, k) /\ n.failed = s.failed
        /\ Bare(s, n) /\ n.defaults = s.defaults
    BY <1>3, NodeThere, FieldsBare
  <2>2. Memo(n, k, f) = M(n, k, f)
    BY <1>1, <2>1, MemoIs
  <2>3. CASE M(n, k, f) # 0
    <3>1. t = Ret(n, Memo(n, k, f))
      BY <1>3, <2>2, <2>3
    <3>2. Makes(s, t, k, f) /\ t.ret # 0 /\ t.failed = n.failed /\ t.defaults = n.defaults
      BY <1>1, <2>1, <2>3, <3>1, MemoFound
    <3>3. QED
      BY <2>1, <3>2
  <2>4. CASE M(n, k, f) = 0
    <3>1. /\ Good(u) /\ Grows(n, u) /\ Holding(n, u) /\ Gives(n, u, "U32") /\ u.ret \in Nat
          /\ u.cache = n.cache /\ u.defaults \subseteq n.defaults \cup {"U32"}
      <4>1. "U32" \in Bases \cup {"VOID"}
        BY DEF Bases
      <4>2. QED
        BY <2>1, <4>1, BaseIs
    <3>2. Grows(s, u) /\ Holding(s, u) /\ Bare(s, u)
      <4>1. Bare(n, u)
        BY <3>1, SameNodesFields, FieldsBare
      <4>2. QED
        BY <2>1, <3>1, <4>1, GrowsOn, HoldingTransitive, BareTransitive
    <3>3. Holds(u, k) /\ M(u, k, f) = 0
      BY <1>1, <2>1, <2>4, <3>1, SameNodesFields DEF SameFields
    <3>4. CASE u.ret = 0 \/ (f = "vec32" /\ k = 1)
      <4>1. t = u
        BY <1>3, <2>2, <2>4, <3>4
      <4>2. u.ret # 0 => IsWord(u, k, f)
        <5>1. u.ret # 0 => u.ret = DefaultId("U32") /\ (~u.failed => "U32" \in u.defaults)
          BY <3>1 DEF Gives
        <5>2. QED
          BY <3>3, <3>4, <5>1 DEF IsWord, WordOf, Words
      <4>3. Makes(s, u, k, f)
        BY <3>1, <3>2, <3>3, <4>2 DEF Makes, Keeps, Gives
      <4>4. QED
        BY <2>1, <3>1, <4>1, <4>3 DEF Gives
    <3>5. CASE u.ret # 0 /\ ~(f = "vec32" /\ k = 1)
      <4>1. t = Make(u, k, f, OpOf(f), val, << U32 >>, WhatsOf(f, k))
        BY <1>3, <2>2, <2>4, <3>5
      <4>2. ~u.failed => \E j \in DOMAIN u.types : u.types[j].id = U32
        BY <3>1, <3>5, DefaultThere DEF Gives, U32
      <4>3. PICK a \in Nat : a = U32
        BY U32Is
      <4>4. << U32 >> \in Seq(Nat) /\ (~u.failed => There(u, << U32 >>))
        <5>1. << a >> \in Seq(Nat)
          OBVIOUS
        <5>2. ~u.failed => There(u, << a >>)
          BY <4>2, <4>3, OneThere
        <5>3. QED
          BY <4>3, <5>1, <5>2
      <4>5. << U32 >> = Operands(NodeOf(u, k), f)
        BY DEF Operands
      <4>6. OpOf(f) \in MakerOps /\ LitOK(val, f, k) /\ val \in MakerLits
        BY DEF OpOf, MakerOps, LitOf, LitOK, MakerLits
      <4>7. k = 1 => f \notin Words
        BY <3>5 DEF Words
      <4>8. PICK op \in MakerOps : op = OpOf(f)
        BY <4>6
      <4>9. PICK uses \in Seq(Nat) : uses = << U32 >>
        BY <4>4
      <4>10. /\ val \in MakerLits /\ op = OpOf(f) /\ LitOK(val, f, k) /\ uses = Operands(NodeOf(u, k), f)
             /\ t = Make(u, k, f, op, val, uses, WhatsOf(f, k)) /\ (~u.failed => There(u, uses))
        BY <4>1, <4>4, <4>5, <4>6, <4>8, <4>9
      <4>11. Makes(s, t, k, f) /\ (t.failed /\ ~u.failed => t.ret = 0) /\ t.defaults = u.defaults
        BY <1>1, <3>1, <3>2, <3>3, <4>7, <4>10, MadeBy
      <4>12. u.failed => s.failed
        BY <2>1, <3>1, <3>5 DEF Gives
      <4>13. QED
        BY <2>1, <3>1, <4>11, <4>12
    <3>6. QED
      BY <3>4, <3>5
  <2>5. QED
    BY <2>3, <2>4
<1>4. QED
  BY <1>2, <1>3

LEMMA ValIs ==
    ASSUME NEW s, Good(s), NEW k \in Nat, NEW t, t = Val(s, k)
    PROVE  Makes(s, t, k, "val") /\ (t.failed /\ ~s.failed => t.ret = 0)
<1>1. PICK n : n = Node(s, k)
  OBVIOUS
<1>2. PICK u : u = Base(n, "U32")
  OBVIOUS
<1>3. OpOf("val") = "Constant" /\ WhatsOf("val", k) = {}
  BY DEF OpOf, WhatsOf, Wants
<1>4. /\ ~n.ok => t = Ret(n, 0)
      /\ n.ok /\ Memo(n, k, "val") # 0 => t = Ret(n, Memo(n, k, "val"))
      /\ n.ok /\ Memo(n, k, "val") = 0 /\ u.ret = 0 => t = u
      /\ n.ok /\ Memo(n, k, "val") = 0 /\ u.ret # 0 =>
            t = Make(u, k, "val", OpOf("val"), k, << U32 >>, WhatsOf("val", k))
  BY <1>1, <1>2, <1>3 DEF Val
<1>5. PICK f \in {"val", "spec", "vec32"} : f = "val"
  OBVIOUS
<1>6. f # "vec32"
  BY <1>5
<1>7. /\ ~n.ok => t = Ret(n, 0)
      /\ n.ok /\ Memo(n, k, f) # 0 => t = Ret(n, Memo(n, k, f))
      /\ n.ok /\ Memo(n, k, f) = 0 /\ (u.ret = 0 \/ (f = "vec32" /\ k = 1)) => t = u
      /\ n.ok /\ Memo(n, k, f) = 0 /\ u.ret # 0 /\ ~(f = "vec32" /\ k = 1) =>
            t = Make(u, k, f, OpOf(f), k, << U32 >>, WhatsOf(f, k))
  BY <1>4, <1>5, <1>6
<1>8. Makes(s, t, k, f) /\ (t.failed /\ ~s.failed => t.ret = 0)
  BY <1>1, <1>2, <1>7, WordMaker
<1>9. QED
  BY <1>5, <1>8

LEMMA Spec32Is ==
    ASSUME NEW s, Good(s), NEW k \in Nat, NEW val \in Nat, NEW t, t = Spec32(s, k, val)
    PROVE  Makes(s, t, k, "spec") /\ (t.failed /\ ~s.failed => t.ret = 0)
<1>1. PICK n : n = Node(s, k)
  OBVIOUS
<1>2. PICK u : u = Base(n, "U32")
  OBVIOUS
<1>3. OpOf("spec") = "SpecConstant" /\ WhatsOf("spec", k) = {SpecId(k)}
  BY DEF OpOf, WhatsOf, Wants
<1>4. /\ ~n.ok => t = Ret(n, 0)
      /\ n.ok /\ Memo(n, k, "spec") # 0 => t = Ret(n, Memo(n, k, "spec"))
      /\ n.ok /\ Memo(n, k, "spec") = 0 /\ u.ret = 0 => t = u
      /\ n.ok /\ Memo(n, k, "spec") = 0 /\ u.ret # 0 =>
            t = Make(u, k, "spec", OpOf("spec"), val, << U32 >>, WhatsOf("spec", k))
  BY <1>1, <1>2, <1>3 DEF Spec32
<1>5. PICK f \in {"val", "spec", "vec32"} : f = "spec"
  OBVIOUS
<1>6. f # "vec32" /\ (f # "spec" => val = k)
  BY <1>5
<1>7. /\ ~n.ok => t = Ret(n, 0)
      /\ n.ok /\ Memo(n, k, f) # 0 => t = Ret(n, Memo(n, k, f))
      /\ n.ok /\ Memo(n, k, f) = 0 /\ (u.ret = 0 \/ (f = "vec32" /\ k = 1)) => t = u
      /\ n.ok /\ Memo(n, k, f) = 0 /\ u.ret # 0 /\ ~(f = "vec32" /\ k = 1) =>
            t = Make(u, k, f, OpOf(f), val, << U32 >>, WhatsOf(f, k))
  BY <1>4, <1>5, <1>6
<1>8. Makes(s, t, k, f) /\ (t.failed /\ ~s.failed => t.ret = 0)
  BY <1>1, <1>2, <1>6, <1>7, WordMaker
<1>9. QED
  BY <1>5, <1>8

LEMMA Vec32Is ==
    ASSUME NEW s, Good(s), NEW k \in Nat, NEW t, t = Vec32(s, k)
    PROVE  /\ Makes(s, t, k, "vec32") /\ (t.failed /\ ~s.failed => t.ret = 0)
           /\ t.defaults \subseteq s.defaults \cup {"U32"}
<1>1. PICK n : n = Node(s, k)
  OBVIOUS
<1>2. PICK u : u = Base(n, "U32")
  OBVIOUS
<1>3. OpOf("vec32") = "TypeVector" /\ WhatsOf("vec32", k) = {}
  BY DEF OpOf, WhatsOf, Wants
<1>4. /\ ~n.ok => t = Ret(n, 0)
      /\ n.ok /\ Memo(n, k, "vec32") # 0 => t = Ret(n, Memo(n, k, "vec32"))
      /\ n.ok /\ Memo(n, k, "vec32") = 0 /\ (u.ret = 0 \/ k = 1) => t = u
      /\ n.ok /\ Memo(n, k, "vec32") = 0 /\ u.ret # 0 /\ k # 1 =>
            t = Make(u, k, "vec32", OpOf("vec32"), k, << U32 >>, WhatsOf("vec32", k))
  BY <1>1, <1>2, <1>3 DEF Vec32
<1>5. PICK f \in {"val", "spec", "vec32"} : f = "vec32"
  OBVIOUS
<1>6. /\ ~n.ok => t = Ret(n, 0)
      /\ n.ok /\ Memo(n, k, f) # 0 => t = Ret(n, Memo(n, k, f))
      /\ n.ok /\ Memo(n, k, f) = 0 /\ (u.ret = 0 \/ (f = "vec32" /\ k = 1)) => t = u
      /\ n.ok /\ Memo(n, k, f) = 0 /\ u.ret # 0 /\ ~(f = "vec32" /\ k = 1) =>
            t = Make(u, k, f, OpOf(f), k, << U32 >>, WhatsOf(f, k))
  BY <1>4, <1>5
<1>7. /\ Makes(s, t, k, f) /\ (t.failed /\ ~s.failed => t.ret = 0)
      /\ t.defaults \subseteq s.defaults \cup {"U32"}
  BY <1>1, <1>2, <1>6, WordMaker
<1>8. QED
  BY <1>5, <1>7

\* u is a context the maker of s and k comes to with the node in place.
Reach(s, u, k) ==
    /\ Good(u) /\ Grows(s, u) /\ Holds(u, k) /\ Bare(s, u)
    /\ Holds(s, k) => Holding(s, u)

LEMMA NodeReached ==
    ASSUME NEW s, Good(s), NEW k \in Nat, NEW n, n = Node(s, k), n.ok
    PROVE  Reach(s, n, k) /\ SameFields(s, n) /\ n.failed = s.failed
BY NodeThere, FieldsBare DEF Reach

LEMMA MakesReached ==
    ASSUME NEW s, Good(s), NEW k \in Nat, NEW n, Reach(s, n, k), NEW f, f \notin Pointers,
           NEW v, Makes(n, v, k, f)
    PROVE  Reach(s, v, k)
<1>1. Good(n) /\ Grows(s, n) /\ Holds(n, k) /\ Good(v) /\ Grows(n, v) /\ Holding(n, v)
  BY DEF Reach, Makes, Keeps
<1>2. Grows(s, v)
  BY <1>1, GrowsOn
<1>3. Holds(v, k)
  BY <1>1 DEF Holding
<1>4. Holds(s, k) => Holding(s, v)
  BY <1>1, HoldingTransitive DEF Reach
<1>5. Bare(s, v)
  BY BareTransitive DEF Reach, Makes
<1>6. QED
  BY <1>1, <1>2, <1>3, <1>4, <1>5 DEF Reach

LEMMA BaseReached ==
    ASSUME NEW s, Good(s), NEW k \in Nat, NEW v, Reach(s, v, k), NEW d \in Bases, NEW b, b = Base(v, d)
    PROVE  /\ Reach(s, b, k) /\ Gives(v, b, d) /\ SameFields(v, b) /\ b.ret \in Nat
           /\ v.failed => b.failed
<1>1. Good(v) /\ Grows(s, v) /\ Holds(v, k) /\ d \in Bases \cup {"VOID"}
  BY DEF Reach
<1>2. Good(b) /\ Grows(v, b) /\ Holding(v, b) /\ Gives(v, b, d) /\ b.ret \in Nat /\ b.cache = v.cache
  BY <1>1, BaseIs
<1>3. Grows(s, b)
  BY <1>1, <1>2, GrowsOn
<1>4. Holds(s, k) => Holding(s, b)
  BY <1>2, HoldingTransitive DEF Reach
<1>5. Holds(b, k) /\ SameFields(v, b)
  BY <1>1, <1>2, SameNodesFields
<1>6. Bare(s, b)
  BY <1>5, FieldsBare, BareTransitive DEF Reach
<1>7. QED
  BY <1>2, <1>3, <1>4, <1>5, <1>6 DEF Reach, Grows

\* An answer that is not the word is the memo's.
LEMMA MakesMemo ==
    ASSUME NEW s, NEW t, NEW k, NEW f, Makes(s, t, k, f), f \notin Words
    PROVE  (t.ret = 0 \/ t.ret = M(t, k, f)) /\ (~t.failed => M(t, k, f) # 0)
BY DEF Makes, IsWord

LEMMA BaseId == ASSUME NEW d \in Bases PROVE DefaultId(d) \in Nat
<1>1. d \in DefaultNames
  BY BasesOK
<1>2. QED
  BY <1>1, DefaultIdOK

\* The operands of an array: the element, and the constant of the length.
TakesWords(k, f, d, len) ==
    \A x : Operands(NodeOf(x, k), f) = << DefaultId(d), M(x, k, len) >>

\* The arrays: v is the context with the constant of the length, b the one
\* with the element.
ArrayCode(s, k, f, d, len, n, v, b, t) ==
    /\ n = Node(s, k) /\ b = Base(v, d)
    /\ n.ok => Makes(n, v, k, len) \/ (v = n /\ Memo(n, k, len) # 0)
    /\ ~n.ok => t = Ret(n, 0)
    /\ n.ok /\ Memo(v, k, f) # 0 => t = Ret(v, Memo(v, k, f))
    /\ n.ok /\ Memo(v, k, f) = 0 /\ (b.ret = 0 \/ (k = 1 /\ f \in Words)) => t = b
    /\ n.ok /\ Memo(v, k, f) = 0 /\ b.ret # 0 /\ ~(k = 1 /\ f \in Words) =>
          t = Make(b, k, f, "TypeArray", "", << DefaultId(d), Memo(b, k, len) >>, {ArrayStride})

LEMMA ArrayMaker ==
    ASSUME NEW s, Good(s), NEW k \in Nat, NEW f \in {"arr8", "arr16", "arr32", "arrspec32"},
           NEW len \in Sound, len \notin Words, len \notin Pointers, NEW d \in Bases, d = WordOf(f),
           TakesWords(k, f, d, len), NEW n, NEW v, NEW b, NEW t, ArrayCode(s, k, f, d, len, n, v, b, t)
    PROVE  Makes(s, t, k, f)
<1>0. /\ n = Node(s, k) /\ b = Base(v, d)
      /\ n.ok => Makes(n, v, k, len) \/ (v = n /\ Memo(n, k, len) # 0)
      /\ ~n.ok => t = Ret(n, 0)
      /\ n.ok /\ Memo(v, k, f) # 0 => t = Ret(v, Memo(v, k, f))
      /\ n.ok /\ Memo(v, k, f) = 0 /\ (b.ret = 0 \/ (k = 1 /\ f \in Words)) => t = b
      /\ n.ok /\ Memo(v, k, f) = 0 /\ b.ret # 0 /\ ~(k = 1 /\ f \in Words) =>
            t = Make(b, k, f, "TypeArray", "", << DefaultId(d), Memo(b, k, len) >>, {ArrayStride})
  BY DEF ArrayCode
<1>1. f \in Sound /\ f \in Kept /\ f \in Fields /\ len \in Fields
  BY SoundKept DEF Sound, Kept
<1>2. CASE ~n.ok
  BY <1>0, <1>2, NodeLost
<1>3. CASE n.ok
  <2>1. Reach(s, n, k) /\ Good(n)
    BY <1>0, <1>3, NodeReached DEF Reach
  <2>2. Reach(s, v, k) /\ (~v.failed => M(v, k, len) # 0)
    <3>1. CASE Makes(n, v, k, len)
      <4>1. ~v.failed => M(v, k, len) # 0
        BY <3>1, MakesMemo
      <4>2. QED
        BY <2>1, <3>1, <4>1, MakesReached
    <3>2. CASE v = n /\ Memo(n, k, len) # 0
      <4>1. Memo(n, k, len) = M(n, k, len)
        BY <1>1, <2>1, MemoIs DEF Reach
      <4>2. QED
        BY <2>1, <3>2, <4>1
    <3>3. QED
      BY <1>0, <1>3, <3>1, <3>2
  <2>3. Good(v) /\ Grows(s, v) /\ Holds(v, k) /\ (Holds(s, k) => Holding(s, v)) /\ Bare(s, v)
    BY <2>2 DEF Reach
  <2>4. Memo(v, k, f) = M(v, k, f)
    BY <1>1, <2>3, MemoIs
  <2>5. CASE M(v, k, f) # 0
    <3>1. t = Ret(v, Memo(v, k, f))
      BY <1>0, <1>3, <2>4, <2>5
    <3>2. QED
      BY <1>1, <2>3, <2>5, <3>1, MemoFound
  <2>6. CASE M(v, k, f) = 0
    <3>1. /\ Reach(s, b, k) /\ Gives(v, b, d) /\ SameFields(v, b) /\ b.ret \in Nat
          /\ v.failed => b.failed
      BY <1>0, <2>2, BaseReached
    <3>2. Good(b) /\ Grows(s, b) /\ Holds(b, k) /\ (Holds(s, k) => Holding(s, b)) /\ Bare(s, b)
      BY <3>1 DEF Reach
    <3>3. M(b, k, f) = 0 /\ M(b, k, len) = M(v, k, len)
      BY <1>1, <2>6, <3>1 DEF SameFields
    <3>4. CASE b.ret = 0 \/ (k = 1 /\ f \in Words)
      <4>1. t = b
        BY <1>0, <1>3, <2>4, <2>6, <3>4
      <4>2. b.ret # 0 => IsWord(b, k, f)
        <5>1. b.ret # 0 => b.ret = DefaultId(d) /\ (~b.failed => d \in b.defaults)
          BY <3>1 DEF Gives
        <5>2. QED
          BY <3>3, <3>4, <5>1 DEF IsWord
      <4>3. Makes(s, b, k, f)
        BY <3>1, <3>2, <4>2 DEF Makes, Keeps, Gives
      <4>4. QED
        BY <4>1, <4>3
    <3>5. CASE b.ret # 0 /\ ~(k = 1 /\ f \in Words)
      <4>1. t = Make(b, k, f, "TypeArray", "", << DefaultId(d), Memo(b, k, len) >>, {ArrayStride})
        BY <1>0, <1>3, <2>4, <2>6, <3>5
      <4>2. Memo(b, k, len) = M(b, k, len) /\ M(b, k, len) \in Nat
        BY <1>1, <3>2, MemoIs
      <4>3. ~b.failed => /\ \E j \in DOMAIN b.types : b.types[j].id = DefaultId(d)
                         /\ \E j \in DOMAIN b.types : b.types[j].id = M(b, k, len)
        <5> SUFFICES ASSUME ~b.failed
                     PROVE  /\ \E j \in DOMAIN b.types : b.types[j].id = DefaultId(d)
                            /\ \E j \in DOMAIN b.types : b.types[j].id = M(b, k, len)
          OBVIOUS
        <5>1. d \in b.defaults
          BY <3>1 DEF Gives
        <5>2. M(b, k, len) # 0
          BY <2>2, <3>1, <3>3
        <5>3. QED
          BY <3>2, <5>1, <5>2, DefaultThere, MemoThere
      <4>4. PICK x \in Nat, y \in Nat : x = DefaultId(d) /\ y = M(b, k, len)
        <5>1. DefaultId(d) \in Nat
          BY BaseId
        <5>2. QED
          BY <4>2, <5>1
      <4>5. PICK uses : uses = << x, y >>
        OBVIOUS
      <4>6. uses \in Seq(Nat) /\ (~b.failed => There(b, uses))
        <5>1. << x, y >> \in Seq(Nat)
          BY PairOfIds
        <5>2. ~b.failed => There(b, << x, y >>)
          BY <4>3, <4>4, TwoThere
        <5>3. QED
          BY <4>5, <5>1, <5>2
      <4>7. uses = Operands(NodeOf(b, k), f)
        BY <4>4, <4>5 DEF TakesWords
      <4>8. PICK op \in MakerOps : op = "TypeArray"
        BY DEF MakerOps
      <4>9. PICK lit \in MakerLits : lit = ""
        BY DEF MakerLits
      <4>10. OpOf(f) = op /\ LitOK(lit, f, k) /\ WhatsOf(f, k) = {ArrayStride}
        BY <4>8, <4>9 DEF OpOf, LitOf, LitOK, WhatsOf, Wants
      <4>11. t = Make(b, k, f, op, lit, uses, WhatsOf(f, k))
        BY <4>1, <4>2, <4>4, <4>5, <4>8, <4>9, <4>10
      <4>12. QED
        BY <1>1, <3>2, <3>3, <3>5, <4>6, <4>7, <4>10, <4>11, MadeBy
    <3>6. QED
      BY <3>4, <3>5
  <2>7. QED
    BY <2>5, <2>6
<1>4. QED
  BY <1>2, <1>3

LEMMA OperandsAre ==
    ASSUME NEW x, NEW k
    PROVE  /\ Operands(NodeOf(x, k), "arr8") = << DefaultId("U8"), M(x, k, "val") >>
           /\ Operands(NodeOf(x, k), "arr16") = << DefaultId("U16"), M(x, k, "val") >>
           /\ Operands(NodeOf(x, k), "arr32") = << DefaultId("U32"), M(x, k, "val") >>
           /\ Operands(NodeOf(x, k), "arrspec32") = << DefaultId("U32"), M(x, k, "spec") >>
           /\ Operands(NodeOf(x, k), "struct") = << M(x, k, "arr32") >>
           /\ Operands(NodeOf(x, k), "structpriv") = << M(x, k, "arr32") >>
           /\ Operands(NodeOf(x, k), "structprivspec") = << M(x, k, "arrspec32") >>
           /\ \A f \in {"ptr_psh", "ptr_storage"} : Operands(NodeOf(x, k), f) = << M(x, k, "struct") >>
           /\ \A f \in {"ptr", "ptr_func", "ptr_work"} :
                Operands(NodeOf(x, k), f) = << M(x, k, "structpriv") >>
<1>1. PICK id : id = [f \in Fields |-> M(x, k, f)]
  OBVIOUS
<1>2. /\ id["val"] = M(x, k, "val") /\ id["spec"] = M(x, k, "spec")
      /\ id["arr32"] = M(x, k, "arr32") /\ id["arrspec32"] = M(x, k, "arrspec32")
      /\ id["struct"] = M(x, k, "struct") /\ id["structpriv"] = M(x, k, "structpriv")
  BY <1>1 DEF Fields
<1>3. PICK node : node = NodeOf(x, k)
  OBVIOUS
<1>4. node.id = id
  BY <1>1, <1>3 DEF NodeOf
<1>5. /\ Operands(node, "arr8") = << DefaultId("U8"), M(x, k, "val") >>
      /\ Operands(node, "arr16") = << DefaultId("U16"), M(x, k, "val") >>
      /\ Operands(node, "arr32") = << DefaultId("U32"), M(x, k, "val") >>
      /\ Operands(node, "arrspec32") = << DefaultId("U32"), M(x, k, "spec") >>
  BY <1>2, <1>4 DEF Operands, U32
<1>6. /\ Operands(node, "struct") = << M(x, k, "arr32") >>
      /\ Operands(node, "structpriv") = << M(x, k, "arr32") >>
      /\ Operands(node, "structprivspec") = << M(x, k, "arrspec32") >>
      /\ \A f \in {"ptr_psh", "ptr_storage"} : Operands(node, f) = << M(x, k, "struct") >>
      /\ \A f \in {"ptr", "ptr_func", "ptr_work"} : Operands(node, f) = << M(x, k, "structpriv") >>
  BY <1>2, <1>4 DEF Operands
<1>7. QED
  BY <1>3, <1>5, <1>6

\* util_mk_constant_arr8_id, arr16_id and arr32_id.
LEMMA ArrIs ==
    ASSUME NEW s, Good(s), NEW k \in Nat, NEW f \in {"arr8", "arr16", "arr32"},
           NEW t, t = Arr(s, k, f, WordOf(f))
    PROVE  Makes(s, t, k, f)
<1>1. PICK n : n = Node(s, k)
  OBVIOUS
<1>2. PICK v : v = IF Memo(n, k, "val") # 0 THEN n ELSE Val(n, k)
  OBVIOUS
<1>3. PICK d : d = WordOf(f)
  OBVIOUS
<1>4. PICK b : b = Base(v, d)
  OBVIOUS
<1>5. /\ ~n.ok => t = Ret(n, 0)
      /\ n.ok /\ Memo(v, k, f) # 0 => t = Ret(v, Memo(v, k, f))
      /\ n.ok /\ Memo(v, k, f) = 0 /\ (b.ret = 0 \/ k = 1) => t = b
      /\ n.ok /\ Memo(v, k, f) = 0 /\ b.ret # 0 /\ k # 1 =>
            t = Make(b, k, f, "TypeArray", "", << DefaultId(d), Memo(b, k, "val") >>, {ArrayStride})
  BY <1>1, <1>2, <1>3, <1>4 DEF Arr
<1>6. f \in Words /\ d \in Bases
  BY <1>3 DEF Words, WordOf, Bases
<1>7. n.ok => Makes(n, v, k, "val") \/ (v = n /\ Memo(n, k, "val") # 0)
  <2>1. n.ok => Good(n)
    BY <1>1, NodeReached DEF Reach
  <2>2. CASE Memo(n, k, "val") # 0
    BY <1>2, <2>2
  <2>3. CASE Memo(n, k, "val") = 0
    <3>1. v = Val(n, k)
      BY <1>2, <2>3
    <3>2. QED
      BY <2>1, <3>1, ValIs
  <2>4. QED
    BY <2>2, <2>3
<1>8. PICK len \in Sound : len = "val"
  BY DEF Sound, Kept
<1>9. len \notin Words /\ len \notin Pointers
  BY <1>8 DEF Words, Pointers
<1>10. TakesWords(k, f, d, len)
  BY <1>3, <1>8, OperandsAre DEF WordOf, TakesWords
<1>11. PICK g \in {"arr8", "arr16", "arr32", "arrspec32"} : g = f
  OBVIOUS
<1>12. ArrayCode(s, k, g, d, len, n, v, b, t)
  BY <1>1, <1>4, <1>5, <1>6, <1>7, <1>8, <1>11 DEF ArrayCode
<1>13. Makes(s, t, k, g)
  <2>1. TakesWords(k, g, d, len) /\ d = WordOf(g) /\ d \in Bases
    BY <1>3, <1>6, <1>10, <1>11
  <2>2. QED
    BY <1>9, <1>12, <2>1, ArrayMaker
<1>14. QED
  BY <1>11, <1>13

LEMMA ArrSpec32Is ==
    ASSUME NEW s, Good(s), NEW k \in Nat, NEW val \in Nat, NEW t, t = ArrSpec32(s, k, val)
    PROVE  Makes(s, t, k, "arrspec32")
<1>1. PICK n : n = Node(s, k)
  OBVIOUS
<1>2. PICK v : v = IF Memo(n, k, "spec") # 0 THEN n ELSE Spec32(n, k, val)
  OBVIOUS
<1>3. PICK d \in Bases : d = "U32"
  BY DEF Bases
<1>4. PICK b : b = Base(v, d)
  OBVIOUS
<1>5. /\ ~n.ok => t = Ret(n, 0)
      /\ n.ok /\ Memo(v, k, "arrspec32") # 0 => t = Ret(v, Memo(v, k, "arrspec32"))
      /\ n.ok /\ Memo(v, k, "arrspec32") = 0 /\ b.ret = 0 => t = b
      /\ n.ok /\ Memo(v, k, "arrspec32") = 0 /\ b.ret # 0 =>
            t = Make(b, k, "arrspec32", "TypeArray", "", << DefaultId(d), Memo(b, k, "spec") >>,
                     {ArrayStride})
  BY <1>1, <1>2, <1>3, <1>4 DEF ArrSpec32, U32
<1>6. n.ok => Makes(n, v, k, "spec") \/ (v = n /\ Memo(n, k, "spec") # 0)
  <2>1. n.ok => Good(n)
    BY <1>1, NodeReached DEF Reach
  <2>2. CASE Memo(n, k, "spec") # 0
    BY <1>2, <2>2
  <2>3. CASE Memo(n, k, "spec") = 0
    <3>1. v = Spec32(n, k, val)
      BY <1>2, <2>3
    <3>2. QED
      BY <2>1, <3>1, Spec32Is
  <2>4. QED
    BY <2>2, <2>3
<1>7. PICK len \in Sound : len = "spec"
  BY DEF Sound, Kept
<1>8. PICK g \in {"arr8", "arr16", "arr32", "arrspec32"} : g = "arrspec32"
  OBVIOUS
<1>9. len \notin Words /\ len \notin Pointers /\ g \notin Words /\ d = WordOf(g)
  BY <1>3, <1>7, <1>8 DEF Words, Pointers, WordOf
<1>10. TakesWords(k, g, d, len)
  BY <1>3, <1>7, <1>8, OperandsAre DEF TakesWords
<1>11. ArrayCode(s, k, g, d, len, n, v, b, t)
  BY <1>1, <1>4, <1>5, <1>6, <1>7, <1>8, <1>9 DEF ArrayCode
<1>12. Makes(s, t, k, g)
  BY <1>9, <1>10, <1>11, ArrayMaker
<1>13. QED
  BY <1>8, <1>12

\* A maker that keeps what another answered where that one keeps it.
LEMMA Refilled ==
    ASSUME NEW s, Good(s), NEW k \in Nat, NEW n, Reach(s, n, k), NEW f \in Kept, f \notin Pointers,
           f \in Words => f = "arr32", NEW x, Makes(n, x, k, f), NEW a, a = SetMemo(x, k, f, x.ret)
    PROVE  Reach(s, a, k) /\ (~a.failed => M(a, k, f) # 0)
<1>1. Reach(s, x, k)
  BY MakesReached
<1>2. /\ Good(x) /\ Holds(x, k) /\ Grows(s, x) /\ (Holds(s, k) => Holding(s, x)) /\ Bare(s, x)
      /\ x.ret \in Nat
  BY <1>1 DEF Reach, Makes, Keeps
<1>3. \/ x.ret = M(x, k, f)
      \/ x.ret < EndId /\ (x.failed \/ /\ k = 1 /\ f = "arr32" /\ x.ret = U32
                                       /\ "U32" \in x.defaults /\ M(x, k, f) \in {0, U32})
  <2>1. CASE x.ret = M(x, k, f)
    BY <2>1
  <2>2. CASE x.ret = 0
    BY <2>2, DefaultsAre DEF Makes
  <2>3. CASE IsWord(x, k, f)
    <3>1. f = "arr32" /\ WordOf(f) = "U32"
      BY <2>3 DEF IsWord, WordOf
    <3>2. x.ret = U32 /\ U32 < EndId
      BY <2>3, <3>1, U32Is, DefaultsAre DEF IsWord
    <3>3. QED
      BY <2>3, <3>1, <3>2 DEF IsWord
  <2>4. QED
    BY <2>1, <2>2, <2>3 DEF Makes
<1>4. /\ Good(a) /\ Grows(x, a) /\ Holding(x, a) /\ M(a, k, f) = x.ret
      /\ \A l \in Nat, g \in Fields : g # f => M(a, l, g) = M(x, l, g)
  <2>1. PICK id \in Nat : id = x.ret
    BY <1>2
  <2>2. /\ \/ id = M(x, k, f)
           \/ id < EndId /\ (x.failed \/ /\ k = 1 /\ f = "arr32" /\ id = U32
                                         /\ "U32" \in x.defaults /\ M(x, k, f) \in {0, U32})
        /\ a = SetMemo(x, k, f, id)
    BY <1>3, <2>1
  <2>3. /\ Good(a) /\ Grows(x, a) /\ Holding(x, a) /\ M(a, k, f) = id
        /\ \A l \in Nat, g \in Fields : g # f => M(a, l, g) = M(x, l, g)
    BY <1>2, <2>2, GoodWord
  <2>4. QED
    BY <2>1, <2>3
<1>5. Grows(s, a)
  BY <1>2, <1>4, GrowsOn
<1>6. Holds(s, k) => Holding(s, a)
  BY <1>2, <1>4, HoldingTransitive
<1>7. Holds(a, k)
  BY <1>2, <1>4 DEF Holding
<1>8. Bare(s, a)
  <2>1. Bare(x, a)
    BY <1>4, PointersKept DEF Bare
  <2>2. QED
    BY <1>2, <2>1, BareTransitive
<1>9. ~a.failed => M(a, k, f) # 0
  <2>1. ~a.failed => ~x.failed
    BY <1>4 DEF Grows
  <2>2. QED
    BY <1>4, <2>1 DEF Makes
<1>10. QED
  BY <1>4, <1>5, <1>6, <1>7, <1>8, <1>9 DEF Reach

\* A maker that breaks off with 0.
LEMMA ZeroAnswer ==
    ASSUME NEW s, Good(s), NEW k \in Nat, NEW a, Reach(s, a, k), a.failed, NEW f, NEW t, t = Ret(a, 0)
    PROVE  Makes(s, t, k, f)
<1>1. Good(a) /\ Grows(s, a) /\ Holds(a, k) /\ Bare(s, a) /\ (Holds(s, k) => Holding(s, a))
  BY DEF Reach
<1>2. PICK c \in Nat : c = 0
  OBVIOUS
<1>3. t = Ret(a, c)
  BY <1>2
<1>4. /\ Good(t) /\ Grows(a, t) /\ Holding(a, t) /\ t.ret = c /\ t.failed = a.failed
      /\ t.defaults = a.defaults /\ SameView(a, t)
  <2>1. GivenBack(a, t, c)
    BY <1>1, <1>3, GivenBackIs
  <2>2. QED
    BY <2>1 DEF GivenBack
<1>5. Grows(s, t)
  BY <1>1, <1>4, GrowsOn
<1>6. Holds(s, k) => Holding(s, t)
  BY <1>1, <1>4, HoldingTransitive
<1>7. Bare(s, t)
  <2>1. Bare(a, t)
    BY <1>4, PointersKept DEF Bare, SameView
  <2>2. QED
    BY <1>1, <2>1, BareTransitive
<1>8. t.ret = 0 /\ t.failed
  BY <1>2, <1>4
<1>9. QED
  BY <1>4, <1>5, <1>6, <1>7, <1>8 DEF Makes, Keeps

\* The instruction of f has one operand, the memo of g.
TakesOne(k, f, g) == \A x : Operands(NodeOf(x, k), f) = << M(x, k, g) >>

\* The end of such a maker, in a.
ElementCode(k, f, g, a, t) ==
    /\ Memo(a, k, f) # 0 => t = Ret(a, Memo(a, k, f))
    /\ Memo(a, k, f) = 0 => t = Make(a, k, f, OpOf(f), LitOf(f, k), << Memo(a, k, g) >>, WhatsOf(f, k))

LEMMA ElementMaker ==
    ASSUME NEW s, Good(s), NEW k \in Nat, NEW f \in Sound, f \notin Words, NEW g \in Sound,
           TakesOne(k, f, g), OpOf(f) \in MakerOps, LitOf(f, k) \in MakerLits,
           NEW a, Reach(s, a, k), ~a.failed => M(a, k, g) # 0, NEW t, ElementCode(k, f, g, a, t)
    PROVE  Makes(s, t, k, f)
<1>1. f \in Kept /\ f \in Fields /\ g \in Fields
  BY SoundKept
<1>2. Good(a) /\ Grows(s, a) /\ Holds(a, k) /\ Bare(s, a) /\ (Holds(s, k) => Holding(s, a))
  BY DEF Reach
<1>3. Memo(a, k, f) = M(a, k, f) /\ Memo(a, k, g) = M(a, k, g) /\ M(a, k, g) \in Nat
  BY <1>1, <1>2, MemoIs
<1>4. CASE M(a, k, f) # 0
  <2>1. t = Ret(a, Memo(a, k, f))
    BY <1>3, <1>4 DEF ElementCode
  <2>2. QED
    BY <1>1, <1>2, <1>4, <2>1, MemoFound
<1>5. CASE M(a, k, f) = 0
  <2>1. t = Make(a, k, f, OpOf(f), LitOf(f, k), << Memo(a, k, g) >>, WhatsOf(f, k))
    BY <1>3, <1>5 DEF ElementCode
  <2>2. PICK y \in Nat : y = M(a, k, g)
    BY <1>3
  <2>3. PICK uses : uses = << y >>
    OBVIOUS
  <2>4. uses \in Seq(Nat) /\ (~a.failed => There(a, uses))
    <3>1. << y >> \in Seq(Nat)
      OBVIOUS
    <3>2. ~a.failed => \E j \in DOMAIN a.types : a.types[j].id = y
      BY <1>2, <2>2, MemoThere
    <3>3. ~a.failed => There(a, << y >>)
      BY <3>2, OneThere
    <3>4. QED
      BY <2>3, <3>1, <3>3
  <2>5. uses = Operands(NodeOf(a, k), f)
    BY <2>2, <2>3 DEF TakesOne
  <2>6. PICK op \in MakerOps : op = OpOf(f)
    OBVIOUS
  <2>7. PICK lit \in MakerLits : lit = LitOf(f, k) /\ LitOK(lit, f, k)
    BY DEF LitOK
  <2>8. t = Make(a, k, f, op, lit, uses, WhatsOf(f, k))
    BY <1>3, <2>1, <2>2, <2>3, <2>6, <2>7
  <2>9. QED
    BY <1>1, <1>2, <1>5, <2>4, <2>5, <2>6, <2>7, <2>8, MadeBy
<1>6. QED
  BY <1>4, <1>5

LEMMA Arr32Is ==
    ASSUME NEW s, Good(s), NEW k \in Nat, NEW t, t = Arr32(s, k)
    PROVE  Makes(s, t, k, "arr32")
<1>1. PICK f \in {"arr8", "arr16", "arr32"} : f = "arr32"
  OBVIOUS
<1>2. t = Arr(s, k, f, WordOf(f))
  BY <1>1 DEF Arr32, WordOf
<1>3. Makes(s, t, k, f)
  BY <1>2, ArrIs
<1>4. QED
  BY <1>1, <1>3

LEMMA FieldsOfStructures ==
    /\ \A f \in {"struct", "structpriv"} : \A k : TakesOne(k, f, "arr32")
    /\ \A k : TakesOne(k, "structprivspec", "arrspec32")
    /\ \A f \in {"ptr_psh", "ptr_storage"} : \A k : TakesOne(k, f, "struct")
    /\ \A f \in {"ptr", "ptr_func", "ptr_work"} : \A k : TakesOne(k, f, "structpriv")
<1>1. \A f \in {"struct", "structpriv"} : \A k : TakesOne(k, f, "arr32")
  BY OperandsAre DEF TakesOne
<1>2. \A k : TakesOne(k, "structprivspec", "arrspec32")
  BY OperandsAre DEF TakesOne
<1>3. \A f \in {"ptr_psh", "ptr_storage"} : \A k : TakesOne(k, f, "struct")
  BY OperandsAre DEF TakesOne
<1>4. \A f \in {"ptr", "ptr_func", "ptr_work"} : \A k : TakesOne(k, f, "structpriv")
  BY OperandsAre DEF TakesOne
<1>5. QED
  BY <1>1, <1>2, <1>3, <1>4

LEMMA StructIs ==
    ASSUME NEW s, Good(s), NEW k \in Nat, NEW t, t = Struct(s, k)
    PROVE  Makes(s, t, k, "struct")
<1>1. PICK n : n = Node(s, k)
  OBVIOUS
<1>2. PICK x : x = Arr32(n, k)
  OBVIOUS
<1>3. PICK a : a = IF Memo(n, k, "arr32") # 0 /\ k > 1 THEN n ELSE SetMemo(x, k, "arr32", x.ret)
  OBVIOUS
<1>4. /\ ~n.ok => t = Ret(n, 0)
      /\ n.ok /\ Memo(a, k, "struct") # 0 => t = Ret(a, Memo(a, k, "struct"))
      /\ n.ok /\ Memo(a, k, "struct") = 0 =>
            t = Make(a, k, "struct", "TypeStruct", "", << Memo(a, k, "arr32") >>, Block)
  BY <1>1, <1>2, <1>3 DEF Struct
<1>5. CASE ~n.ok
  BY <1>1, <1>4, <1>5, NodeLost
<1>6. CASE n.ok
  <2>1. Reach(s, n, k) /\ Good(n) /\ Holds(n, k)
    BY <1>1, <1>6, NodeReached DEF Reach
  <2>2. "arr32" \in Kept /\ "arr32" \notin Pointers /\ "arr32" \in Fields /\ "arr32" \in Sound
    BY DEF Kept, Pointers, Fields, Sound
  <2>3. Reach(s, a, k) /\ (~a.failed => M(a, k, "arr32") # 0)
    <3>1. CASE Memo(n, k, "arr32") # 0 /\ k > 1
      <4>1. Memo(n, k, "arr32") = M(n, k, "arr32")
        BY <2>1, <2>2, MemoIs
      <4>2. QED
        BY <1>3, <2>1, <3>1, <4>1
    <3>2. CASE ~(Memo(n, k, "arr32") # 0 /\ k > 1)
      <4>1. Makes(n, x, k, "arr32")
        BY <1>2, <2>1, Arr32Is
      <4>2. PICK f \in Kept : f = "arr32"
        BY <2>2
      <4>3. Makes(n, x, k, f) /\ f \notin Pointers /\ a = SetMemo(x, k, f, x.ret)
        BY <1>3, <2>2, <3>2, <4>1, <4>2
      <4>4. Reach(s, a, k) /\ (~a.failed => M(a, k, f) # 0)
        BY <2>1, <4>2, <4>3, Refilled
      <4>5. QED
        BY <4>2, <4>4
    <3>3. QED
      BY <3>1, <3>2
  <2>4. PICK f \in Sound : f = "struct"
    BY DEF Sound, Kept
  <2>5. PICK g \in Sound : g = "arr32"
    BY <2>2
  <2>6. f \notin Words /\ TakesOne(k, f, g)
    BY <2>4, <2>5, FieldsOfStructures DEF Words
  <2>7. OpOf(f) = "TypeStruct" /\ LitOf(f, k) = "" /\ WhatsOf(f, k) = Block
    BY <2>4 DEF OpOf, LitOf, WhatsOf, Wants, Block
  <2>8. OpOf(f) \in MakerOps /\ LitOf(f, k) \in MakerLits
    BY <2>7 DEF MakerOps, MakerLits
  <2>9. ElementCode(k, f, g, a, t)
    BY <1>4, <1>6, <2>4, <2>5, <2>7 DEF ElementCode
  <2>10. Makes(s, t, k, f)
    BY <2>3, <2>5, <2>6, <2>8, <2>9, ElementMaker
  <2>11. QED
    BY <2>4, <2>10
<1>7. QED
  BY <1>5, <1>6

LEMMA StructPrivIs ==
    ASSUME NEW s, Good(s), NEW k \in Nat, NEW t, t = StructPriv(s, k)
    PROVE  Makes(s, t, k, "structpriv")
<1>1. PICK n : n = Node(s, k)
  OBVIOUS
<1>2. PICK x : x = Arr32(n, k)
  OBVIOUS
<1>3. PICK a : a = IF Memo(n, k, "arr32") # 0 THEN n ELSE SetMemo(x, k, "arr32", x.ret)
  OBVIOUS
<1>4. /\ ~n.ok => t = Ret(n, 0)
      /\ n.ok /\ Memo(a, k, "arr32") = 0 => t = Ret(a, 0)
      /\ n.ok /\ Memo(a, k, "arr32") # 0 /\ Memo(a, k, "structpriv") # 0 =>
            t = Ret(a, Memo(a, k, "structpriv"))
      /\ n.ok /\ Memo(a, k, "arr32") # 0 /\ Memo(a, k, "structpriv") = 0 =>
            t = Make(a, k, "structpriv", "TypeStruct", "", << Memo(a, k, "arr32") >>, {})
  BY <1>1, <1>2, <1>3 DEF StructPriv
<1>5. CASE ~n.ok
  BY <1>1, <1>4, <1>5, NodeLost
<1>6. CASE n.ok
  <2>1. Reach(s, n, k) /\ Good(n) /\ Holds(n, k)
    BY <1>1, <1>6, NodeReached DEF Reach
  <2>2. "arr32" \in Kept /\ "arr32" \notin Pointers /\ "arr32" \in Fields /\ "arr32" \in Sound
    BY DEF Kept, Pointers, Fields, Sound
  <2>3. Reach(s, a, k) /\ (~a.failed => M(a, k, "arr32") # 0)
    <3>1. CASE Memo(n, k, "arr32") # 0
      <4>1. Memo(n, k, "arr32") = M(n, k, "arr32")
        BY <2>1, <2>2, MemoIs
      <4>2. QED
        BY <1>3, <2>1, <3>1, <4>1
    <3>2. CASE Memo(n, k, "arr32") = 0
      <4>1. Makes(n, x, k, "arr32")
        BY <1>2, <2>1, Arr32Is
      <4>2. PICK f \in Kept : f = "arr32"
        BY <2>2
      <4>3. Makes(n, x, k, f) /\ f \notin Pointers /\ a = SetMemo(x, k, f, x.ret)
        BY <1>3, <2>2, <3>2, <4>1, <4>2
      <4>4. Reach(s, a, k) /\ (~a.failed => M(a, k, f) # 0)
        BY <2>1, <4>2, <4>3, Refilled
      <4>5. QED
        BY <4>2, <4>4
    <3>3. QED
      BY <3>1, <3>2
  <2>4. CASE Memo(a, k, "arr32") = 0
    <3>1. Memo(a, k, "arr32") = M(a, k, "arr32")
      BY <2>2, <2>3, MemoIs DEF Reach
    <3>2. a.failed
      <4>1. a.failed \in BOOLEAN
        BY <2>3, GoodNext DEF Reach
      <4>2. QED
        BY <2>3, <2>4, <3>1, <4>1
    <3>3. t = Ret(a, 0)
      BY <1>4, <1>6, <2>4
    <3>4. QED
      BY <2>3, <3>2, <3>3, ZeroAnswer
  <2>5. CASE Memo(a, k, "arr32") # 0
    <3>1. PICK f \in Sound : f = "structpriv"
      BY DEF Sound, Kept
    <3>2. PICK g \in Sound : g = "arr32"
      BY <2>2
    <3>3. f \notin Words /\ TakesOne(k, f, g)
      BY <3>1, <3>2, FieldsOfStructures DEF Words
    <3>4. OpOf(f) = "TypeStruct" /\ LitOf(f, k) = "" /\ WhatsOf(f, k) = {}
      BY <3>1 DEF OpOf, LitOf, WhatsOf, Wants
    <3>5. OpOf(f) \in MakerOps /\ LitOf(f, k) \in MakerLits
      BY <3>4 DEF MakerOps, MakerLits
    <3>6. ElementCode(k, f, g, a, t)
      BY <1>4, <1>6, <2>5, <3>1, <3>2, <3>4 DEF ElementCode
    <3>7. Makes(s, t, k, f)
      BY <2>3, <3>2, <3>3, <3>5, <3>6, ElementMaker
    <3>8. QED
      BY <3>1, <3>7
  <2>6. QED
    BY <2>4, <2>5
<1>7. QED
  BY <1>5, <1>6

LEMMA StructPrivSpecIs ==
    ASSUME NEW s, Good(s), NEW k \in Nat, NEW val \in Nat, NEW t, t = StructPrivSpec(s, k, val)
    PROVE  Makes(s, t, k, "structprivspec")
<1>1. PICK n : n = Node(s, k)
  OBVIOUS
<1>2. PICK a : a = IF Memo(n, k, "arrspec32") # 0 THEN n ELSE ArrSpec32(n, k, val)
  OBVIOUS
<1>3. /\ ~n.ok => t = Ret(n, 0)
      /\ n.ok /\ Memo(a, k, "structprivspec") # 0 => t = Ret(a, Memo(a, k, "structprivspec"))
      /\ n.ok /\ Memo(a, k, "structprivspec") = 0 =>
            t = Make(a, k, "structprivspec", "TypeStruct", "", << Memo(a, k, "arrspec32") >>, {})
  BY <1>1, <1>2 DEF StructPrivSpec
<1>4. CASE ~n.ok
  BY <1>1, <1>3, <1>4, NodeLost
<1>5. CASE n.ok
  <2>1. Reach(s, n, k) /\ Good(n) /\ Holds(n, k)
    BY <1>1, <1>5, NodeReached DEF Reach
  <2>2. "arrspec32" \in Fields /\ "arrspec32" \in Sound /\ "arrspec32" \notin Words
        /\ "arrspec32" \notin Pointers
    BY DEF Kept, Pointers, Fields, Sound, Words
  <2>3. Reach(s, a, k) /\ (~a.failed => M(a, k, "arrspec32") # 0)
    <3>1. CASE Memo(n, k, "arrspec32") # 0
      <4>1. Memo(n, k, "arrspec32") = M(n, k, "arrspec32")
        BY <2>1, <2>2, MemoIs
      <4>2. QED
        BY <1>2, <2>1, <3>1, <4>1
    <3>2. CASE Memo(n, k, "arrspec32") = 0
      <4>1. a = ArrSpec32(n, k, val)
        BY <1>2, <3>2
      <4>2. Makes(n, a, k, "arrspec32")
        BY <2>1, <4>1, ArrSpec32Is
      <4>3. QED
        BY <2>1, <2>2, <4>2, MakesReached, MakesMemo
    <3>3. QED
      BY <3>1, <3>2
  <2>4. PICK f \in Sound : f = "structprivspec"
    BY DEF Sound, Kept
  <2>5. PICK g \in Sound : g = "arrspec32"
    BY <2>2
  <2>6. f \notin Words /\ TakesOne(k, f, g)
    BY <2>4, <2>5, FieldsOfStructures DEF Words
  <2>7. OpOf(f) = "TypeStruct" /\ LitOf(f, k) = "" /\ WhatsOf(f, k) = {}
    BY <2>4 DEF OpOf, LitOf, WhatsOf, Wants
  <2>8. OpOf(f) \in MakerOps /\ LitOf(f, k) \in MakerLits
    BY <2>7 DEF MakerOps, MakerLits
  <2>9. ElementCode(k, f, g, a, t)
    BY <1>3, <1>5, <2>4, <2>5, <2>7 DEF ElementCode
  <2>10. Makes(s, t, k, f)
    BY <2>3, <2>5, <2>6, <2>8, <2>9, ElementMaker
  <2>11. QED
    BY <2>4, <2>10
<1>6. QED
  BY <1>4, <1>5

\* _util_mk_constant_ptr_tmpl: x is the context after the pointee's maker.
LEMMA PointerIs ==
    ASSUME NEW s, Good(s), NEW k \in Nat, NEW f \in Sound, f \in Pointers, NEW g \in Sound,
           g \notin Words, g \notin Pointers, TakesOne(k, f, g), OpOf(f) = "TypePointer",
           LitOf(f, k) \in Classes, WhatsOf(f, k) = {}, NEW n, n = Node(s, k), NEW x,
           n.ok => Makes(n, x, k, g), NEW t, t = Pointer(s, k, f, g, x, LitOf(f, k))
    PROVE  Makes(s, t, k, f)
<1>1. PICK a : a = IF Memo(n, k, g) # 0 THEN n ELSE SetMemo(x, k, g, x.ret)
  OBVIOUS
<1>2. /\ ~n.ok => t = Ret(n, 0)
      /\ n.ok /\ Memo(n, k, f) # 0 => t = Ret(n, Memo(n, k, f))
      /\ n.ok /\ Memo(n, k, f) = 0 /\ Memo(a, k, g) = 0 => t = Ret(a, 0)
      /\ n.ok /\ Memo(n, k, f) = 0 /\ Memo(a, k, g) # 0 =>
            t = Make(a, k, f, OpOf(f), LitOf(f, k), << Memo(a, k, g) >>, WhatsOf(f, k))
  BY <1>1 DEF Pointer
<1>3. f \in Kept /\ f \in Fields /\ g \in Kept /\ g \in Fields /\ f \notin Words
  BY SoundKept DEF Pointers, Words
<1>4. CASE ~n.ok
  BY <1>2, <1>4, NodeLost
<1>5. CASE n.ok
  <2>1. Reach(s, n, k) /\ SameFields(s, n)
    BY <1>5, NodeReached
  <2>2. Good(n) /\ Grows(s, n) /\ Holds(n, k) /\ (Holds(s, k) => Holding(s, n))
    BY <2>1 DEF Reach
  <2>3. Memo(n, k, f) = M(n, k, f) /\ Memo(n, k, g) = M(n, k, g)
    BY <1>3, <2>2, MemoIs
  <2>4. Reach(s, a, k) /\ (~a.failed => M(a, k, g) # 0)
    <3>1. CASE Memo(n, k, g) # 0
      BY <1>1, <2>1, <2>3, <3>1
    <3>2. CASE Memo(n, k, g) = 0
      <4>1. a = SetMemo(x, k, g, x.ret) /\ Makes(n, x, k, g)
        BY <1>1, <1>5, <3>2
      <4>2. QED
        BY <1>3, <2>1, <4>1, Refilled
    <3>3. QED
      BY <3>1, <3>2
  <2>5. Memo(a, k, f) = M(a, k, f) /\ Memo(a, k, g) = M(a, k, g)
    BY <1>3, <2>4, MemoIs DEF Reach
  <2>6. CASE Memo(n, k, f) # 0
    <3>1. t = Ret(n, Memo(n, k, f)) /\ M(n, k, f) # 0
      BY <1>2, <1>5, <2>3, <2>6
    <3>2. QED
      BY <1>3, <2>2, <3>1, MemoFound
  <2>7. CASE Memo(n, k, f) = 0
    <3>1. M(s, k, f) = 0
      BY <1>3, <2>1, <2>3, <2>7 DEF SameFields
    <3>2. M(a, k, f) = 0
      BY <2>4, <3>1 DEF Reach, Bare
    <3>3. CASE Memo(a, k, g) = 0
      <4>1. t = Ret(a, 0)
        BY <1>2, <1>5, <2>7, <3>3
      <4>2. a.failed
        <5>1. a.failed \in BOOLEAN
          BY <2>4, GoodNext DEF Reach
        <5>2. QED
          BY <2>4, <2>5, <3>3, <5>1
      <4>3. QED
        BY <2>4, <4>1, <4>2, ZeroAnswer
    <3>4. CASE Memo(a, k, g) # 0
      <4>1. ElementCode(k, f, g, a, t)
        BY <1>2, <1>5, <2>5, <2>7, <3>2, <3>4 DEF ElementCode
      <4>2. OpOf(f) \in MakerOps /\ LitOf(f, k) \in MakerLits
        BY DEF MakerOps, MakerLits
      <4>3. QED
        BY <1>3, <2>4, <4>1, <4>2, ElementMaker
    <3>5. QED
      BY <3>3, <3>4
  <2>8. QED
    BY <2>6, <2>7
<1>6. QED
  BY <1>4, <1>5

LEMMA PointersAre ==
    \A f \in Pointers \ {"ptr_workspec"}, k \in Nat :
        f \in Sound /\ OpOf(f) = "TypePointer" /\ LitOf(f, k) \in Classes /\ WhatsOf(f, k) = {}
<1>1. \A f \in Pointers \ {"ptr_workspec"} : f \in Sound
  BY DEF Pointers, Sound, Kept
<1>2. \A f \in Pointers \ {"ptr_workspec"} : OpOf(f) = "TypePointer"
  BY DEF Pointers, OpOf
<1>3. \A f \in Pointers \ {"ptr_workspec"}, k \in Nat : LitOf(f, k) \in Classes
  BY DEF Pointers, LitOf, Classes
<1>4. \A f \in Pointers \ {"ptr_workspec"}, k \in Nat : WhatsOf(f, k) = {}
  BY DEF Pointers, WhatsOf, Wants
<1>5. QED
  BY <1>1, <1>2, <1>3, <1>4

LEMMA StructPointerIs ==
    ASSUME NEW s, Good(s), NEW k \in Nat, NEW f \in {"ptr_psh", "ptr_storage"},
           NEW t, t = Pointer(s, k, f, "struct", Struct(Node(s, k), k), LitOf(f, k))
    PROVE  Makes(s, t, k, f)
<1>1. PICK n : n = Node(s, k)
  OBVIOUS
<1>2. PICK x : x = Struct(n, k)
  OBVIOUS
<1>3. n.ok => Makes(n, x, k, "struct")
  <2>1. n.ok => Good(n)
    BY <1>1, NodeReached DEF Reach
  <2>2. QED
    BY <1>2, <2>1, StructIs
<1>4. PICK g \in Sound : g = "struct"
  BY DEF Sound, Kept
<1>5. f \in Pointers \ {"ptr_workspec"} /\ g \notin Words /\ g \notin Pointers
  BY <1>4 DEF Pointers, Words
<1>6. f \in Sound /\ OpOf(f) = "TypePointer" /\ LitOf(f, k) \in Classes /\ WhatsOf(f, k) = {}
  BY <1>5, PointersAre
<1>7. TakesOne(k, f, g)
  BY <1>4, FieldsOfStructures
<1>8. t = Pointer(s, k, f, g, x, LitOf(f, k)) /\ (n.ok => Makes(n, x, k, g))
  BY <1>1, <1>2, <1>3, <1>4
<1>9. QED
  BY <1>1, <1>5, <1>6, <1>7, <1>8, PointerIs

LEMMA StructPrivPointerIs ==
    ASSUME NEW s, Good(s), NEW k \in Nat, NEW f \in {"ptr", "ptr_func", "ptr_work"},
           NEW t, t = Pointer(s, k, f, "structpriv", StructPriv(Node(s, k), k), LitOf(f, k))
    PROVE  Makes(s, t, k, f)
<1>1. PICK n : n = Node(s, k)
  OBVIOUS
<1>2. PICK x : x = StructPriv(n, k)
  OBVIOUS
<1>3. n.ok => Makes(n, x, k, "structpriv")
  <2>1. n.ok => Good(n)
    BY <1>1, NodeReached DEF Reach
  <2>2. QED
    BY <1>2, <2>1, StructPrivIs
<1>4. PICK g \in Sound : g = "structpriv"
  BY DEF Sound, Kept
<1>5. f \in Pointers \ {"ptr_workspec"} /\ g \notin Words /\ g \notin Pointers
  BY <1>4 DEF Pointers, Words
<1>6. f \in Sound /\ OpOf(f) = "TypePointer" /\ LitOf(f, k) \in Classes /\ WhatsOf(f, k) = {}
  BY <1>5, PointersAre
<1>7. TakesOne(k, f, g)
  BY <1>4, FieldsOfStructures
<1>8. t = Pointer(s, k, f, g, x, LitOf(f, k)) /\ (n.ok => Makes(n, x, k, g))
  BY <1>1, <1>2, <1>3, <1>4
<1>9. QED
  BY <1>1, <1>5, <1>6, <1>7, <1>8, PointerIs

\* Its pointee is another maker's memo, and may be none.
LEMMA PointerWorkSpecIs ==
    ASSUME NEW s, Good(s), NEW k \in Nat, NEW val \in Nat, NEW t, t = PointerWorkSpec(s, k, val)
    PROVE  Makes(s, t, k, "ptr_workspec")
<1>1. PICK n : n = Node(s, k)
  OBVIOUS
<1>2. PICK a : a = IF Memo(n, k, "structprivspec") # 0 THEN n ELSE StructPrivSpec(n, k, val)
  OBVIOUS
<1>3. PICK f \in Kept : f = "ptr_workspec"
  BY DEF Kept
<1>4. WhatsOf(f, k) = {} /\ f \notin Sound /\ f \notin Words /\ f \in Fields /\ f \in Pointers
  BY <1>3 DEF WhatsOf, Wants, Sound, Words, Fields, Pointers
<1>5. /\ ~n.ok => t = Ret(n, 0)
      /\ n.ok /\ Memo(a, k, f) # 0 => t = Ret(a, Memo(a, k, f))
      /\ n.ok /\ Memo(a, k, f) = 0 =>
            t = Make(a, k, f, "TypePointer", "Workgroup", << Memo(a, k, "structpriv") >>, WhatsOf(f, k))
  BY <1>1, <1>2, <1>3, <1>4 DEF PointerWorkSpec
<1>6. CASE ~n.ok
  <2>1. Makes(s, t, k, f)
    BY <1>1, <1>5, <1>6, NodeLost
  <2>2. QED
    BY <1>3, <2>1
<1>7. CASE n.ok
  <2>1. Reach(s, n, k) /\ Good(n)
    BY <1>1, <1>7, NodeReached DEF Reach
  <2>2. Reach(s, a, k)
    <3>1. CASE Memo(n, k, "structprivspec") # 0
      BY <1>2, <2>1, <3>1
    <3>2. CASE Memo(n, k, "structprivspec") = 0
      <4>1. a = StructPrivSpec(n, k, val)
        BY <1>2, <3>2
      <4>2. Makes(n, a, k, "structprivspec") /\ "structprivspec" \notin Pointers
        BY <2>1, <4>1, StructPrivSpecIs DEF Pointers
      <4>3. QED
        BY <2>1, <4>2, MakesReached
    <3>3. QED
      BY <3>1, <3>2
  <2>3. Good(a) /\ Grows(s, a) /\ Holds(a, k) /\ Bare(s, a) /\ (Holds(s, k) => Holding(s, a))
    BY <2>2 DEF Reach
  <2>4. Memo(a, k, f) = M(a, k, f)
    BY <1>4, <2>3, MemoIs
  <2>5. CASE M(a, k, f) # 0
    <3>1. t = Ret(a, Memo(a, k, f))
      BY <1>5, <1>7, <2>4, <2>5
    <3>2. Makes(s, t, k, f)
      BY <1>4, <2>3, <2>5, <3>1, MemoFound
    <3>3. QED
      BY <1>3, <3>2
  <2>6. CASE M(a, k, f) = 0
    <3>1. "structpriv" \in Fields
      BY DEF Fields
    <3>2. Memo(a, k, "structpriv") \in Nat
      BY <2>3, <3>1, MemoIs
    <3>3. PICK uses \in Seq(Nat) : uses = << Memo(a, k, "structpriv") >>
      <4>1. PICK y \in Nat : y = Memo(a, k, "structpriv")
        BY <3>2
      <4>2. << y >> \in Seq(Nat)
        OBVIOUS
      <4>3. QED
        BY <4>1, <4>2
    <3>4. PICK op \in MakerOps : op = "TypePointer"
      BY DEF MakerOps
    <3>5. PICK lit \in MakerLits : lit = "Workgroup"
      BY DEF MakerLits, Classes
    <3>6. t = Make(a, k, f, op, lit, uses, WhatsOf(f, k))
      BY <1>5, <1>7, <2>4, <2>6, <3>3, <3>4, <3>5
    <3>7. Makes(s, t, k, f)
      BY <1>4, <2>3, <2>6, <3>6, MadeBy
    <3>8. QED
      BY <1>3, <3>7
  <2>7. QED
    BY <2>5, <2>6
<1>8. QED
  BY <1>6, <1>7
------------------------------------------------------------------------------
(***************************************************************************)
(* The makers that may forget what they made.                              *)
(***************************************************************************)
Unkept == {"arr128", "struct128", "ptr_uniform", "ptr_uniformconst"}

LEMMA UnkeptIs == Unkept \subseteq Fields /\ Unkept \subseteq Unsound /\ Unkept \cap Kept = {}
BY DEF Unkept, Fields, Unsound, Kept

LEMMA GoodForget ==
    ASSUME NEW s, Good(s), NEW k \in Nat, NEW f \in Unkept, NEW id \in Nat, NEW t, t = SetMemo(s, k, f, id)
    PROVE  Good(t) /\ Grows(s, t) /\ Holding(s, t) /\ t.ret = s.ret
<1>1. Shape(s) /\ f \in Fields
  BY UnkeptIs, GoodNext
<1>2. Shape(t) /\ SameTypes(s, t) /\ t.ret = s.ret /\ Filled(s, t, k, f, id)
  BY <1>1, SetMemoIs
<1>3. SameMemos(s, t) /\ Holding(s, t)
  BY <1>2, UnkeptIs, SoundKept DEF SameMemos, Holding, Filled
<1>4. QED
  BY <1>2, <1>3, GoodSame

\* An instruction that no sound memo names.
LEMMA GoodUnkept ==
    ASSUME NEW s, Good(s), NEW i \in InstrT, i.by \in Unkept, i.id = s.next, NEW t, Shape(t),
           t.cache = s.cache, (t.failed /\ t.next = s.next) \/ Added(s, t, i)
    PROVE  Good(t) /\ Grows(s, t) /\ Holding(s, t)
<1>1. PICK n \in Nat : n = s.next
  BY GoodNext
<1>2. Shape(s) /\ n >= EndId /\ EndId = 21
  BY <1>1, DefaultsAre, GoodNext DEF Shape
<1>3. SameMemos(s, t) /\ Holding(s, t)
  BY SameCache DEF SameMemos, Holding
<1>4. CASE t.failed /\ t.next = s.next
  <2>1. s.next <= t.next
    BY <1>1, <1>4
  <2>2. QED
    BY <1>3, <1>4, <2>1, GoodFailed
<1>5. CASE Added(s, t, i)
  <2>1. /\ t.types = Append(s.types, i) /\ t.caps = s.caps
        /\ t.deco = s.deco \cup ({i.id} \X Wants(i))
        /\ t.defaults = s.defaults /\ t.next = n + 1 /\ t.failed = s.failed
    BY <1>1, <1>5 DEF Added
  <2>2. s.next <= t.next /\ t.next \in Nat /\ i.id < t.next /\ i.id >= EndId
    BY <1>1, <1>2, <2>1
  <2>3. MemosGrow(s, t)
    BY <1>3 DEF MemosGrow, SameMemos
  <2>4. MemosOK(t)
    <3>1. \A l \in Nat, g \in Kept : M(s, l, g) < n /\ M(s, l, g) \in Nat
      BY <1>1, <1>2, MIs, SoundKept DEF Good, MemosOK
    <3>2. \A l \in Nat, g \in Kept : M(s, l, g) < n + 1
      BY <3>1
    <3>3. \A l \in Nat, g \in Kept : M(t, l, g) < t.next
      BY <1>3, <2>1, <3>2 DEF SameMemos
    <3>4. QED
      BY <1>3, <3>3 DEF Good, MemosOK, SameMemos
  <2>5. ASSUME ~s.failed PROVE Intended(t)
    <3>1. Intended(s)
      BY <2>5 DEF Good
    <3>2. Fresh(s, i)
      <4>1. \A j \in DOMAIN s.types : s.types[j].id < n /\ s.types[j].id \in Nat
        BY <1>1, <1>2, <3>1, TypesAre DEF Intended, IdsOK, InstrT
      <4>2. \A j \in DOMAIN s.types : s.types[j].id # n
        BY <4>1
      <4>3. QED
        BY <1>1, <4>2 DEF Fresh
    <3>3. i.by \in Unsound
      BY UnkeptIs
    <3>4. CapsOK(t)
      BY <2>1, <3>1 DEF Intended, CapsOK
    <3>5. \A k \in Nat, f \in Sound : M(t, k, f) # 0 => M(s, k, f) # 0 \/ IsMade(i, t, k, f)
      BY <1>3, SoundKept DEF SameMemos
    <3>6. s.defaults \subseteq t.defaults /\ \A d \in t.defaults : d \in s.defaults \/ IsDefault(i, d)
      BY <2>1
    <3>7. QED
      BY <1>2, <2>1, <2>2, <2>3, <3>1, <3>2, <3>3, <3>4, <3>5, <3>6, IntendedMore
  <2>6. Good(t)
    BY <2>1, <2>4, <2>5 DEF Good
  <2>7. Grows(s, t)
    BY <2>1, <2>2, <2>3 DEF Grows
  <2>8. QED
    BY <1>3, <2>6, <2>7
<1>6. QED
  BY <1>4, <1>5

LEMMA WriteIs ==
    ASSUME NEW n, NEW u, Good(u), NEW k \in Nat, NEW f \in Unkept, NEW id \in Nat,
           NEW t, t = Write(n, u, k, f, id)
    PROVE  Good(t) /\ Grows(u, t) /\ Holding(u, t) /\ t.ret = u.ret
<1>1. CASE Stale(n, u)
  <2>1. t = u
    BY <1>1 DEF Write
  <2>2. Grows(u, u) /\ Holding(u, u)
    BY GoodNext DEF Grows, Holding, MemosGrow
  <2>3. QED
    BY <2>1, <2>2
<1>2. CASE ~Stale(n, u)
  <2>1. t = SetMemo(u, k, f, id)
    BY <1>2 DEF Write
  <2>2. QED
    BY <2>1, GoodForget
<1>3. QED
  BY <1>1, <1>2

\* What such a maker keeps.
Loose(s, t, k) ==
    /\ Good(t) /\ Grows(s, t) /\ t.ret \in Nat
    /\ t.ret # 0 => Holds(t, k)

\* The end of such a maker: d is the context after the emissions.
UnkeptCode(n, w, k, f, d, t) ==
    /\ ~d.ok => t = Ret(d, 0)
    /\ d.ok => t = Ret(Write(n, [d EXCEPT !.next = @ + 1], k, f, w.next), w.next)

LEMMA UnkeptMade ==
    ASSUME NEW n, NEW w, Good(w), NEW k \in Nat, NEW f \in Unkept, NEW i \in InstrT, i.by = f,
           i.id = w.next, NEW d, Shape(d), SameNodes(w, d),
           d.ok => /\ d.types = Append(w.types, i) /\ d.caps = w.caps
                   /\ d.deco = w.deco \cup ({i.id} \X Wants(i)),
           NEW t, UnkeptCode(n, w, k, f, d, t)
    PROVE  Good(t) /\ Grows(w, t) /\ Holding(w, t) /\ t.ret \in Nat
<1>1. PICK m \in Nat : m = w.next
  BY GoodNext
<1>2. CASE ~d.ok
  <2>1. Good(d) /\ Grows(w, d) /\ Holding(w, d)
    <3>1. d.cache = w.cache /\ d.failed /\ d.next = w.next
      BY <1>2 DEF SameNodes
    <3>2. QED
      BY <3>1, GoodUnkept
  <2>2. PICK z \in Nat : z = 0
    OBVIOUS
  <2>3. t = Ret(d, z)
    BY <1>2, <2>2 DEF UnkeptCode
  <2>4. Good(t) /\ Grows(d, t) /\ Holding(d, t) /\ t.ret = z
    <3>1. GivenBack(d, t, z)
      BY <2>1, <2>3, GivenBackIs
    <3>2. QED
      BY <3>1 DEF GivenBack
  <2>5. QED
    BY <2>1, <2>4, GrowsOn, HoldingTransitive
<1>3. CASE d.ok
  <2>1. PICK a : a = [d EXCEPT !.next = @ + 1]
    OBVIOUS
  <2>2. /\ Shape(a) /\ a.cache = d.cache /\ a.types = d.types /\ a.caps = d.caps /\ a.deco = d.deco
        /\ a.defaults = d.defaults /\ a.failed = d.failed /\ a.next = d.next + 1
    BY <2>1, CountedIs
  <2>3. Good(a) /\ Grows(w, a) /\ Holding(w, a)
    <3>1. a.cache = w.cache /\ Added(w, a, i)
      BY <1>3, <2>2 DEF SameNodes, Added
    <3>2. QED
      BY <2>2, <3>1, GoodUnkept
  <2>4. PICK b : b = Write(n, a, k, f, m)
    OBVIOUS
  <2>5. Good(b) /\ Grows(a, b) /\ Holding(a, b)
    BY <2>3, <2>4, WriteIs
  <2>6. t = Ret(b, m)
    BY <1>1, <1>3, <2>1, <2>4 DEF UnkeptCode
  <2>7. Good(t) /\ Grows(b, t) /\ Holding(b, t) /\ t.ret = m
    <3>1. GivenBack(b, t, m)
      BY <2>5, <2>6, GivenBackIs
    <3>2. QED
      BY <3>1 DEF GivenBack
  <2>8. Grows(w, b) /\ Holding(w, b)
    BY <2>3, <2>5, GrowsOn, HoldingTransitive
  <2>9. Grows(w, t) /\ Holding(w, t)
    BY <2>5, <2>7, <2>8, GrowsOn, HoldingTransitive
  <2>10. QED
    BY <2>7, <2>9
<1>4. QED
  BY <1>2, <1>3

\* What is read through a pointer to the node.
LEMMA ThroughIs ==
    ASSUME NEW s, Good(s), NEW t, Good(t), NEW k \in Nat, Holds(s, k), Holds(t, k), NEW f \in Fields
    PROVE  Through(s, t, k, f) \in Nat
BY MemoIs DEF Through

LEMMA LooseRet ==
    ASSUME NEW s, Good(s), NEW w, Good(w), Grows(s, w), NEW k \in Nat, NEW id \in Nat,
           id # 0 => Holds(w, k), NEW t, t = Ret(w, id)
    PROVE  Loose(s, t, k)
<1>1. Good(t) /\ Grows(w, t) /\ Holding(w, t) /\ t.ret = id
  BY GoodRet
<1>2. Grows(s, t)
  BY <1>1, GrowsOn
<1>3. QED
  BY <1>1, <1>2 DEF Loose, Holding

LEMMA LooseMade ==
    ASSUME NEW s, Good(s), NEW w, Good(w), Grows(s, w), NEW k \in Nat, Holds(w, k), NEW t,
           Good(t) /\ Grows(w, t) /\ Holding(w, t) /\ t.ret \in Nat
    PROVE  Loose(s, t, k)
BY GrowsOn DEF Loose, Holding

\* The instruction of such a maker.
LEMMA UnkeptInstr ==
    ASSUME NEW w, Good(w), NEW k \in Nat, NEW f \in Unkept, NEW op \in MakerOps, NEW lit \in MakerLits,
           NEW uses \in Seq(Nat), NEW i, i = Instr(f, k, op, w.next, lit, uses)
    PROVE  i \in InstrT /\ i.by = f /\ i.id = w.next /\ i.id \in Nat /\ Wants(i) = WhatsOf(f, k)
<1>1. f \in Fields /\ w.next \in Nat /\ w.next >= EndId
  BY UnkeptIs, GoodNext DEF Shape
<1>2. PICK m \in Nat : m = w.next
  BY <1>1
<1>3. i = Instr(f, k, op, m, lit, uses) /\ m >= EndId
  BY <1>1, <1>2
<1>4. i \in InstrT /\ i.by = f /\ i.key = k
  BY <1>1, <1>3, InstrOK
<1>5. i.id = m
  BY <1>3 DEF Instr
<1>6. Wants(i) = WhatsOf(f, k)
  BY <1>4 DEF Wants, WhatsOf
<1>7. QED
  BY <1>2, <1>4, <1>5, <1>6

LEMMA Arr128Is ==
    ASSUME NEW s, Good(s), NEW k \in Nat, NEW t, t = Arr128(s, k)
    PROVE  Loose(s, t, k)
<1>1. PICK n : n = Node(s, k)
  OBVIOUS
<1>2. PICK v : v = Vec32(n, 4)
  OBVIOUS
<1>3. PICK w : w = Val(v, k)
  OBVIOUS
<1>4. PICK i : i = Instr("arr128", k, "TypeArray", w.next, "", << v.ret, Through(n, w, k, "val") >>)
  OBVIOUS
<1>5. PICK e : e = Emit(w, i)
  OBVIOUS
<1>6. PICK d : d = IF Fails(e) THEN Decorate(e, 0, ArrayStride128) ELSE Spend(e)
  OBVIOUS
<1>7. PICK f \in Unkept : f = "arr128"
  BY DEF Unkept
<1>8. PICK lost \in BOOLEAN : lost = (~n.ok \/ (Stale(n, v) /\ s.trash))
  OBVIOUS
<1>9. /\ lost => t = Ret(v, 0)
      /\ ~lost /\ w.ret = 0 => t = w
      /\ ~lost /\ w.ret # 0 /\ Through(n, w, k, f) # 0 => t = Ret(w, Through(n, w, k, f))
      /\ ~lost /\ w.ret # 0 /\ Through(n, w, k, f) = 0 /\ k = 1 => t = Ret(w, v.ret)
      /\ ~lost /\ w.ret # 0 /\ Through(n, w, k, f) = 0 /\ k # 1 /\ ~e.ok => t = Ret(e, 0)
      /\ ~lost /\ w.ret # 0 /\ Through(n, w, k, f) = 0 /\ k # 1 /\ e.ok /\ ~d.ok => t = Ret(d, 0)
      /\ ~lost /\ w.ret # 0 /\ Through(n, w, k, f) = 0 /\ k # 1 /\ e.ok /\ d.ok =>
            t = Ret(Write(n, [d EXCEPT !.next = @ + 1], k, f, d.next), d.next)
  BY <1>1, <1>2, <1>3, <1>4, <1>5, <1>6, <1>7, <1>8, ZenonT(40) DEF Arr128
<1>10. Good(n) /\ Grows(s, n) /\ (n.ok => Holds(n, k))
  BY <1>1, GoodNode
<1>11. Good(v) /\ Grows(n, v) /\ v.ret \in Nat
  BY <1>2, <1>10, Vec32Is DEF Makes, Keeps
<1>12. Good(w) /\ Grows(v, w) /\ w.ret \in Nat /\ (w.ret # 0 => Holds(w, k))
  BY <1>3, <1>11, ValIs DEF Makes, Keeps
<1>13. Grows(s, v) /\ Grows(s, w)
  <2>1. Grows(s, v)
    BY <1>10, <1>11, GrowsOn
  <2>2. QED
    BY <1>11, <1>12, <2>1, GrowsOn
<1>14. CASE lost
  <2>1. PICK z \in Nat : z = 0
    OBVIOUS
  <2>2. t = Ret(v, z) /\ (z # 0 => Holds(v, k))
    BY <1>9, <1>14, <2>1
  <2>3. QED
    BY <1>11, <1>13, <2>2, LooseRet
<1>15. CASE ~lost /\ w.ret = 0
  BY <1>9, <1>12, <1>13, <1>15 DEF Loose
<1>16. CASE ~lost /\ w.ret # 0
  <2>1. Holds(n, k) /\ Holds(w, k)
    BY <1>8, <1>10, <1>12, <1>16
  <2>2. f \in Fields /\ "val" \in Fields
    BY UnkeptIs DEF Fields
  <2>3. Through(n, w, k, f) \in Nat /\ Through(n, w, k, "val") \in Nat
    BY <1>10, <1>12, <2>1, <2>2, ThroughIs
  <2>4. CASE Through(n, w, k, f) # 0
    <3>1. PICK c \in Nat : c = Through(n, w, k, f)
      BY <2>3
    <3>2. t = Ret(w, c)
      BY <1>9, <1>16, <2>4, <3>1
    <3>3. QED
      BY <1>12, <1>13, <2>1, <3>2, LooseRet
  <2>5. CASE Through(n, w, k, f) = 0 /\ k = 1
    <3>1. PICK c \in Nat : c = v.ret
      BY <1>11
    <3>2. t = Ret(w, c)
      BY <1>9, <1>16, <2>5, <3>1
    <3>3. QED
      BY <1>12, <1>13, <2>1, <3>2, LooseRet
  <2>6. CASE Through(n, w, k, f) = 0 /\ k # 1
    <3>1. PICK x \in Nat, y \in Nat : x = v.ret /\ y = Through(n, w, k, "val")
      BY <1>11, <2>3
    <3>2. PICK uses \in Seq(Nat) : uses = << x, y >>
      BY PairOfIds
    <3>3. PICK op \in MakerOps : op = "TypeArray"
      BY DEF MakerOps
    <3>4. PICK lit \in MakerLits : lit = ""
      BY DEF MakerLits
    <3>5. i = Instr(f, k, op, w.next, lit, uses)
      BY <1>4, <1>7, <3>1, <3>2, <3>3, <3>4
    <3>6. i \in InstrT /\ i.by = f /\ i.id = w.next /\ Wants(i) = WhatsOf(f, k)
      BY <1>12, <3>5, UnkeptInstr
    <3>7. WhatsOf(f, k) = {}
      BY <1>7 DEF WhatsOf, Wants
    <3>8. /\ e \in CtxT /\ SameNodes(w, e) /\ e.caps = w.caps /\ e.deco = w.deco
          /\ e.ok => e.types = Append(w.types, i)
      <4> HIDE DEF InstrT
      <4>1. w \in CtxT
        BY <1>12, GoodNext
      <4>2. QED
        BY <1>5, <3>6, <4>1, EmitIs
    <3>9. /\ d \in CtxT /\ d.cache = e.cache /\ d.defaults = e.defaults /\ d.next = e.next
          /\ (e.failed => d.failed) /\ (~d.ok => d.failed)
          /\ d.ok => d.failed = e.failed /\ d.types = e.types /\ d.caps = e.caps /\ d.deco = e.deco
      <4>1. PICK u : u = Spend(e)
        OBVIOUS
      <4>2. /\ u \in CtxT
            /\ u.cache = e.cache /\ u.types = e.types /\ u.caps = e.caps /\ u.deco = e.deco
            /\ u.defaults = e.defaults /\ u.next = e.next
            /\ u.failed <=> e.failed \/ Fails(e)
            /\ u.ok <=> ~Fails(e)
            /\ ~Fails(e) => u.failed = e.failed
        BY <3>8, <4>1, SpendIs
      <4>3. CASE Fails(e)
        <5>1. d = [u EXCEPT !.deco = {}]
          BY <1>6, <4>1, <4>3 DEF Decorate
        <5>2. /\ d \in CtxT /\ d.cache = u.cache /\ d.defaults = u.defaults /\ d.next = u.next
              /\ d.failed = u.failed /\ d.ok = u.ok
          BY <4>2, <5>1 DEF CtxT
        <5>3. QED
          BY <4>2, <4>3, <5>2
      <4>4. CASE ~Fails(e)
        <5>1. d = u
          BY <1>6, <4>1, <4>4
        <5>2. QED
          BY <4>2, <4>4, <5>1
      <4>5. QED
        BY <4>3, <4>4
    <3>10. Shape(w) /\ d.next = w.next
      BY <1>12, <3>8, <3>9, GoodNext DEF SameNodes
    <3>11. CASE ~e.ok
      <4>1. UnkeptCode(n, w, k, f, e, t)
        BY <1>9, <1>16, <2>6, <3>11 DEF UnkeptCode
      <4>2. Shape(e)
        BY <3>8, <3>10 DEF Shape, SameNodes
      <4>3. Good(t) /\ Grows(w, t) /\ Holding(w, t) /\ t.ret \in Nat
        BY <1>12, <3>6, <3>8, <3>11, <4>1, <4>2, UnkeptMade
      <4>4. QED
        BY <1>12, <1>13, <2>1, <4>3, LooseMade
    <3>12. CASE e.ok
      <4>1. UnkeptCode(n, w, k, f, d, t)
        BY <1>9, <1>16, <2>6, <3>10, <3>12 DEF UnkeptCode
      <4>2. Shape(d) /\ SameNodes(w, d)
        BY <3>8, <3>9, <3>10, <3>12 DEF Shape, SameNodes
      <4>3. d.ok => /\ d.types = Append(w.types, i) /\ d.caps = w.caps
                    /\ d.deco = w.deco \cup ({i.id} \X Wants(i))
        <5>1. {i.id} \X Wants(i) = {}
          BY <3>6, <3>7
        <5>2. QED
          BY <3>8, <3>9, <3>12, <5>1
      <4>4. Good(t) /\ Grows(w, t) /\ Holding(w, t) /\ t.ret \in Nat
        BY <1>12, <3>6, <4>1, <4>2, <4>3, UnkeptMade
      <4>5. QED
        BY <1>12, <1>13, <2>1, <4>4, LooseMade
    <3>13. QED
      BY <3>8, <3>11, <3>12 DEF CtxT
  <2>7. QED
    BY <2>4, <2>5, <2>6
<1>17. QED
  BY <1>14, <1>15, <1>16

LEMMA Struct128Is ==
    ASSUME NEW s, Good(s), NEW k \in Nat, NEW t, t = Struct128(s, k)
    PROVE  Loose(s, t, k)
<1>1. PICK n : n = Node(s, k)
  OBVIOUS
<1>2. PICK x : x = Arr128(n, k)
  OBVIOUS
<1>3. PICK a : a = Write(n, x, k, "arr128", x.ret)
  OBVIOUS
<1>4. PICK i : i = Instr("struct128", k, "TypeStruct", a.next, "", << x.ret >>)
  OBVIOUS
<1>5. PICK d : d = DecorateAll(Emit(a, i), a.next, Block)
  OBVIOUS
<1>6. PICK f \in Unkept : f = "struct128"
  BY Zenon DEF Unkept
<1>7. /\ ~n.ok => t = Ret(n, 0)
      /\ n.ok /\ x.ret = 0 => t = a
      /\ n.ok /\ x.ret # 0 /\ Through(n, a, k, f) # 0 => t = Ret(a, Through(n, a, k, f))
      /\ n.ok /\ x.ret # 0 /\ Through(n, a, k, f) = 0 /\ ~d.ok => t = Ret(d, 0)
      /\ n.ok /\ x.ret # 0 /\ Through(n, a, k, f) = 0 /\ d.ok =>
            t = Ret(Write(n, [d EXCEPT !.next = @ + 1], k, f, a.next), a.next)
  BY <1>1, <1>2, <1>3, <1>4, <1>5, <1>6 DEF Struct128
<1>8. Good(n) /\ Grows(s, n) /\ (n.ok => Holds(n, k))
  BY <1>1, GoodNode
<1>9. Good(x) /\ Grows(n, x) /\ x.ret \in Nat /\ (x.ret # 0 => Holds(x, k))
  BY <1>2, <1>8, Arr128Is DEF Loose
<1>10. Good(a) /\ Grows(x, a) /\ Holding(x, a) /\ a.ret = x.ret
  <2>1. PICK g \in Unkept : g = "arr128"
    BY DEF Unkept
  <2>2. PICK id \in Nat : id = x.ret
    BY <1>9
  <2>3. a = Write(n, x, k, g, id)
    BY <1>3, <2>1, <2>2
  <2>4. QED
    BY <1>9, <2>3, WriteIs
<1>11. Grows(s, a)
  <2>1. Grows(s, x)
    BY <1>8, <1>9, GrowsOn
  <2>2. QED
    BY <1>9, <1>10, <2>1, GrowsOn
<1>12. CASE ~n.ok
  <2>1. PICK z \in Nat : z = 0
    OBVIOUS
  <2>2. t = Ret(n, z) /\ (z # 0 => Holds(n, k))
    BY <1>7, <1>12, <2>1
  <2>3. QED
    BY <1>8, <2>2, LooseRet
<1>13. CASE n.ok /\ x.ret = 0
  BY <1>7, <1>9, <1>10, <1>11, <1>13 DEF Loose
<1>14. CASE n.ok /\ x.ret # 0
  <2>1. Holds(n, k) /\ Holds(a, k)
    BY <1>8, <1>9, <1>10, <1>14 DEF Holding
  <2>2. f \in Fields
    BY UnkeptIs
  <2>3. Through(n, a, k, f) \in Nat
    BY <1>8, <1>10, <2>1, <2>2, ThroughIs
  <2>4. CASE Through(n, a, k, f) # 0
    <3>1. PICK c \in Nat : c = Through(n, a, k, f)
      BY <2>3
    <3>2. t = Ret(a, c)
      BY <1>7, <1>14, <2>4, <3>1
    <3>3. QED
      BY <1>10, <1>11, <2>1, <3>2, LooseRet
  <2>5. CASE Through(n, a, k, f) = 0
    <3>1. PICK y \in Nat : y = x.ret
      BY <1>9
    <3>2. PICK uses \in Seq(Nat) : uses = << y >>
      <4>1. << y >> \in Seq(Nat)
        OBVIOUS
      <4>2. QED
        BY <4>1
    <3>3. PICK op \in MakerOps : op = "TypeStruct"
      BY DEF MakerOps
    <3>4. PICK lit \in MakerLits : lit = ""
      BY DEF MakerLits
    <3>5. i = Instr(f, k, op, a.next, lit, uses)
      BY <1>4, <1>6, <3>1, <3>2, <3>3, <3>4
    <3>6. i \in InstrT /\ i.by = f /\ i.id = a.next /\ Wants(i) = WhatsOf(f, k)
      BY <1>10, <3>5, UnkeptInstr
    <3>7. WhatsOf(f, k) = Block
      BY <1>6 DEF WhatsOf, Wants, Block
    <3>8. d = DecorateAll(Emit(a, i), a.next, Wants(i)) /\ Shape(a)
      BY <1>5, <1>10, <3>6, <3>7, GoodNext
    <3>9. /\ Shape(d) /\ SameNodes(a, d)
          /\ d.ok => /\ d.types = Append(a.types, i) /\ d.caps = a.caps
                     /\ d.deco = a.deco \cup ({i.id} \X Wants(i))
      <4> HIDE DEF InstrT
      <4>1. PICK id : id = i.id
        OBVIOUS
      <4>2. d = DecorateAll(Emit(a, i), id, Wants(i))
        BY <3>6, <3>8, <4>1
      <4>3. /\ Shape(d) /\ SameNodes(a, d)
            /\ d.ok => /\ d.types = Append(a.types, i) /\ d.caps = a.caps
                       /\ d.deco = a.deco \cup ({id} \X Wants(i))
        BY <3>6, <3>8, <4>1, <4>2, EmittedIs
      <4>4. QED
        BY <4>1, <4>3
    <3>10. UnkeptCode(n, a, k, f, d, t)
      BY <1>7, <1>14, <2>5 DEF UnkeptCode
    <3>11. Good(t) /\ Grows(a, t) /\ Holding(a, t) /\ t.ret \in Nat
      BY <1>10, <3>6, <3>9, <3>10, UnkeptMade
    <3>12. QED
      BY <1>10, <1>11, <2>1, <3>11, LooseMade
  <2>6. QED
    BY <2>4, <2>5
<1>15. QED
  BY <1>12, <1>13, <1>14
------------------------------------------------------------------------------
(***************************************************************************)
(* The calls.                                                              *)
(***************************************************************************)
\* What a call leaves behind.
Done(s, t) ==
    /\ Good(Returned(t)) /\ Grows(s, Returned(t))
    /\ Returned(t).failed = t.failed /\ SameView(t, Returned(t))
    /\ Returned(t).defaults = t.defaults

LEMMA ReturnedIs ==
    ASSUME NEW s, Good(s), NEW t, Good(t), Grows(s, t), NEW x, NEW u, u = Ret(t, x)
    PROVE  Done(s, u) /\ Done(s, t)
<1>1. t \in CtxT /\ Shape(t)
  BY GoodNext
<1>2. Returned(u) = Returned(t)
  BY <1>1 DEF Returned, Ret, CtxT
<1>3. PICK r : r = Returned(t)
  OBVIOUS
<1>4. /\ r \in CtxT /\ r.cache = t.cache /\ SameTypes(t, r)
  BY <1>1, <1>3 DEF Returned, CtxT, SameTypes
<1>5. Shape(r)
  BY <1>1, <1>4 DEF Shape, SameTypes
<1>6. SameView(t, r) /\ SameMemos(t, r)
  BY <1>4, SameCache DEF SameView, SameMemos
<1>7. Good(r) /\ Grows(t, r)
  BY <1>4, <1>5, <1>6, GoodSame
<1>8. Grows(s, r)
  BY <1>7, GrowsOn
<1>9. Done(s, t)
  BY <1>3, <1>4, <1>6, <1>7, <1>8 DEF Done, SameTypes
<1>10. u.cache = t.cache /\ u.failed = t.failed /\ u.defaults = t.defaults
  BY <1>1 DEF Ret, CtxT
<1>11. SameView(u, r)
  BY <1>4, <1>10, SameCache DEF SameView
<1>12. QED
  BY <1>2, <1>3, <1>4, <1>7, <1>8, <1>9, <1>10, <1>11 DEF Done, SameTypes

LEMMA CountIs == ASSUME NEW k \in Nat PROVE SzToCount(k) \in Nat
BY DEF SzToCount

LEMMA PointerUniformDone ==
    ASSUME NEW s, Good(s), NEW k \in Nat, NEW f \in {"ptr_uniform", "ptr_uniformconst"},
           NEW class \in Classes, NEW t, t = PointerUniform(s, k, f, class)
    PROVE  Done(s, t)
<1>1. PICK n : n = Node(s, k)
  OBVIOUS
<1>2. PICK x : x = Struct128(n, SzToCount(k))
  OBVIOUS
<1>3. PICK made \in BOOLEAN : made = (Memo(n, k, "struct128") = 0)
  OBVIOUS
<1>4. PICK a : a = IF made THEN Write(n, x, k, "struct128", x.ret) ELSE n
  OBVIOUS
<1>5. PICK elm : elm = IF made THEN x.ret ELSE Memo(n, k, "struct128")
  OBVIOUS
<1>6. PICK i : i = Instr(f, k, "TypePointer", a.next, class, << elm >>)
  OBVIOUS
<1>7. PICK e : e = Emit(a, i)
  OBVIOUS
<1>8. /\ ~n.ok => t = Ret(n, 0)
      /\ n.ok /\ Through(n, a, k, f) # 0 => t = Ret(a, Through(n, a, k, f))
      /\ n.ok /\ Through(n, a, k, f) = 0 /\ ~e.ok => t = Ret(e, 0)
      /\ n.ok /\ Through(n, a, k, f) = 0 /\ e.ok =>
            t = Ret(Write(n, [e EXCEPT !.next = @ + 1], k, f, a.next), a.next)
  BY <1>1, <1>2, <1>3, <1>4, <1>5, <1>6, <1>7 DEF PointerUniform
<1>9. f \in Unkept
  BY DEF Unkept
<1>10. Good(n) /\ Grows(s, n) /\ (n.ok => Holds(n, k))
  BY <1>1, GoodNode
<1>11. Good(x) /\ Grows(n, x) /\ x.ret \in Nat
  <2>1. PICK c \in Nat : c = SzToCount(k)
    BY CountIs
  <2>2. x = Struct128(n, c)
    BY <1>2, <2>1
  <2>3. QED
    BY <1>10, <2>2, Struct128Is DEF Loose
<1>12. Good(a) /\ Grows(s, a)
  <2>1. CASE made
    <3>1. PICK g \in Unkept : g = "struct128"
      BY DEF Unkept
    <3>2. PICK id \in Nat : id = x.ret
      BY <1>11
    <3>3. a = Write(n, x, k, g, id)
      BY <1>4, <2>1, <3>1, <3>2
    <3>4. Good(a) /\ Grows(x, a)
      BY <1>11, <3>3, WriteIs
    <3>5. Grows(s, x)
      BY <1>10, <1>11, GrowsOn
    <3>6. QED
      BY <1>11, <3>4, <3>5, GrowsOn
  <2>2. CASE ~made
    BY <1>4, <1>10, <2>2
  <2>3. QED
    BY <2>1, <2>2
<1>13. CASE ~n.ok
  BY <1>8, <1>10, <1>13, ReturnedIs
<1>14. CASE n.ok /\ Through(n, a, k, f) # 0
  <2>1. t = Ret(a, Through(n, a, k, f))
    BY <1>8, <1>14
  <2>2. QED
    BY <1>12, <2>1, ReturnedIs
<1>15. CASE n.ok /\ Through(n, a, k, f) = 0
  <2>1. elm \in Nat
    <3>1. "struct128" \in Fields
      BY DEF Fields
    <3>2. Memo(n, k, "struct128") \in Nat
      BY <1>10, <1>15, <3>1, MemoIs
    <3>3. QED
      BY <1>5, <1>11, <3>2
  <2>2. PICK y \in Nat : y = elm
    BY <2>1
  <2>3. PICK uses \in Seq(Nat) : uses = << y >>
    <3>1. << y >> \in Seq(Nat)
      OBVIOUS
    <3>2. QED
      BY <3>1
  <2>4. PICK op \in MakerOps : op = "TypePointer"
    BY DEF MakerOps
  <2>5. PICK lit \in MakerLits : lit = class
    BY DEF MakerLits
  <2>6. i = Instr(f, k, op, a.next, lit, uses)
    BY <1>6, <2>2, <2>3, <2>4, <2>5
  <2>7. i \in InstrT /\ i.by = f /\ i.id = a.next /\ Wants(i) = WhatsOf(f, k)
    BY <1>9, <1>12, <2>6, UnkeptInstr
  <2>8. WhatsOf(f, k) = {}
    BY DEF WhatsOf, Wants
  <2>9. /\ e \in CtxT /\ SameNodes(a, e) /\ e.caps = a.caps /\ e.deco = a.deco
        /\ e.ok => e.types = Append(a.types, i)
    <3> HIDE DEF InstrT
    <3>1. a \in CtxT
      BY <1>12, GoodNext
    <3>2. QED
      BY <1>7, <2>7, <3>1, EmitIs
  <2>10. Shape(e)
    BY <1>12, <2>9, GoodNext DEF Shape, SameNodes
  <2>11. e.ok => /\ e.types = Append(a.types, i) /\ e.caps = a.caps
                 /\ e.deco = a.deco \cup ({i.id} \X Wants(i))
    <3>1. {i.id} \X Wants(i) = {}
      BY <2>7, <2>8
    <3>2. QED
      BY <2>9, <3>1
  <2>12. UnkeptCode(n, a, k, f, e, t)
    BY <1>8, <1>15 DEF UnkeptCode
  <2>13. Good(t) /\ Grows(a, t)
    BY <1>9, <1>12, <2>7, <2>9, <2>10, <2>11, <2>12, UnkeptMade
  <2>14. Grows(s, t)
    BY <1>12, <2>13, GrowsOn
  <2>15. QED
    BY <2>13, <2>14, ReturnedIs
<1>16. QED
  BY <1>13, <1>14, <1>15

PointerTypes == DOMAIN Pointee \cup Interfaces

LEMMA DefaultIdNat ==
    ASSUME NEW d \in DefaultNames
    PROVE  \E m \in Nat \ {0} : m = DefaultId(d)
<1>1. DefaultId(d) \in 1..20
  BY DefaultIdOK
<1>2. QED
  BY <1>1

LEMMA OneId == ASSUME NEW x \in Nat PROVE << x >> \in Seq(Nat)
OBVIOUS

LEMMA PointerTypeOK ==
    ASSUME NEW d \in PointerTypes, NEW m, m = DefaultId(d), NEW y, NEW uses, uses = << y >>,
           d \in DOMAIN Pointee => y = DefaultId(Pointee[d]),
           NEW i, i.by = "" /\ i.id = m /\ i.op = "TypePointer" /\ i.lit = DefaultLit(d) /\ i.uses = uses
    PROVE  IsDefault(i, d)
<1>1. d # "FN_VOID"
  BY BasesOK DEF PointerTypes
<1>2. DefaultOp(d) = "TypePointer"
  BY <1>1 DEF DefaultOp, PointerTypes
<1>3. QED
  BY <1>2 DEF IsDefault

\* A pointer type or an interface, with its pointee in e.
LEMMA PointerTypeIs ==
    ASSUME NEW s, Good(s), NEW e, Good(e), Grows(s, e), e.ret \in Nat, e.ret # 0, e.failed => s.failed,
           NEW d \in PointerTypes, d \notin e.defaults,
           ~e.failed => There(e, << e.ret >>), d \in DOMAIN Pointee => e.ret = DefaultId(Pointee[d]),
           NEW class, class = DefaultLit(d),
           NEW t, t = Finish(Emit(e, Instr("", 0, "TypePointer", DefaultId(d), class, << e.ret >>)), d)
    PROVE  Good(t) /\ Grows(s, t) /\ Gives(s, t, d)
<1>1. d \in DefaultNames /\ d # "FN_VOID" /\ d \notin DOMAIN Capability
  BY BasesOK DEF PointerTypes
<1>2. PICK m \in Nat \ {0} : m = DefaultId(d)
  BY <1>1, DefaultIdNat
<1>3. PICK y \in Nat : y = e.ret
  OBVIOUS
<1>4. << y >> \in Seq(Nat)
  BY OneId
<1>5. PICK uses \in Seq(Nat) : uses = << y >>
  BY <1>4
<1>6. PICK i : i = Instr("", 0, "TypePointer", m, class, uses)
  OBVIOUS
<1>7. class \in DefaultNames \cup Classes
  BY <1>1 DEF DefaultLit, Classes
<1>8. i \in InstrT
  BY <1>6, <1>7 DEF InstrT, Instr
<1>9. i.by = "" /\ i.id = m /\ i.op = "TypePointer" /\ i.lit = class /\ i.uses = uses
  BY <1>6 DEF Instr
<1>10. IsDefault(i, d)
  BY <1>2, <1>3, <1>5, <1>9, PointerTypeOK
<1>11. PICK c : c = Emit(e, i)
  OBVIOUS
<1>12. /\ c \in CtxT /\ SameNodes(e, c) /\ c.caps = e.caps /\ c.deco = e.deco
       /\ (c.ok => c.types = Append(e.types, i))
  <2> HIDE DEF InstrT
  <2>1. e \in CtxT
    BY GoodNext
  <2>2. QED
    BY <1>8, <1>11, <2>1, EmitIs
<1>13. t = Finish(c, d)
  BY <1>2, <1>3, <1>5, <1>6, <1>11
<1>14. ~e.failed => \A u \in DOMAIN i.uses : \E j \in DOMAIN e.types : e.types[j].id = i.uses[u]
  BY <1>3, <1>5, <1>9 DEF There
<1>15. c.ok => /\ c.types = Append(e.types, i) /\ c.deco = e.deco
               /\ d \in DOMAIN Capability => c.caps = Append(e.caps, Capability[d])
               /\ d \notin DOMAIN Capability => c.caps = e.caps
  BY <1>1, <1>12
<1>16. Good(t) /\ Grows(e, t) /\ Gives(e, t, d)
  <2> HIDE DEF InstrT
  <2>1. QED
    BY <1>1, <1>8, <1>10, <1>12, <1>13, <1>14, <1>15, GoodFinish
<1>17. Grows(s, t)
  BY <1>16, GrowsOn
<1>18. Gives(s, t, d)
  BY <1>16 DEF Gives
<1>19. QED
  BY <1>16, <1>17, <1>18

LEMMA DefaultIs ==
    ASSUME NEW s, Good(s), NEW d \in DefaultNames \ {"FN_VOID"}, NEW t, t = Default(s, d)
    PROVE  Good(t) /\ Grows(s, t) /\ Gives(s, t, d)
<1>1. CASE d \in s.defaults
  <2>1. t = Ret(s, DefaultId(d))
    BY <1>1 DEF Default
  <2>2. QED
    BY <1>1, <2>1, KnownDefault
<1>2. CASE d \notin s.defaults /\ d \notin DOMAIN Pointee \cup Interfaces
  <2>1. t = Base(s, d)
    BY <1>2 DEF Default
  <2>2. d \in Bases \cup {"VOID"}
    BY <1>2, BasesOK
  <2>3. QED
    BY <2>1, <2>2, BaseIs
<1>3. CASE d \notin s.defaults /\ d \in DOMAIN Pointee
  <2>1. PICK b \in Bases \cup {"VOID"} : b = Pointee[d]
    BY <1>3, PointeeOK
  <2>2. PICK e : e = Base(s, b)
    OBVIOUS
  <2>3. d \notin Interfaces /\ d # b
    BY <1>3, <2>1, BasesOK
  <2>4. /\ e.ret = 0 => t = e
        /\ e.ret # 0 =>
            t = Finish(Emit(e, Instr("", 0, "TypePointer", DefaultId(d), "Function", << e.ret >>)), d)
    BY <1>3, <2>1, <2>2, <2>3 DEF Default
  <2>5. /\ Good(e) /\ Grows(s, e) /\ Gives(s, e, b) /\ e.ret \in Nat
        /\ e.defaults \subseteq s.defaults \cup {b}
    BY <2>2, BaseIs
  <2>6. CASE e.ret = 0
    BY <2>4, <2>5, <2>6 DEF Gives
  <2>7. CASE e.ret # 0
    <3>1. d \notin e.defaults /\ (e.failed => s.failed) /\ e.ret = DefaultId(Pointee[d])
      BY <1>3, <2>1, <2>3, <2>5, <2>7 DEF Gives
    <3>2. ~e.failed => There(e, << e.ret >>)
      <4>1. PICK y \in Nat : y = e.ret
        BY <2>5
      <4>2. ~e.failed => \E j \in DOMAIN e.types : e.types[j].id = y
        BY <2>5, <2>7, <4>1, DefaultThere DEF Gives
      <4>3. ~e.failed => There(e, << y >>)
        BY <4>2, OneThere
      <4>4. QED
        BY <4>1, <4>3
    <3>3. "Function" = DefaultLit(d)
      BY <1>3, BasesOK DEF DefaultLit
    <3>4. QED
      BY <1>3, <2>4, <2>5, <2>7, <3>1, <3>2, <3>3, PointerTypeIs DEF PointerTypes
  <2>8. QED
    BY <2>6, <2>7
<1>4. CASE d \notin s.defaults /\ d \in Interfaces
  <2>1. PICK e : e = Vec32(s, 4)
    OBVIOUS
  <2>2. d \notin DOMAIN Pointee /\ d # "U32"
    BY <1>4, BasesOK DEF Interfaces
  <2>3. /\ e.ret = 0 => t = e
        /\ e.ret # 0 => t = Finish(Emit(e, Instr("", 0, "TypePointer", DefaultId(d), d, << e.ret >>)), d)
    BY <1>4, <2>1 DEF Default
  <2>4. /\ Makes(s, e, 4, "vec32") /\ (e.failed /\ ~s.failed => e.ret = 0)
        /\ e.defaults \subseteq s.defaults \cup {"U32"}
    BY <2>1, Vec32Is
  <2>5. Good(e) /\ Grows(s, e) /\ e.ret \in Nat /\ (e.ret = 0 \/ e.ret = M(e, 4, "vec32"))
    BY <2>4 DEF Makes, Keeps, IsWord
  <2>6. CASE e.ret = 0
    BY <2>3, <2>4, <2>5, <2>6 DEF Gives, Makes
  <2>7. CASE e.ret # 0
    <3>1. d \notin e.defaults /\ (e.failed => s.failed)
      BY <1>4, <2>2, <2>4, <2>7
    <3>2. ~e.failed => There(e, << e.ret >>)
      <4>1. PICK y \in Nat : y = e.ret
        BY <2>5
      <4>2. "vec32" \in Sound
        BY DEF Sound, Kept
      <4>3. ~e.failed => \E j \in DOMAIN e.types : e.types[j].id = y
        BY <2>5, <2>7, <4>1, <4>2, MemoThere
      <4>4. ~e.failed => There(e, << y >>)
        BY <4>3, OneThere
      <4>5. QED
        BY <4>1, <4>4
    <3>3. d = DefaultLit(d)
      BY <1>4, BasesOK DEF DefaultLit
    <3>4. QED
      BY <1>4, <2>2, <2>3, <2>5, <2>7, <3>1, <3>2, <3>3, PointerTypeIs DEF PointerTypes
  <2>8. QED
    BY <2>6, <2>7
<1>5. QED
  BY <1>1, <1>2, <1>3, <1>4

LEMMA FnVoidIs ==
    ASSUME NEW s, Good(s), NEW t, t = FnVoid(Base(s, "VOID"))
    PROVE  Good(t) /\ Grows(s, t)
<1>1. PICK v : v = Base(s, "VOID")
  OBVIOUS
<1>2. Good(v) /\ Grows(s, v) /\ Gives(s, v, "VOID")
  BY <1>1, BaseIs
<1>3. PICK d \in DefaultNames : d = "FN_VOID"
  BY DEF DefaultNames
<1>4. CASE d \in v.defaults
  <2>1. t = Ret(v, DefaultId(d))
    BY <1>1, <1>3, <1>4 DEF FnVoid
  <2>2. Good(t) /\ Grows(v, t)
    BY <1>2, <1>4, <2>1, KnownDefault
  <2>3. QED
    BY <1>2, <2>2, GrowsOn
<1>5. CASE d \notin v.defaults
  <2>1. DefaultId("VOID") \in Nat /\ DefaultId(d) \in 1..20
    BY DefaultIdOK DEF DefaultNames
  <2>2. PICK m \in Nat : m = DefaultId(d) /\ m \in 1..20
    BY <2>1
  <2>3. PICK y \in Nat : y = DefaultId("VOID")
    BY <2>1
  <2>4. << y >> \in Seq(Nat)
    OBVIOUS
  <2>5. PICK uses \in Seq(Nat) : uses = << y >>
    BY <2>4
  <2>6. PICK i : i = Instr("", 0, "TypeFunction", m, "", uses)
    OBVIOUS
  <2>7. i \in InstrT
    <3>1. m \in Nat \ {0}
      BY <2>2, SMTT(30)
    <3>2. QED
      BY <2>6, <3>1 DEF InstrT, Instr
  <2>8. i.by = "" /\ i.id = m /\ i.op = "TypeFunction" /\ i.lit = "" /\ i.uses = uses
    BY <2>6 DEF Instr
  <2>9. d \notin DOMAIN Pointee /\ d \notin DOMAIN Capability
    BY <1>3, BasesOK
  <2>10. IsDefault(i, d)
    BY <1>3, <2>2, <2>8, <2>9 DEF IsDefault, DefaultOp, DefaultLit
  <2>11. PICK e : e = Emit(v, i)
    OBVIOUS
  <2>12. /\ e \in CtxT /\ SameNodes(v, e) /\ e.caps = v.caps /\ e.deco = v.deco
         /\ (e.ok => e.types = Append(v.types, i))
    <3> HIDE DEF InstrT
    <3>1. v \in CtxT
      BY <1>2, GoodNext
    <3>2. QED
      BY <2>7, <2>11, <3>1, EmitIs
  <2>13. PICK c : c = IF e.ok THEN Spend(e) ELSE e
    OBVIOUS
  <2>14. /\ c \in CtxT /\ SameNodes(v, c)
         /\ c.ok => c.types = Append(v.types, i) /\ c.deco = v.deco /\ c.caps = v.caps
    <3>1. CASE e.ok
      <4>1. c = Spend(e)
        BY <2>13, <3>1
      <4>2. /\ c \in CtxT
            /\ c.cache = e.cache /\ c.types = e.types /\ c.caps = e.caps /\ c.deco = e.deco
            /\ c.defaults = e.defaults /\ c.next = e.next
            /\ c.failed <=> e.failed \/ Fails(e)
            /\ c.ok <=> ~Fails(e)
            /\ ~Fails(e) => c.failed = e.failed
        BY <2>12, <4>1, SpendIs
      <4>3. QED
        BY <2>12, <3>1, <4>2 DEF SameNodes
    <3>2. CASE ~e.ok
      <4>1. c = e
        BY <2>13, <3>2
      <4>2. QED
        BY <2>12, <3>2, <4>1
    <3>3. QED
      BY <3>1, <3>2
  <2>15. t = Finish(c, d)
    BY <1>1, <1>3, <1>5, <2>2, <2>3, <2>5, <2>6, <2>11, <2>13 DEF FnVoid
  <2>16. ~v.failed => \A u \in DOMAIN i.uses : \E j \in DOMAIN v.types : v.types[j].id = i.uses[u]
    <3>1. ~v.failed => \E j \in DOMAIN v.types : v.types[j].id = y
      BY <1>2, <2>3, DefaultThere DEF Gives
    <3>2. ~v.failed => There(v, << y >>)
      BY <3>1, OneThere
    <3>3. QED
      BY <2>5, <2>8, <3>2 DEF There
  <2>17. c.ok => /\ c.types = Append(v.types, i) /\ c.deco = v.deco
                 /\ d \in DOMAIN Capability => c.caps = Append(v.caps, Capability[d])
                 /\ d \notin DOMAIN Capability => c.caps = v.caps
    BY <2>9, <2>14
  <2>18. Good(t) /\ Grows(v, t)
    <3> HIDE DEF InstrT
    <3>1. QED
      BY <1>2, <1>5, <2>7, <2>10, <2>14, <2>15, <2>16, <2>17, GoodFinish
  <2>19. QED
    BY <1>2, <2>18, GrowsOn
<1>6. QED
  BY <1>4, <1>5
------------------------------------------------------------------------------
(***************************************************************************)
(* The calls.                                                              *)
(***************************************************************************)
Started(s, fuel, trash) == [s EXCEPT !.fuel = fuel, !.trash = trash]

LEMMA StartedIs ==
    ASSUME NEW s, Good(s), NEW fuel \in Nat, NEW trash \in BOOLEAN, NEW t, t = Started(s, fuel, trash)
    PROVE  Good(t) /\ Grows(s, t) /\ t.failed = s.failed
<1>1. Shape(s) /\ s \in CtxT
  BY GoodNext
<1>2. t \in CtxT /\ t.cache = s.cache /\ SameTypes(s, t)
  <2> HIDE DEF InstrT, NodeT, CapNames, Whats, DefaultNames
  <2>1. QED
    BY <1>1 DEF Started, CtxT, SameTypes
<1>3. Shape(t)
  BY <1>1, <1>2 DEF Shape, SameTypes
<1>4. SameMemos(s, t)
  BY <1>2, SameCache DEF SameMemos
<1>5. QED
  BY <1>2, <1>3, <1>4, GoodSame DEF SameTypes

Leaves == {"val", "spec", "vec32", "default"}

\* What a maker answers once and for all while nothing fails.
Recall(s, f, k) == IF f \in Words /\ k = 1 THEN DefaultId(WordOf(f)) ELSE M(s, k, f)

\* What a call from s leaves in t.
Outcome(s, t, name, k) ==
    /\ Done(s, t)
    /\ name \in Leaves /\ t.failed /\ ~s.failed => t.ret = 0
    /\ name = "default" /\ t.ret # 0 => t.ret = k
    /\ name \in Kept /\ ~t.failed /\ t.ret # 0 => t.ret = Recall(t, name, k)

\* A call from outside, that the maker turned from s into t.
Taken(name, k, s, t) ==
    /\ calls < MaxCalls
    /\ calls' = calls + 1
    /\ \E fuel \in Nat, trash \in BOOLEAN : s = Started(ctx, fuel, trash)
    /\ ctx' = Returned(t)
    /\ asked' = asked \cup {[call |-> name, key |-> k, ret |-> t.ret, failed |-> t.failed /\ ~ctx.failed]}

AnswerOK(s, a) ==
    /\ a.call \in Leaves /\ a.failed => a.ret = 0
    /\ a.call = "default" /\ a.ret # 0 => a.ret = a.key
    /\ a.call \in Kept /\ a.ret # 0 /\ ~s.failed => a.key \in Nat /\ a.ret = Recall(s, a.call, a.key)

IInv ==
    /\ Good(ctx)
    /\ calls \in 0..MaxCalls
    /\ \A a \in asked : AnswerOK(ctx, a)

\* An answer given stays the answer.
LEMMA RecallKept ==
    ASSUME NEW s, NEW t, Grows(s, t), NEW a, AnswerOK(s, a)
    PROVE  AnswerOK(t, a)
<1>1. SUFFICES ASSUME a.call \in Kept, a.ret # 0, ~t.failed
               PROVE  a.key \in Nat /\ a.ret = Recall(t, a.call, a.key)
  BY DEF AnswerOK
<1>2. a.key \in Nat /\ a.ret = Recall(s, a.call, a.key) /\ MemosGrow(s, t)
  BY <1>1 DEF AnswerOK, Grows
<1>3. PICK f \in Kept : f = a.call
  BY <1>1
<1>4. PICK k \in Nat : k = a.key
  BY <1>2
<1>5. M(s, k, f) # 0 => M(t, k, f) = M(s, k, f)
  BY <1>2 DEF MemosGrow
<1>6. Recall(s, f, k) # 0 => Recall(t, f, k) = Recall(s, f, k)
  BY <1>5 DEF Recall
<1>7. QED
  BY <1>1, <1>2, <1>3, <1>4, <1>6

LEMMA CallKeeps ==
    ASSUME IInv, NEW name, NEW k, name \in Kept => k \in Nat, NEW s, NEW t, Taken(name, k, s, t),
           Good(s) => Outcome(s, t, name, k)
    PROVE  IInv'
<1>1. Good(s) /\ Grows(ctx, s) /\ s.failed = ctx.failed
  <2>1. PICK fuel \in Nat, trash \in BOOLEAN : s = Started(ctx, fuel, trash)
    BY DEF Taken
  <2>2. QED
    BY <2>1, StartedIs DEF IInv
<1>2. PICK r : r = Returned(t) /\ ctx' = r
  BY DEF Taken
<1>3. Good(r) /\ Grows(s, r) /\ r.failed = t.failed /\ SameView(t, r)
  BY <1>1, <1>2 DEF Outcome, Done
<1>4. Grows(ctx, r)
  BY <1>1, <1>3, GrowsOn DEF IInv
<1>5. \A a \in asked : AnswerOK(r, a)
  BY <1>4, RecallKept DEF IInv
<1>6. PICK a : a = [call |-> name, key |-> k, ret |-> t.ret, failed |-> t.failed /\ ~ctx.failed]
               /\ asked' = asked \cup {a}
  BY DEF Taken
<1>7. a.call = name /\ a.key = k /\ a.ret = t.ret /\ (a.failed <=> t.failed /\ ~s.failed)
  BY <1>1, <1>6
<1>8. AnswerOK(r, a)
  <2>1. name \in Leaves /\ a.failed => a.ret = 0
    BY <1>1, <1>7 DEF Outcome
  <2>2. name = "default" /\ a.ret # 0 => a.ret = k
    BY <1>1, <1>7 DEF Outcome
  <2>3. ASSUME name \in Kept, a.ret # 0, ~r.failed PROVE a.ret = Recall(r, name, k)
    <3>1. a.ret = Recall(t, name, k)
      BY <1>1, <1>3, <1>7, <2>3 DEF Outcome
    <3>2. M(r, k, name) = M(t, k, name)
      BY <1>3, <2>3 DEF SameView, Kept, Fields
    <3>3. QED
      BY <3>1, <3>2 DEF Recall
  <2>4. QED
    BY <1>7, <2>1, <2>2, <2>3 DEF AnswerOK
<1>9. calls' \in 0..MaxCalls
  BY CallAssumption DEF IInv, Taken
<1>10. QED
  BY <1>2, <1>3, <1>5, <1>6, <1>8, <1>9 DEF IInv

\* The makers keep their promises to a caller from outside.
LEMMA MakesOutcome ==
    ASSUME NEW s, Good(s), NEW k \in Nat, NEW f \in Kept, NEW t, Makes(s, t, k, f),
           f \in Leaves /\ t.failed /\ ~s.failed => t.ret = 0
    PROVE  Outcome(s, t, f, k)
<1>1. Good(t) /\ Grows(s, t)
  BY DEF Makes, Keeps
<1>2. Done(s, t)
  BY <1>1, ReturnedIs
<1>3. f # "default"
  BY DEF Kept
<1>4. ASSUME ~t.failed, t.ret # 0 PROVE t.ret = Recall(t, f, k)
  <2>1. CASE IsWord(t, k, f)
    BY <2>1 DEF IsWord, Recall
  <2>2. CASE ~IsWord(t, k, f) /\ f \in Words /\ k = 1
    <3>1. t.ret = M(t, k, f)
      BY <1>4, <2>2 DEF Makes
    <3>2. f \in Sound
      BY <2>2 DEF Words, Sound, Kept
    <3>3. MadeOK(t)
      BY <1>1, <1>4 DEF Good, Intended
    <3>4. f = "arr32" /\ M(t, k, f) = U32
      BY <1>4, <2>2, <3>1, <3>2, <3>3 DEF MadeOK, IsMade
    <3>5. QED
      BY <2>2, <3>1, <3>4 DEF Recall, WordOf, U32
  <2>3. CASE ~IsWord(t, k, f) /\ ~(f \in Words /\ k = 1)
    BY <1>4, <2>3 DEF Makes, Recall
  <2>4. QED
    BY <2>1, <2>2, <2>3
<1>5. QED
  BY <1>2, <1>3, <1>4 DEF Outcome

LEMMA DoneOutcome ==
    ASSUME NEW s, NEW t, NEW name, NEW k, name \notin Kept \cup Leaves, Done(s, t)
    PROVE  Outcome(s, t, name, k)
BY DEF Outcome, Leaves

LEMMA InitGood == ASSUME Init PROVE IInv
<1>1. /\ ctx.cache = << >> /\ ctx.types = << >> /\ ctx.caps = << >> /\ ctx.deco = {}
      /\ ctx.defaults = {} /\ ctx.next = EndId /\ ctx.failed = FALSE
  BY DEF Init, NoContext
<1>2. EndId = 21
  BY DefaultsAre
<1>3. ctx \in CtxT
  <2>1. << >> \in Seq(NodeT) /\ << >> \in Seq(InstrT) /\ << >> \in Seq(CapNames)
    OBVIOUS
  <2>2. EndId \in Nat
    BY <1>2
  <2>3. QED
    <3> HIDE DEF InstrT, NodeT, CapNames, Whats, DefaultNames
    <3>1. QED
      BY <2>1, <2>2 DEF Init, NoContext, CtxT
<1>4. DOMAIN ctx.cache = {} /\ DOMAIN ctx.types = {} /\ DOMAIN ctx.caps = {}
  <2>1. DOMAIN << >> = {}
    OBVIOUS
  <2>2. QED
    BY <1>1, <2>1
<1>5. Shape(ctx)
  BY <1>1, <1>2, <1>3, <1>4 DEF Shape, Sorted
<1>6. \A k \in Nat, f \in Fields : M(ctx, k, f) = 0
  <2> SUFFICES ASSUME NEW k \in Nat, NEW f \in Fields PROVE M(ctx, k, f) = 0
    OBVIOUS
  <2>1. ~Holds(ctx, k)
    BY <1>4, <1>5, IndexOK
  <2>2. QED
    BY <2>1 DEF M
<1>7. \A k \in Nat, f \in Kept : M(ctx, k, f) = 0
  BY <1>6 DEF Fields, Kept
<1>8. MemosOK(ctx)
  BY <1>1, <1>2, <1>7 DEF MemosOK
<1>9. IdsOK(ctx) /\ UsesOK(ctx) /\ KnownOK(ctx)
  BY <1>4 DEF IdsOK, UsesOK, KnownOK
<1>10. MadeOK(ctx) /\ DecoOK(ctx) /\ CapsOK(ctx)
  <2>1. MadeOK(ctx)
    BY <1>1, <1>7 DEF MadeOK, Sound
  <2>2. DecoOK(ctx)
    BY <1>1, <1>4 DEF DecoOK
  <2>3. CapsOK(ctx)
    BY <1>1, <1>4 DEF CapsOK
  <2>4. QED
    BY <2>1, <2>2, <2>3
<1>11. Good(ctx)
  BY <1>5, <1>8, <1>9, <1>10 DEF Good, Intended
<1>12. asked = {} /\ calls = 0
  BY DEF Init
<1>13. QED
  BY <1>11, <1>12, CallAssumption DEF IInv

\* Every call is one of the kind above.
LEMMA FuelOK == ASSUME NEW fuel \in 0..MaxFuel PROVE fuel \in Nat
BY CallAssumption

LEMMA MkValKeeps == ASSUME IInv, NEW k \in Nat, MkVal(k) PROVE IInv'
<1>1. PICK s : Taken("val", k, s, Val(s, k))
  BY FuelOK, Zenon DEF MkVal, Call, Taken, Started
<1>2. PICK t : t = Val(s, k)
  OBVIOUS
<1>3. Taken("val", k, s, t)
  BY <1>1, <1>2
<1>4. ASSUME Good(s) PROVE Outcome(s, t, "val", k)
  <2>1. PICK f \in Kept : f = "val"
    BY DEF Kept
  <2>2. Makes(s, t, k, f) /\ (f \in Leaves /\ t.failed /\ ~s.failed => t.ret = 0)
    BY <1>2, <1>4, <2>1, ValIs DEF Leaves
  <2>3. QED
    BY <1>4, <2>1, <2>2, MakesOutcome
<1>5. QED
  BY <1>3, <1>4, CallKeeps

LEMMA MkSpec32Keeps == ASSUME IInv, NEW k \in Nat, NEW val \in Nat, MkSpec32(k, val) PROVE IInv'
<1>1. PICK s : Taken("spec", k, s, Spec32(s, k, val))
  BY FuelOK, Zenon DEF MkSpec32, Call, Taken, Started
<1>2. PICK t : t = Spec32(s, k, val)
  OBVIOUS
<1>3. Taken("spec", k, s, t)
  BY <1>1, <1>2
<1>4. ASSUME Good(s) PROVE Outcome(s, t, "spec", k)
  <2>1. PICK f \in Kept : f = "spec"
    BY DEF Kept
  <2>2. Makes(s, t, k, f) /\ (f \in Leaves /\ t.failed /\ ~s.failed => t.ret = 0)
    BY <1>2, <1>4, <2>1, Spec32Is DEF Leaves
  <2>3. QED
    BY <1>4, <2>1, <2>2, MakesOutcome
<1>5. QED
  BY <1>3, <1>4, CallKeeps

LEMMA MkVec32Keeps == ASSUME IInv, NEW k \in Nat, MkVec32(k) PROVE IInv'
<1>1. PICK s : Taken("vec32", k, s, Vec32(s, k))
  BY FuelOK, Zenon DEF MkVec32, Call, Taken, Started
<1>2. PICK t : t = Vec32(s, k)
  OBVIOUS
<1>3. Taken("vec32", k, s, t)
  BY <1>1, <1>2
<1>4. ASSUME Good(s) PROVE Outcome(s, t, "vec32", k)
  <2>1. PICK f \in Kept : f = "vec32"
    BY DEF Kept
  <2>2. Makes(s, t, k, f) /\ (f \in Leaves /\ t.failed /\ ~s.failed => t.ret = 0)
    BY <1>2, <1>4, <2>1, Vec32Is DEF Leaves
  <2>3. QED
    BY <1>4, <2>1, <2>2, MakesOutcome
<1>5. QED
  BY <1>3, <1>4, CallKeeps

LEMMA MkArr8Keeps == ASSUME IInv, NEW k \in Nat, MkArr8(k) PROVE IInv'
<1>1. PICK s : Taken("arr8", k, s, Arr(s, k, "arr8", "U8"))
  BY FuelOK, Zenon DEF MkArr8, Call, Taken, Started
<1>2. PICK t : t = Arr(s, k, "arr8", "U8")
  OBVIOUS
<1>3. Taken("arr8", k, s, t)
  BY <1>1, <1>2
<1>4. ASSUME Good(s) PROVE Outcome(s, t, "arr8", k)
  <2>1. PICK f \in Kept : f = "arr8"
    BY DEF Kept
  <2>2. f \notin Leaves /\ t = Arr(s, k, f, WordOf(f))
    <3>1. f \notin Leaves
      BY <2>1 DEF Leaves
    <3>2. WordOf(f) = "U8"
      BY <2>1 DEF WordOf
    <3>3. QED
      BY <1>2, <2>1, <3>1, <3>2
  <2>3. Makes(s, t, k, f)
    BY <1>4, <2>1, <2>2, ArrIs
  <2>4. QED
    BY <1>4, <2>1, <2>2, <2>3, MakesOutcome
<1>5. QED
  BY <1>3, <1>4, CallKeeps

LEMMA MkArr16Keeps == ASSUME IInv, NEW k \in Nat, MkArr16(k) PROVE IInv'
<1>1. PICK s : Taken("arr16", k, s, Arr(s, k, "arr16", "U16"))
  BY FuelOK, Zenon DEF MkArr16, Call, Taken, Started
<1>2. PICK t : t = Arr(s, k, "arr16", "U16")
  OBVIOUS
<1>3. Taken("arr16", k, s, t)
  BY <1>1, <1>2
<1>4. ASSUME Good(s) PROVE Outcome(s, t, "arr16", k)
  <2>1. PICK f \in Kept : f = "arr16"
    BY DEF Kept
  <2>2. f \notin Leaves /\ t = Arr(s, k, f, WordOf(f))
    <3>1. f \notin Leaves
      BY <2>1 DEF Leaves
    <3>2. WordOf(f) = "U16"
      BY <2>1 DEF WordOf
    <3>3. QED
      BY <1>2, <2>1, <3>1, <3>2
  <2>3. Makes(s, t, k, f)
    BY <1>4, <2>1, <2>2, ArrIs
  <2>4. QED
    BY <1>4, <2>1, <2>2, <2>3, MakesOutcome
<1>5. QED
  BY <1>3, <1>4, CallKeeps

LEMMA MkArr32Keeps == ASSUME IInv, NEW k \in Nat, MkArr32(k) PROVE IInv'
<1>1. PICK s : Taken("arr32", k, s, Arr32(s, k))
  BY FuelOK, Zenon DEF MkArr32, Call, Taken, Started
<1>2. PICK t : t = Arr32(s, k)
  OBVIOUS
<1>3. Taken("arr32", k, s, t)
  BY <1>1, <1>2
<1>4. ASSUME Good(s) PROVE Outcome(s, t, "arr32", k)
  <2>1. PICK f \in Kept : f = "arr32"
    BY DEF Kept
  <2>2. Makes(s, t, k, f) /\ (f \in Leaves /\ t.failed /\ ~s.failed => t.ret = 0)
    BY <1>2, <1>4, <2>1, Arr32Is DEF Leaves
  <2>3. QED
    BY <1>4, <2>1, <2>2, MakesOutcome
<1>5. QED
  BY <1>3, <1>4, CallKeeps

LEMMA MkArrSpec32Keeps == ASSUME IInv, NEW k \in Nat, NEW val \in Nat, MkArrSpec32(k, val) PROVE IInv'
<1>1. PICK s : Taken("arrspec32", k, s, ArrSpec32(s, k, val))
  BY FuelOK, Zenon DEF MkArrSpec32, Call, Taken, Started
<1>2. PICK t : t = ArrSpec32(s, k, val)
  OBVIOUS
<1>3. Taken("arrspec32", k, s, t)
  BY <1>1, <1>2
<1>4. ASSUME Good(s) PROVE Outcome(s, t, "arrspec32", k)
  <2>1. PICK f \in Kept : f = "arrspec32"
    BY DEF Kept
  <2>2. Makes(s, t, k, f) /\ (f \in Leaves /\ t.failed /\ ~s.failed => t.ret = 0)
    BY <1>2, <1>4, <2>1, ArrSpec32Is DEF Leaves
  <2>3. QED
    BY <1>4, <2>1, <2>2, MakesOutcome
<1>5. QED
  BY <1>3, <1>4, CallKeeps

LEMMA MkArr128Keeps == ASSUME IInv, NEW k \in Nat, MkArr128(k) PROVE IInv'
<1>1. PICK s : Taken("arr128", k, s, Arr128(s, k))
  BY FuelOK, Zenon DEF MkArr128, Call, Taken, Started
<1>2. PICK t : t = Arr128(s, k)
  OBVIOUS
<1>3. Taken("arr128", k, s, t)
  BY <1>1, <1>2
<1>4. ASSUME Good(s) PROVE Outcome(s, t, "arr128", k)
  <2>1. Loose(s, t, k)
    BY <1>2, <1>4, Arr128Is
  <2>2. Done(s, t)
    BY <1>4, <2>1, ReturnedIs DEF Loose
  <2>3. "arr128" \notin Kept \cup Leaves
    BY DEF Kept, Leaves
  <2>4. QED
    BY <2>2, <2>3, DoneOutcome
<1>5. QED
  BY <1>3, <1>4, CallKeeps

LEMMA MkStructKeeps == ASSUME IInv, NEW k \in Nat, MkStruct(k) PROVE IInv'
<1>1. PICK s : Taken("struct", k, s, Struct(s, k))
  BY FuelOK, Zenon DEF MkStruct, Call, Taken, Started
<1>2. PICK t : t = Struct(s, k)
  OBVIOUS
<1>3. Taken("struct", k, s, t)
  BY <1>1, <1>2
<1>4. ASSUME Good(s) PROVE Outcome(s, t, "struct", k)
  <2>1. PICK f \in Kept : f = "struct"
    BY DEF Kept
  <2>2. Makes(s, t, k, f) /\ (f \in Leaves /\ t.failed /\ ~s.failed => t.ret = 0)
    BY <1>2, <1>4, <2>1, StructIs DEF Leaves
  <2>3. QED
    BY <1>4, <2>1, <2>2, MakesOutcome
<1>5. QED
  BY <1>3, <1>4, CallKeeps

LEMMA MkStruct128Keeps == ASSUME IInv, NEW k \in Nat, MkStruct128(k) PROVE IInv'
<1>1. PICK s : Taken("struct128", k, s, Struct128(s, k))
  BY FuelOK, Zenon DEF MkStruct128, Call, Taken, Started
<1>2. PICK t : t = Struct128(s, k)
  OBVIOUS
<1>3. Taken("struct128", k, s, t)
  BY <1>1, <1>2
<1>4. ASSUME Good(s) PROVE Outcome(s, t, "struct128", k)
  <2>1. Loose(s, t, k)
    BY <1>2, <1>4, Struct128Is
  <2>2. Done(s, t)
    BY <1>4, <2>1, ReturnedIs DEF Loose
  <2>3. "struct128" \notin Kept \cup Leaves
    BY DEF Kept, Leaves
  <2>4. QED
    BY <2>2, <2>3, DoneOutcome
<1>5. QED
  BY <1>3, <1>4, CallKeeps

LEMMA MkStructPrivKeeps == ASSUME IInv, NEW k \in Nat, MkStructPriv(k) PROVE IInv'
<1>1. PICK s : Taken("structpriv", k, s, StructPriv(s, k))
  BY FuelOK, Zenon DEF MkStructPriv, Call, Taken, Started
<1>2. PICK t : t = StructPriv(s, k)
  OBVIOUS
<1>3. Taken("structpriv", k, s, t)
  BY <1>1, <1>2
<1>4. ASSUME Good(s) PROVE Outcome(s, t, "structpriv", k)
  <2>1. PICK f \in Kept : f = "structpriv"
    BY DEF Kept
  <2>2. Makes(s, t, k, f) /\ (f \in Leaves /\ t.failed /\ ~s.failed => t.ret = 0)
    BY <1>2, <1>4, <2>1, StructPrivIs DEF Leaves
  <2>3. QED
    BY <1>4, <2>1, <2>2, MakesOutcome
<1>5. QED
  BY <1>3, <1>4, CallKeeps

LEMMA MkStructPrivSpecKeeps == ASSUME IInv, NEW k \in Nat, NEW val \in Nat, MkStructPrivSpec(k, val) PROVE IInv'
<1>1. PICK s : Taken("structprivspec", k, s, StructPrivSpec(s, k, val))
  BY FuelOK, Zenon DEF MkStructPrivSpec, Call, Taken, Started
<1>2. PICK t : t = StructPrivSpec(s, k, val)
  OBVIOUS
<1>3. Taken("structprivspec", k, s, t)
  BY <1>1, <1>2
<1>4. ASSUME Good(s) PROVE Outcome(s, t, "structprivspec", k)
  <2>1. PICK f \in Kept : f = "structprivspec"
    BY DEF Kept
  <2>2. Makes(s, t, k, f) /\ (f \in Leaves /\ t.failed /\ ~s.failed => t.ret = 0)
    BY <1>2, <1>4, <2>1, StructPrivSpecIs DEF Leaves
  <2>3. QED
    BY <1>4, <2>1, <2>2, MakesOutcome
<1>5. QED
  BY <1>3, <1>4, CallKeeps

LEMMA MkPtrPshKeeps == ASSUME IInv, NEW k \in Nat, MkPtrPsh(k) PROVE IInv'
<1>1. PICK s : Taken("ptr_psh", k, s, Pointer(s, k, "ptr_psh", "struct", Struct(Node(s, k), k), "PushConstant"))
  BY FuelOK, Zenon DEF MkPtrPsh, Call, Taken, Started
<1>2. PICK t : t = Pointer(s, k, "ptr_psh", "struct", Struct(Node(s, k), k), "PushConstant")
  OBVIOUS
<1>3. Taken("ptr_psh", k, s, t)
  BY <1>1, <1>2
<1>4. ASSUME Good(s) PROVE Outcome(s, t, "ptr_psh", k)
  <2>1. PICK f \in Kept : f = "ptr_psh"
    BY DEF Kept
  <2>2. f \notin Leaves /\ t = Pointer(s, k, f, "struct", Struct(Node(s, k), k), LitOf(f, k))
    <3>1. f \notin Leaves
      BY <2>1 DEF Leaves
    <3>2. LitOf(f, k) = "PushConstant"
      BY <2>1 DEF LitOf
    <3>3. QED
      BY <1>2, <2>1, <3>1, <3>2
  <2>3. Makes(s, t, k, f)
    BY <1>4, <2>1, <2>2, StructPointerIs
  <2>4. QED
    BY <1>4, <2>1, <2>2, <2>3, MakesOutcome
<1>5. QED
  BY <1>3, <1>4, CallKeeps

LEMMA MkPtrStorageKeeps == ASSUME IInv, NEW k \in Nat, MkPtrStorage(k) PROVE IInv'
<1>1. PICK s : Taken("ptr_storage", k, s, Pointer(s, k, "ptr_storage", "struct", Struct(Node(s, k), k), "StorageBuffer"))
  BY FuelOK, Zenon DEF MkPtrStorage, Call, Taken, Started
<1>2. PICK t : t = Pointer(s, k, "ptr_storage", "struct", Struct(Node(s, k), k), "StorageBuffer")
  OBVIOUS
<1>3. Taken("ptr_storage", k, s, t)
  BY <1>1, <1>2
<1>4. ASSUME Good(s) PROVE Outcome(s, t, "ptr_storage", k)
  <2>1. PICK f \in Kept : f = "ptr_storage"
    BY DEF Kept
  <2>2. f \notin Leaves /\ t = Pointer(s, k, f, "struct", Struct(Node(s, k), k), LitOf(f, k))
    <3>1. f \notin Leaves
      BY <2>1 DEF Leaves
    <3>2. LitOf(f, k) = "StorageBuffer"
      BY <2>1 DEF LitOf
    <3>3. QED
      BY <1>2, <2>1, <3>1, <3>2
  <2>3. Makes(s, t, k, f)
    BY <1>4, <2>1, <2>2, StructPointerIs
  <2>4. QED
    BY <1>4, <2>1, <2>2, <2>3, MakesOutcome
<1>5. QED
  BY <1>3, <1>4, CallKeeps

LEMMA MkPtrKeeps == ASSUME IInv, NEW k \in Nat, MkPtr(k) PROVE IInv'
<1>1. PICK s : Taken("ptr", k, s, Pointer(s, k, "ptr", "structpriv", StructPriv(Node(s, k), k), "Private"))
  BY FuelOK, Zenon DEF MkPtr, Call, Taken, Started
<1>2. PICK t : t = Pointer(s, k, "ptr", "structpriv", StructPriv(Node(s, k), k), "Private")
  OBVIOUS
<1>3. Taken("ptr", k, s, t)
  BY <1>1, <1>2
<1>4. ASSUME Good(s) PROVE Outcome(s, t, "ptr", k)
  <2>1. PICK f \in Kept : f = "ptr"
    BY DEF Kept
  <2>2. f \notin Leaves /\ t = Pointer(s, k, f, "structpriv", StructPriv(Node(s, k), k), LitOf(f, k))
    <3>1. f \notin Leaves
      BY <2>1 DEF Leaves
    <3>2. LitOf(f, k) = "Private"
      BY <2>1 DEF LitOf
    <3>3. QED
      BY <1>2, <2>1, <3>1, <3>2
  <2>3. Makes(s, t, k, f)
    BY <1>4, <2>1, <2>2, StructPrivPointerIs
  <2>4. QED
    BY <1>4, <2>1, <2>2, <2>3, MakesOutcome
<1>5. QED
  BY <1>3, <1>4, CallKeeps

LEMMA MkPtrFuncKeeps == ASSUME IInv, NEW k \in Nat, MkPtrFunc(k) PROVE IInv'
<1>1. PICK s : Taken("ptr_func", k, s, Pointer(s, k, "ptr_func", "structpriv", StructPriv(Node(s, k), k), "Function"))
  BY FuelOK, Zenon DEF MkPtrFunc, Call, Taken, Started
<1>2. PICK t : t = Pointer(s, k, "ptr_func", "structpriv", StructPriv(Node(s, k), k), "Function")
  OBVIOUS
<1>3. Taken("ptr_func", k, s, t)
  BY <1>1, <1>2
<1>4. ASSUME Good(s) PROVE Outcome(s, t, "ptr_func", k)
  <2>1. PICK f \in Kept : f = "ptr_func"
    BY DEF Kept
  <2>2. f \notin Leaves /\ t = Pointer(s, k, f, "structpriv", StructPriv(Node(s, k), k), LitOf(f, k))
    <3>1. f \notin Leaves
      BY <2>1 DEF Leaves
    <3>2. LitOf(f, k) = "Function"
      BY <2>1 DEF LitOf
    <3>3. QED
      BY <1>2, <2>1, <3>1, <3>2
  <2>3. Makes(s, t, k, f)
    BY <1>4, <2>1, <2>2, StructPrivPointerIs
  <2>4. QED
    BY <1>4, <2>1, <2>2, <2>3, MakesOutcome
<1>5. QED
  BY <1>3, <1>4, CallKeeps

LEMMA MkPtrWorkKeeps == ASSUME IInv, NEW k \in Nat, MkPtrWork(k) PROVE IInv'
<1>1. PICK s : Taken("ptr_work", k, s, Pointer(s, k, "ptr_work", "structpriv", StructPriv(Node(s, k), k), "Workgroup"))
  BY FuelOK, Zenon DEF MkPtrWork, Call, Taken, Started
<1>2. PICK t : t = Pointer(s, k, "ptr_work", "structpriv", StructPriv(Node(s, k), k), "Workgroup")
  OBVIOUS
<1>3. Taken("ptr_work", k, s, t)
  BY <1>1, <1>2
<1>4. ASSUME Good(s) PROVE Outcome(s, t, "ptr_work", k)
  <2>1. PICK f \in Kept : f = "ptr_work"
    BY DEF Kept
  <2>2. f \notin Leaves /\ t = Pointer(s, k, f, "structpriv", StructPriv(Node(s, k), k), LitOf(f, k))
    <3>1. f \notin Leaves
      BY <2>1 DEF Leaves
    <3>2. LitOf(f, k) = "Workgroup"
      BY <2>1 DEF LitOf
    <3>3. QED
      BY <1>2, <2>1, <3>1, <3>2
  <2>3. Makes(s, t, k, f)
    BY <1>4, <2>1, <2>2, StructPrivPointerIs
  <2>4. QED
    BY <1>4, <2>1, <2>2, <2>3, MakesOutcome
<1>5. QED
  BY <1>3, <1>4, CallKeeps

LEMMA MkPtrUniformKeeps == ASSUME IInv, NEW k \in Nat, MkPtrUniform(k) PROVE IInv'
<1>1. PICK s : Taken("ptr_uniform", k, s, PointerUniform(s, k, "ptr_uniform", "Uniform"))
  BY FuelOK, Zenon DEF MkPtrUniform, Call, Taken, Started
<1>2. PICK t : t = PointerUniform(s, k, "ptr_uniform", "Uniform")
  OBVIOUS
<1>3. Taken("ptr_uniform", k, s, t)
  BY <1>1, <1>2
<1>4. ASSUME Good(s) PROVE Outcome(s, t, "ptr_uniform", k)
  <2>1. PICK class \in Classes : class = "Uniform"
    BY DEF Classes
  <2>2. Done(s, t)
    BY <1>2, <1>4, <2>1, PointerUniformDone
  <2>3. "ptr_uniform" \notin Kept \cup Leaves
    BY DEF Kept, Leaves
  <2>4. QED
    BY <2>2, <2>3, DoneOutcome
<1>5. QED
  BY <1>3, <1>4, CallKeeps

LEMMA MkPtrUniformConstKeeps == ASSUME IInv, NEW k \in Nat, MkPtrUniformConst(k) PROVE IInv'
<1>1. PICK s : Taken("ptr_uniformconst", k, s, PointerUniform(s, k, "ptr_uniformconst", "UniformConstant"))
  BY FuelOK, Zenon DEF MkPtrUniformConst, Call, Taken, Started
<1>2. PICK t : t = PointerUniform(s, k, "ptr_uniformconst", "UniformConstant")
  OBVIOUS
<1>3. Taken("ptr_uniformconst", k, s, t)
  BY <1>1, <1>2
<1>4. ASSUME Good(s) PROVE Outcome(s, t, "ptr_uniformconst", k)
  <2>1. PICK class \in Classes : class = "UniformConstant"
    BY DEF Classes
  <2>2. Done(s, t)
    BY <1>2, <1>4, <2>1, PointerUniformDone
  <2>3. "ptr_uniformconst" \notin Kept \cup Leaves
    BY DEF Kept, Leaves
  <2>4. QED
    BY <2>2, <2>3, DoneOutcome
<1>5. QED
  BY <1>3, <1>4, CallKeeps

LEMMA MkPtrWorkSpecKeeps == ASSUME IInv, NEW k \in Nat, NEW val \in Nat, MkPtrWorkSpec(k, val) PROVE IInv'
<1>1. PICK s : Taken("ptr_workspec", k, s, PointerWorkSpec(s, k, val))
  BY FuelOK, Zenon DEF MkPtrWorkSpec, Call, Taken, Started
<1>2. PICK t : t = PointerWorkSpec(s, k, val)
  OBVIOUS
<1>3. Taken("ptr_workspec", k, s, t)
  BY <1>1, <1>2
<1>4. ASSUME Good(s) PROVE Outcome(s, t, "ptr_workspec", k)
  <2>1. PICK f \in Kept : f = "ptr_workspec"
    BY DEF Kept
  <2>2. Makes(s, t, k, f) /\ (f \in Leaves /\ t.failed /\ ~s.failed => t.ret = 0)
    BY <1>2, <1>4, <2>1, PointerWorkSpecIs DEF Leaves
  <2>3. QED
    BY <1>4, <2>1, <2>2, MakesOutcome
<1>5. QED
  BY <1>3, <1>4, CallKeeps

LEMMA MkDefaultKeeps == ASSUME IInv, NEW d \in Wanted, MkDefault(d) PROVE IInv'
<1>1. PICK s : Taken("default", DefaultId(d), s, Default(s, d))
  BY FuelOK, Zenon DEF MkDefault, Call, Taken, Started
<1>2. PICK t : t = Default(s, d)
  OBVIOUS
<1>3. PICK k : k = DefaultId(d)
  OBVIOUS
<1>4. Taken("default", k, s, t)
  BY <1>1, <1>2, <1>3
<1>5. d \in DefaultNames \ {"FN_VOID"}
  BY WantedAssumption, DefaultsAre
<1>6. "default" \notin Kept
  BY DEF Kept
<1>7. ASSUME Good(s) PROVE Outcome(s, t, "default", k)
  <2>1. Good(t) /\ Grows(s, t) /\ Gives(s, t, d)
    BY <1>2, <1>5, <1>7, DefaultIs
  <2>2. Done(s, t)
    BY <1>7, <2>1, ReturnedIs
  <2>3. QED
    BY <1>3, <1>6, <2>1, <2>2 DEF Outcome, Gives
<1>8. QED
  BY <1>4, <1>6, <1>7, CallKeeps

LEMMA DeclareVoidKeeps == ASSUME IInv, DeclareVoid PROVE IInv'
<1>1. PICK s : Taken("void", DefaultId("FN_VOID"), s, FnVoid(Base(s, "VOID")))
  BY FuelOK, Zenon DEF DeclareVoid, Call, Taken, Started
<1>2. PICK t : t = FnVoid(Base(s, "VOID"))
  OBVIOUS
<1>3. Taken("void", DefaultId("FN_VOID"), s, t)
  BY <1>1, <1>2
<1>4. "void" \notin Kept \cup Leaves
  BY DEF Kept, Leaves
<1>5. ASSUME Good(s) PROVE Outcome(s, t, "void", DefaultId("FN_VOID"))
  <2>1. Good(t) /\ Grows(s, t)
    BY <1>2, <1>5, FnVoidIs
  <2>2. Done(s, t)
    BY <1>5, <2>1, ReturnedIs
  <2>3. QED
    BY <1>4, <2>2, DoneOutcome
<1>6. QED
  BY <1>3, <1>4, <1>5, CallKeeps

LEMMA NextKeeps == ASSUME IInv, [Next]_vars PROVE IInv'
<1>1. Keys \subseteq Nat
  BY CallAssumption
<1>2. CASE UNCHANGED vars
  BY <1>2 DEF vars, IInv
<1>3. CASE \E d \in Wanted : MkDefault(d)
  BY <1>3, MkDefaultKeeps
<1>4. CASE DeclareVoid
  BY <1>4, DeclareVoidKeeps
<1>5. CASE Finished
  BY <1>2, <1>5 DEF Finished
<1>6. ASSUME NEW k \in Keys,
             \/ MkVal(k) \/ MkVec32(k)
             \/ MkArr8(k) \/ MkArr16(k) \/ MkArr32(k) \/ MkArr128(k)
             \/ MkStruct(k) \/ MkStruct128(k) \/ MkStructPriv(k)
             \/ MkPtrPsh(k) \/ MkPtrStorage(k) \/ MkPtr(k) \/ MkPtrFunc(k) \/ MkPtrWork(k)
             \/ MkPtrUniform(k) \/ MkPtrUniformConst(k)
      PROVE  IInv'
  <2>1. k \in Nat
    BY <1>1
  <2>2. CASE \/ MkVal(k) \/ MkVec32(k) \/ MkArr8(k) \/ MkArr16(k)
             \/ MkArr32(k)
    BY <2>1, <2>2, MkValKeeps, MkVec32Keeps, MkArr8Keeps, MkArr16Keeps, MkArr32Keeps
  <2>3. CASE \/ MkArr128(k) \/ MkStruct(k) \/ MkStruct128(k) \/ MkStructPriv(k)
    BY <2>1, <2>3, MkArr128Keeps, MkStructKeeps, MkStruct128Keeps, MkStructPrivKeeps
  <2>4. CASE \/ MkPtrPsh(k) \/ MkPtrStorage(k) \/ MkPtr(k) \/ MkPtrFunc(k) \/ MkPtrWork(k)
    BY <2>1, <2>4, MkPtrPshKeeps, MkPtrStorageKeeps, MkPtrKeeps, MkPtrFuncKeeps, MkPtrWorkKeeps
  <2>5. CASE MkPtrUniform(k) \/ MkPtrUniformConst(k)
    BY <2>1, <2>5, MkPtrUniformKeeps, MkPtrUniformConstKeeps
  <2>6. QED
    BY <1>6, <2>2, <2>3, <2>4, <2>5
<1>7. ASSUME NEW k \in Keys, NEW val \in Keys,
             MkSpec32(k, val) \/ MkArrSpec32(k, val) \/ MkStructPrivSpec(k, val) \/ MkPtrWorkSpec(k, val)
      PROVE  IInv'
  <2>1. k \in Nat /\ val \in Nat
    BY <1>1
  <2>2. QED
    BY <1>7, <2>1, MkSpec32Keeps, MkArrSpec32Keeps, MkStructPrivSpecKeeps, MkPtrWorkSpecKeeps
<1>8. QED
  BY <1>2, <1>3, <1>4, <1>5, <1>6, <1>7 DEF Next

\* The inductive invariant, for any keys and any number of calls, with a
\* failing allocation at any point of any call.
THEOREM Inductive == Spec => []IInv
<1>1. Init => IInv
  BY InitGood
<1>2. IInv /\ [Next]_vars => IInv'
  BY NextKeeps
<1>3. QED
  BY <1>1, <1>2, PTL DEF Spec
------------------------------------------------------------------------------
(***************************************************************************)
(* What follows from it.                                                   *)
(***************************************************************************)
LEMMA SoundIs == Fields \ Unsound = Sound /\ Sound \subseteq Kept /\ Sound \subseteq Fields /\ Kept \subseteq Fields
BY DEF Fields, Unsound, Sound, Kept

LEMMA NodeAt ==
    ASSUME NEW s, Shape(s), NEW c \in DOMAIN s.cache, NEW k, k = s.cache[c].key
    PROVE  /\ k \in Nat /\ Holds(s, k) /\ LowerBound(s.cache, k) = c
           /\ \A f \in Fields : M(s, k, f) = s.cache[c].id[f] /\ M(s, k, f) \in Nat
           /\ NodeOf(s, k) = s.cache[c]
<1>1. s.cache[c] \in NodeT /\ k \in Nat
  BY CacheIs DEF NodeT
<1>2. Holds(s, k) /\ LowerBound(s.cache, k) = c
  BY <1>1, IndexOK DEF IndexOf
<1>3. \A f \in Fields : M(s, k, f) = s.cache[c].id[f] /\ M(s, k, f) \in Nat
  BY <1>1, MIs
<1>4. NodeOf(s, k) = s.cache[c]
  <2>1. s.cache[c].id = [f \in Fields |-> s.cache[c].id[f]] /\ s.cache[c] = [key |-> k, id |-> s.cache[c].id]
    BY <1>1 DEF NodeT
  <2>2. [f \in Fields |-> M(s, k, f)] = [f \in Fields |-> s.cache[c].id[f]]
    BY <1>3
  <2>3. QED
    BY <2>1, <2>2 DEF NodeOf
<1>5. QED
  BY <1>1, <1>2, <1>3, <1>4

LEMMA TypeFollows == ASSUME IInv PROVE TypeOK
<1>1. Shape(ctx)
  BY DEF IInv, Good
<1>2. \A i \in DOMAIN ctx.cache : ctx.cache[i] \in NodeT
  BY <1>1, CacheIs
<1>3. \A i \in DOMAIN ctx.types : ctx.types[i].id \in Nat \ {0}
  BY <1>1, TypesAre
<1>4. ctx.next \in Nat /\ ctx.next >= EndId
  BY <1>1, TypesAre
<1>5. QED
  BY <1>2, <1>3, <1>4 DEF TypeOK, IInv, NodeT

LEMMA SortedFollows == ASSUME IInv PROVE KeysSorted
<1>1. Shape(ctx)
  BY DEF IInv, Good
<1>2. \A c \in DOMAIN ctx.cache : LowerBound(ctx.cache, ctx.cache[c].key) = c
  BY <1>1, NodeAt
<1>3. Sorted(ctx.cache)
  BY <1>1 DEF Shape
<1>4. QED
  BY <1>2, <1>3 DEF KeysSorted, Sorted

LEMMA IdsFollow == ASSUME IInv PROVE IdsDefinedOnce
BY DEF IInv, Good, Intended, IdsOK, IdsDefinedOnce, Intact

LEMMA OperandsFollow == ASSUME IInv PROVE OperandsDefined
BY DEF IInv, Good, Intended, UsesOK, Declared, OperandsDefined, Intact

LEMMA LeavesFollow == ASSUME IInv PROVE LeavesReportFailure
BY DEF IInv, AnswerOK, Leaves, LeavesReportFailure

LEMMA StableFollows == ASSUME IInv PROVE CacheStable
<1> DEFINE names == (Fields \cup {"default"}) \ (Unsound \ {"ptr_workspec"})
<1>1. \A x \in names : x = "default" \/ x \in Kept
  BY DEF Fields, Unsound, Kept
<1>2. ASSUME ~ctx.failed, NEW a \in asked, NEW b \in asked, a.call \in names, a.call = b.call,
             a.key = b.key, a.ret # 0, b.ret # 0
      PROVE  a.ret = b.ret
  <2>1. AnswerOK(ctx, a) /\ AnswerOK(ctx, b)
    BY DEF IInv
  <2>2. CASE a.call = "default"
    BY <1>2, <2>1, <2>2 DEF AnswerOK
  <2>3. CASE a.call \in Kept
    BY <1>2, <2>1, <2>3 DEF AnswerOK
  <2>4. QED
    BY <1>1, <1>2, <2>2, <2>3
<1> HIDE DEF names
<1>3. SameAnswers(names)
  BY <1>2 DEF SameAnswers, Intact
<1>4. QED
  BY <1>3 DEF CacheStable, names

LEMMA DistinctFollows == ASSUME IInv PROVE MemosDistinct
<1>1. Shape(ctx) /\ MemosOK(ctx)
  BY DEF IInv, Good
<1>2. SUFFICES \A m, n \in (DOMAIN ctx.cache) \X Sound :
                /\ ctx.cache[m[1]].id[m[2]] < ctx.next
                /\ m # n /\ ctx.cache[m[1]].id[m[2]] >= EndId
                        => ctx.cache[m[1]].id[m[2]] # ctx.cache[n[1]].id[n[2]]
  BY SoundIs DEF MemosDistinct
<1>9. SUFFICES ASSUME NEW c \in DOMAIN ctx.cache, NEW f \in Sound, NEW d \in DOMAIN ctx.cache, NEW g \in Sound
               PROVE  /\ ctx.cache[c].id[f] < ctx.next
                      /\ ~(c = d /\ f = g) /\ ctx.cache[c].id[f] >= EndId
                            => ctx.cache[c].id[f] # ctx.cache[d].id[g]
  OBVIOUS
<1>3. PICK k \in Nat : k = ctx.cache[c].key
  BY <1>1, NodeAt
<1>4. PICK l \in Nat : l = ctx.cache[d].key
  BY <1>1, NodeAt
<1>5. M(ctx, k, f) = ctx.cache[c].id[f] /\ M(ctx, l, g) = ctx.cache[d].id[g]
  <2>1. f \in Fields /\ g \in Fields
    BY SoundIs
  <2>2. M(ctx, k, f) = ctx.cache[c].id[f]
    BY <1>1, <1>3, <2>1, NodeAt
  <2>3. QED
    BY <1>1, <1>4, <2>1, <2>2, NodeAt
<1>6. k = l => c = d
  <2>1. LowerBound(ctx.cache, k) = c
    BY <1>1, <1>3, NodeAt
  <2>2. LowerBound(ctx.cache, l) = d
    BY <1>1, <1>4, NodeAt
  <2>3. QED
    BY <2>1, <2>2
<1>7. M(ctx, k, f) < ctx.next /\ (M(ctx, k, f) = M(ctx, l, g) /\ M(ctx, k, f) >= EndId => k = l /\ f = g)
  BY <1>1, SoundIs DEF MemosOK
<1>8. QED
  BY <1>5, <1>6, <1>7

\* What an instruction wants is in the decorations.
LEMMA DecorationIs ==
    ASSUME NEW s, Shape(s), DecoOK(s), NEW i \in DOMAIN s.types, NEW w \in Wants(s.types[i])
    PROVE  << s.types[i].id, w >> \in s.deco
<1>1. s.types[i].id \in Nat /\ s.types[i].key \in Nat
  BY TypesAre DEF InstrT
<1>2. w \in Whats
  BY <1>1, WantsOK
<1>3. PICK p : p = << s.types[i].id, w >>
  OBVIOUS
<1>4. p \in Nat \X Whats /\ p[1] = s.types[i].id /\ p[2] \in Wants(s.types[i])
  BY <1>1, <1>2, <1>3
<1>5. QED
  BY <1>3, <1>4 DEF DecoOK

LEMMA TruthFollows == ASSUME IInv PROVE MemoTruthful
<1>1. SUFFICES ASSUME ~ctx.failed PROVE MemoTruthful
  BY DEF MemoTruthful, Intact
<1>2. Shape(ctx) /\ MadeOK(ctx) /\ DecoOK(ctx)
  BY <1>1 DEF IInv, Good, Intended
<1>3. ASSUME NEW d \in ctx.defaults PROVE \E i \in DOMAIN ctx.types : ctx.types[i].id = DefaultId(d)
  BY <1>2 DEF MadeOK, IsDefault
<1>4. ASSUME NEW c \in DOMAIN ctx.cache, NEW f \in Sound, ctx.cache[c].id[f] # 0
      PROVE  \E i \in DOMAIN ctx.types :
                /\ ctx.types[i].id = ctx.cache[c].id[f]
                /\ \/ /\ ctx.types[i].by = f
                      /\ ctx.types[i].uses = Operands(ctx.cache[c], f)
                      /\ f \in {"val", "vec32"} => ctx.types[i].lit = ctx.cache[c].key
                      /\ f = "spec" => << ctx.cache[c].id[f], SpecId(ctx.cache[c].key) >> \in ctx.deco
                   \/ ctx.cache[c].key = 1 /\ f = "arr32" /\ ctx.cache[c].id[f] = U32
  <2>1. PICK k \in Nat : k = ctx.cache[c].key
    BY <1>2, NodeAt
  <2>2. M(ctx, k, f) = ctx.cache[c].id[f] /\ NodeOf(ctx, k) = ctx.cache[c]
    BY <1>2, <2>1, NodeAt, SoundIs
  <2>3. CASE \E i \in DOMAIN ctx.types : IsMade(ctx.types[i], ctx, k, f)
    <3>1. PICK i \in DOMAIN ctx.types : IsMade(ctx.types[i], ctx, k, f)
      BY <2>3
    <3>2. ctx.types[i].id = ctx.cache[c].id[f] /\ ctx.types[i].by = f
          /\ ctx.types[i].uses = Operands(ctx.cache[c], f) /\ LitOK(ctx.types[i].lit, f, k)
          /\ ctx.types[i].key = k
      BY <2>2, <3>1 DEF IsMade
    <3>3. f \in {"val", "vec32"} => LitOf(f, k) = k /\ f # "spec"
      BY DEF LitOf
    <3>4. f = "spec" => SpecId(k) \in Wants(ctx.types[i])
      BY <3>2 DEF Wants
    <3>5. f = "spec" => << ctx.types[i].id, SpecId(k) >> \in ctx.deco
      BY <1>2, <3>4, DecorationIs
    <3>6. QED
      BY <2>1, <3>2, <3>3, <3>5 DEF LitOK
  <2>4. CASE k = 1 /\ f = "arr32" /\ M(ctx, k, f) = U32 /\ "U32" \in ctx.defaults
    <3>1. PICK i \in DOMAIN ctx.types : ctx.types[i].id = U32
      BY <1>3, <2>4 DEF U32
    <3>2. QED
      BY <2>1, <2>2, <2>4, <3>1
  <2>5. QED
    BY <1>2, <1>4, <2>2, <2>3, <2>4 DEF MadeOK
<1>5. QED
  BY <1>3, <1>4, SoundIs DEF MemoTruthful
LEMMA GoodIntended ==
    ASSUME NEW s, Good(s), ~s.failed
    PROVE  /\ Shape(s) /\ MemosOK(s) /\ IdsOK(s) /\ UsesOK(s) /\ KnownOK(s) /\ MadeOK(s)
           /\ DecoOK(s) /\ CapsOK(s) /\ s.defaults \subseteq DefaultNames
<1>1. s.defaults \subseteq DefaultNames
  <2> HIDE DEF InstrT, NodeT, CapNames, Whats, DefaultNames
  <2>1. QED
    BY DEF Good, Shape, CtxT
<1>2. QED
  BY <1>1 DEF Good, Intended

\* A default type is noted exactly if an instruction defines its id.
LEMMA NotedDeclared ==
    ASSUME NEW s, Good(s), ~s.failed, NEW d \in DefaultNames
    PROVE  d \in s.defaults <=> \E i \in DOMAIN s.types : s.types[i].id = DefaultId(d)
<1>1. ASSUME d \in s.defaults PROVE \E i \in DOMAIN s.types : s.types[i].id = DefaultId(d)
  BY <1>1, DefaultThere
<1>2. ASSUME NEW i \in DOMAIN s.types, s.types[i].id = DefaultId(d) PROVE d \in s.defaults
  <2>1. PICK m \in 1..20 : m = DefaultId(d)
    BY DefaultIdOK
  <2>2. ~(s.types[i].id >= EndId)
    <3>1. ~(m >= EndId)
      BY DefaultsAre
    <3>2. QED
      BY <1>2, <2>1, <3>1
  <2>3. KnownOK(s) /\ s.defaults \subseteq DefaultNames
    BY GoodIntended
  <2>4. PICK e \in s.defaults : IsDefault(s.types[i], e)
    BY <2>2, <2>3 DEF KnownOK, IsMade
  <2>5. DefaultId(e) = DefaultId(d) /\ e \in DefaultNames
    BY <1>2, <2>3, <2>4 DEF IsDefault
  <2>6. e = d
    BY <2>5, DefaultIdOK
  <2>7. QED
    BY <2>6
<1>3. QED
  BY <1>1, <1>2

LEMMA DecoratedFollows == ASSUME IInv PROVE Decorated
<1>1. SUFFICES ASSUME ~ctx.failed PROVE Decorated
  BY DEF Decorated, Intact
<1>2. Good(ctx)
  BY DEF IInv
<1>3. DecoOK(ctx) /\ CapsOK(ctx) /\ Shape(ctx) /\ ctx.defaults \subseteq DefaultNames
  BY <1>1, <1>2, GoodIntended
<1>4. ctx.deco = UNION { { << ctx.types[i].id, w >> : w \in Wants(ctx.types[i]) } : i \in DOMAIN ctx.types }
  <2>1. ASSUME NEW p \in ctx.deco
        PROVE  \E i \in DOMAIN ctx.types : p \in { << ctx.types[i].id, w >> : w \in Wants(ctx.types[i]) }
    <3>1. p \in Nat \X Whats /\ \E i \in DOMAIN ctx.types :
                p[1] = ctx.types[i].id /\ p[2] \in Wants(ctx.types[i])
      BY <1>3, <2>1 DEF DecoOK
    <3>2. PICK i \in DOMAIN ctx.types : p[1] = ctx.types[i].id /\ p[2] \in Wants(ctx.types[i])
      BY <3>1
    <3>3. p = << ctx.types[i].id, p[2] >>
      BY <3>1, <3>2
    <3>4. QED
      BY <3>2, <3>3
  <2>2. ASSUME NEW i \in DOMAIN ctx.types, NEW w \in Wants(ctx.types[i])
        PROVE  << ctx.types[i].id, w >> \in ctx.deco
    BY <1>3, DecorationIs
  <2>3. QED
    BY <2>1, <2>2
<1>5. \A i, j \in DOMAIN ctx.caps : i # j => ctx.caps[i] # ctx.caps[j]
  BY <1>3 DEF CapsOK
<1>6. \A d \in DOMAIN Capability :
        d \in ctx.defaults <=> \E i \in DOMAIN ctx.types : ctx.types[i].id = DefaultId(d)
  <2>1. DOMAIN Capability \subseteq DefaultNames
    BY BasesOK
  <2>2. QED
    BY <1>1, <1>2, <2>1, NotedDeclared
<1>7. Range(ctx.caps) =
        { Capability[d] : d \in { b \in DOMAIN Capability :
            \E i \in DOMAIN ctx.types : ctx.types[i].id = DefaultId(b) } }
  <2>1. { b \in DOMAIN Capability : \E i \in DOMAIN ctx.types : ctx.types[i].id = DefaultId(b) }
        = ctx.defaults \cap DOMAIN Capability
    BY <1>6
  <2>2. Range(ctx.caps) = { Capability[d] : d \in ctx.defaults \cap DOMAIN Capability }
    BY <1>3 DEF CapsOK, Range
  <2>3. QED
    BY <2>1, <2>2
<1>8. QED
  BY <1>4, <1>5, <1>7 DEF Decorated

\* No two default types look alike ...
LEMMA DefaultTwins ==
    ASSUME NEW d \in DefaultNames, NEW e \in DefaultNames, NEW i, NEW j, IsDefault(i, d), IsDefault(j, e),
           i.op = j.op, i.lit = j.lit, i.uses = j.uses
    PROVE  d = e
<1>1. DefaultOp(d) = DefaultOp(e) /\ DefaultLit(d) = DefaultLit(e)
  BY DEF IsDefault
<1>2. (d = "FN_VOID") <=> (e = "FN_VOID")
  BY <1>1 DEF DefaultOp
<1>3. d \in DOMAIN Pointee \cup Interfaces <=> e \in DOMAIN Pointee \cup Interfaces
  BY <1>1, <1>2 DEF DefaultOp
<1>4. CASE d = "FN_VOID"
  BY <1>2, <1>4
<1>5. CASE d # "FN_VOID" /\ d \notin DOMAIN Pointee /\ e \notin DOMAIN Pointee
  BY <1>1, <1>2, <1>5 DEF DefaultLit
<1>6. CASE d # "FN_VOID" /\ (d \in DOMAIN Pointee \/ e \in DOMAIN Pointee)
  <2>1. \A x \in Interfaces : x # "Function"
    BY DEF Interfaces
  <2>2. d \in DOMAIN Pointee /\ e \in DOMAIN Pointee
    BY <1>1, <1>2, <1>3, <1>6, <2>1 DEF DefaultLit
  <2>3. << DefaultId(Pointee[d]) >> = << DefaultId(Pointee[e]) >>
    BY <2>2 DEF IsDefault
  <2>4. PICK x \in Nat : x = DefaultId(Pointee[d])
    BY <2>2, PointeeOK, BaseId
  <2>5. x = DefaultId(Pointee[e])
    BY <2>3, <2>4
  <2>6. DefaultId(d) = x + 1 /\ DefaultId(e) = x + 1
    BY <2>2, <2>4, <2>5, PointeeOK
  <2>7. QED
    BY <2>6, DefaultIdOK
<1>7. QED
  BY <1>4, <1>5, <1>6

\* A memo of another field than arr32 is an id of the counter's.
LEMMA MemoCounted ==
    ASSUME NEW s, Good(s), ~s.failed, NEW k \in Nat, NEW f \in Sound, f # "arr32", M(s, k, f) # 0
    PROVE  M(s, k, f) >= EndId
<1>1. MadeOK(s)
  BY GoodIntended
<1>2. PICK i \in DOMAIN s.types : IsMade(s.types[i], s, k, f)
  BY <1>1 DEF MadeOK
<1>3. QED
  BY <1>2 DEF IsMade

\* ... none looks like a type made for a node ...
LEMMA MixedTwins ==
    ASSUME NEW s, Good(s), ~s.failed, NEW d \in DefaultNames, NEW k \in Nat, NEW f \in Sound,
           NEW i, NEW j, IsDefault(i, d), IsMade(j, s, k, f),
           i.op = j.op, i.lit = j.lit, i.uses = j.uses
    PROVE  FALSE
<1>1. DefaultOp(d) = OpOf(f) /\ LitOK(DefaultLit(d), f, k)
  BY DEF IsDefault, IsMade
<1>2. OpOf(f) # "Type" /\ OpOf(f) # "TypeFunction"
  BY DEF OpOf
<1>3. d # "FN_VOID" /\ d \in DOMAIN Pointee \cup Interfaces /\ OpOf(f) = "TypePointer"
  BY <1>1, <1>2 DEF DefaultOp
<1>4. f \in {"ptr_psh", "ptr_storage", "ptr", "ptr_func", "ptr_work"}
  BY <1>3 DEF OpOf, Sound, Kept
<1>5. f = "ptr_func" /\ d \in DOMAIN Pointee
  <2>1. \A x \in Interfaces : x \notin Classes
    BY DEF Interfaces, Classes
  <2>2. LitOf(f, k) \in Classes /\ (LitOf(f, k) = "Function" => f = "ptr_func")
    BY <1>4 DEF LitOf, Classes
  <2>3. DefaultLit(d) = IF d \in DOMAIN Pointee THEN "Function" ELSE d
    BY <1>3 DEF DefaultLit
  <2>4. QED
    BY <1>1, <1>3, <1>4, <2>1, <2>2, <2>3 DEF LitOK
<1>6. << DefaultId(Pointee[d]) >> = << M(s, k, "structpriv") >>
  BY <1>5, OperandsAre DEF IsDefault, IsMade
<1>7. PICK x \in Nat : x = DefaultId(Pointee[d]) /\ x \in 1..20
  <2>1. Pointee[d] \in DefaultNames
    BY <1>5, PointeeOK, BasesOK
  <2>2. DefaultId(Pointee[d]) \in 1..20
    BY <2>1, DefaultIdOK
  <2>3. QED
    BY <2>2
<1>8. x = M(s, k, "structpriv")
  BY <1>6, <1>7
<1>9. x # 0 /\ ~(x >= EndId)
  BY <1>7, DefaultsAre
<1>10. "structpriv" \in Sound
  BY DEF Sound, Kept
<1>11. QED
  BY <1>8, <1>9, <1>10, MemoCounted

\* Two nodes that remember the same id are one.
LEMMA SameMemo ==
    ASSUME NEW s, Good(s), ~s.failed, NEW k \in Nat, NEW l \in Nat, NEW f \in Sound, NEW g \in Sound,
           M(s, k, f) = M(s, l, g), M(s, k, f) # 0
    PROVE  k = l /\ f = g
<1>1. MadeOK(s) /\ MemosOK(s) /\ f \in Kept /\ g \in Kept
  BY GoodIntended, SoundIs
<1>2. M(s, k, f) >= EndId \/ (k = 1 /\ f = "arr32" /\ M(s, k, f) = U32)
  BY <1>1 DEF MadeOK, IsMade
<1>3. M(s, l, g) >= EndId \/ (l = 1 /\ g = "arr32" /\ M(s, l, g) = U32)
  BY <1>1 DEF MadeOK, IsMade
<1>4. CASE M(s, k, f) >= EndId
  BY <1>1, <1>4 DEF MemosOK
<1>5. CASE ~(M(s, k, f) >= EndId)
  BY <1>2, <1>3, <1>5
<1>6. QED
  BY <1>4, <1>5

\* ... and no two of those do.
LEMMA MadeTwins ==
    ASSUME NEW s, Good(s), ~s.failed, NEW k \in Nat, NEW l \in Nat, NEW f \in Sound, NEW g \in Sound,
           NEW i, NEW j, IsMade(i, s, k, f), IsMade(j, s, l, g),
           \A u \in DOMAIN i.uses : i.uses[u] # 0,
           i.op = j.op, i.lit = j.lit, i.uses = j.uses, Wants(i) = Wants(j)
    PROVE  k = l /\ f = g
<1>1. /\ OpOf(f) = OpOf(g) /\ (f # "spec" /\ g # "spec" => LitOf(f, k) = LitOf(g, l))
      /\ Operands(NodeOf(s, k), f) = Operands(NodeOf(s, l), g)
      /\ \A u \in DOMAIN Operands(NodeOf(s, k), f) : Operands(NodeOf(s, k), f)[u] # 0
      /\ WhatsOf(f, k) = WhatsOf(g, l)
  <2>1. Wants(i) = WhatsOf(f, k) /\ Wants(j) = WhatsOf(g, l)
    BY DEF IsMade, WhatsOf, Wants
  <2>2. QED
    BY <2>1 DEF IsMade, LitOK
<1>2. {"val", "spec", "arr32", "arrspec32", "structpriv", "struct"} \subseteq Sound
  BY DEF Sound, Kept
<1>3. CASE f \in {"val", "spec", "vec32"}
  <2>1. f = g
    BY <1>1, <1>3 DEF OpOf
  <2>2. CASE f = "spec"
    <3>1. WhatsOf(f, k) = {SpecId(k)} /\ WhatsOf(g, l) = {SpecId(l)}
      BY <2>1, <2>2 DEF WhatsOf, Wants
    <3>2. SpecId(k) = SpecId(l)
      BY <1>1, <3>1
    <3>3. QED
      BY <2>1, <3>2 DEF SpecId
  <2>3. CASE f # "spec"
    <3>1. LitOf(f, k) = k /\ LitOf(g, l) = l
      BY <1>3, <2>1, <2>3 DEF LitOf
    <3>2. QED
      BY <1>1, <2>1, <2>3, <3>1
  <2>4. QED
    BY <2>2, <2>3
<1>4. CASE f \in {"arr8", "arr16", "arr32", "arrspec32"}
  <2>1. g \in {"arr8", "arr16", "arr32", "arrspec32"}
    BY <1>1, <1>4 DEF OpOf
  <2>2. ASSUME NEW h \in {"arr8", "arr16", "arr32", "arrspec32"}, NEW x \in Nat
        PROVE  \E c \in {"val", "spec"} :
                  /\ Operands(NodeOf(s, x), h) = << DefaultId(WordOf(h)), M(s, x, c) >>
                  /\ c = "spec" <=> h = "arrspec32"
    <3>1. PICK c \in {"val", "spec"} : c = "spec" <=> h = "arrspec32"
      OBVIOUS
    <3>2. Operands(NodeOf(s, x), h) = << DefaultId(WordOf(h)), M(s, x, c) >>
      BY <3>1, OperandsAre DEF WordOf
    <3>3. QED
      BY <3>1, <3>2
  <2>3. PICK c \in {"val", "spec"} :
            /\ Operands(NodeOf(s, k), f) = << DefaultId(WordOf(f)), M(s, k, c) >>
            /\ c = "spec" <=> f = "arrspec32"
    BY <1>4, <2>2
  <2>4. PICK e \in {"val", "spec"} :
            /\ Operands(NodeOf(s, l), g) = << DefaultId(WordOf(g)), M(s, l, e) >>
            /\ e = "spec" <=> g = "arrspec32"
    BY <2>1, <2>2
  <2>5. DefaultId(WordOf(f)) = DefaultId(WordOf(g)) /\ M(s, k, c) = M(s, l, e)
    <3>1. << DefaultId(WordOf(f)), M(s, k, c) >> = << DefaultId(WordOf(g)), M(s, l, e) >>
      BY <1>1, <2>3, <2>4
    <3>2. QED
      BY <3>1
  <2>6. M(s, k, c) # 0
    <3>1. PICK q : q = << DefaultId(WordOf(f)), M(s, k, c) >>
      OBVIOUS
    <3>2. 2 \in DOMAIN q /\ q[2] = M(s, k, c)
      BY <3>1
    <3>3. QED
      BY <1>1, <2>3, <3>1, <3>2
  <2>7. k = l /\ c = e
    <3>1. c \in Sound /\ e \in Sound
      BY <1>2
    <3>2. QED
      BY <2>5, <2>6, <3>1, SameMemo
  <2>8. WordOf(f) = WordOf(g)
    <3>1. \A h : WordOf(h) \in DefaultNames
      BY DEF WordOf, DefaultNames
    <3>2. QED
      BY <2>5, <3>1, DefaultIdOK
  <2>9. f = g
    BY <1>4, <2>1, <2>3, <2>4, <2>7, <2>8 DEF WordOf
  <2>10. QED
    BY <2>7, <2>9
<1>5. CASE f \in {"ptr_psh", "ptr_storage", "ptr", "ptr_func", "ptr_work"}
  <2>1. g \in {"ptr_psh", "ptr_storage", "ptr", "ptr_func", "ptr_work"}
    BY <1>1, <1>5 DEF OpOf, Sound, Kept
  <2>2. f = g
    BY <1>1, <1>5, <2>1 DEF LitOf
  <2>3. PICK c \in {"struct", "structpriv"} : \A x \in Nat : Operands(NodeOf(s, x), f) = << M(s, x, c) >>
    BY <1>5, OperandsAre
  <2>4. << M(s, k, c) >> = << M(s, l, c) >>
    BY <1>1, <2>2, <2>3
  <2>5. M(s, k, c) = M(s, l, c)
    BY <2>4
  <2>6. M(s, k, c) # 0
    <3>1. PICK q : q = << M(s, k, c) >>
      OBVIOUS
    <3>2. 1 \in DOMAIN q /\ q[1] = M(s, k, c)
      BY <3>1
    <3>3. QED
      BY <1>1, <2>3, <3>1, <3>2
  <2>7. k = l
    <3>1. c \in Sound
      BY <1>2
    <3>2. QED
      BY <2>5, <2>6, <3>1, SameMemo
  <2>8. QED
    BY <2>2, <2>7
<1>6. CASE f \in {"struct", "structpriv", "structprivspec"}
  <2>1. g \in {"struct", "structpriv", "structprivspec"}
    BY <1>1, <1>6 DEF OpOf, Sound, Kept
  <2>2. f = "struct" <=> g = "struct"
    <3>1. Block # {}
      BY DEF Block
    <3>2. \A h \in {"struct", "structpriv", "structprivspec"}, x \in Nat :
            WhatsOf(h, x) = IF h = "struct" THEN Block ELSE {}
      BY DEF WhatsOf, Wants
    <3>3. QED
      BY <1>1, <1>6, <2>1, <3>1, <3>2
  <2>3. \A h \in {"struct", "structpriv", "structprivspec"}, x \in Nat :
          Operands(NodeOf(s, x), h) = << M(s, x, IF h = "structprivspec" THEN "arrspec32" ELSE "arr32") >>
    BY OperandsAre
  <2>4. PICK c \in {"arr32", "arrspec32"} : c = IF f = "structprivspec" THEN "arrspec32" ELSE "arr32"
    OBVIOUS
  <2>5. PICK e \in {"arr32", "arrspec32"} : e = IF g = "structprivspec" THEN "arrspec32" ELSE "arr32"
    OBVIOUS
  <2>6. Operands(NodeOf(s, k), f) = << M(s, k, c) >> /\ Operands(NodeOf(s, l), g) = << M(s, l, e) >>
    BY <1>6, <2>1, <2>3, <2>4, <2>5
  <2>7. M(s, k, c) = M(s, l, e)
    <3>1. << M(s, k, c) >> = << M(s, l, e) >>
      BY <1>1, <2>6
    <3>2. QED
      BY <3>1
  <2>8. M(s, k, c) # 0
    <3>1. PICK q : q = << M(s, k, c) >>
      OBVIOUS
    <3>2. 1 \in DOMAIN q /\ q[1] = M(s, k, c)
      BY <3>1
    <3>3. QED
      BY <1>1, <2>6, <3>1, <3>2
  <2>9. k = l /\ c = e
    <3>1. c \in Sound /\ e \in Sound
      BY <1>2
    <3>2. QED
      BY <2>7, <2>8, <3>1, SameMemo
  <2>10. QED
    BY <1>6, <2>1, <2>2, <2>4, <2>5, <2>9
<1>7. QED
  BY <1>3, <1>4, <1>5, <1>6 DEF Sound, Kept

\* The decorations of an instruction are what it wants.
LEMMA DecorationsAre ==
    ASSUME NEW s, Good(s), ~s.failed, NEW i \in DOMAIN s.types
    PROVE  { d[2] : d \in { p \in s.deco : p[1] = s.types[i].id } } = Wants(s.types[i])
<1>1. Shape(s) /\ DecoOK(s) /\ IdsOK(s)
  BY GoodIntended
<1>2. ASSUME NEW p \in s.deco, p[1] = s.types[i].id PROVE p[2] \in Wants(s.types[i])
  <2>1. PICK j \in DOMAIN s.types : p[1] = s.types[j].id /\ p[2] \in Wants(s.types[j])
    BY <1>1 DEF DecoOK
  <2>2. j = i
    BY <1>1, <1>2, <2>1 DEF IdsOK
  <2>3. QED
    BY <2>1, <2>2
<1>3. ASSUME NEW w \in Wants(s.types[i])
      PROVE  \E d \in { p \in s.deco : p[1] = s.types[i].id } : d[2] = w
  <2>1. PICK d : d = << s.types[i].id, w >>
    OBVIOUS
  <2>2. d \in s.deco
    BY <1>1, <2>1, DecorationIs
  <2>3. d[1] = s.types[i].id /\ d[2] = w
    BY <2>1
  <2>4. QED
    BY <2>2, <2>3
<1>4. QED
  BY <1>2, <1>3

LEMMA TwinsFollow == ASSUME IInv PROVE NoTwins
<1>0. SUFFICES ASSUME ~ctx.failed, NEW i \in DOMAIN ctx.types, NEW j \in DOMAIN ctx.types, i # j,
                      {ctx.types[i].by, ctx.types[j].by} \cap Unsound = {},
                      Looks(i) = Looks(j)
               PROVE  FALSE
  BY DEF NoTwins, Intact
<1>1. /\ ctx.types[i].by \notin Unsound /\ ctx.types[j].by \notin Unsound
      /\ ctx.types[i].op = ctx.types[j].op /\ ctx.types[i].lit = ctx.types[j].lit
      /\ ctx.types[i].uses = ctx.types[j].uses
      /\ Wants(ctx.types[i]) = Wants(ctx.types[j])
  <2>1. /\ ctx.types[i].op = ctx.types[j].op /\ ctx.types[i].lit = ctx.types[j].lit
        /\ ctx.types[i].uses = ctx.types[j].uses
        /\ { d[2] : d \in { p \in ctx.deco : p[1] = ctx.types[i].id } }
            = { d[2] : d \in { p \in ctx.deco : p[1] = ctx.types[j].id } }
    BY <1>0 DEF Looks
  <2>2. Good(ctx)
    BY DEF IInv
  <2>3. { d[2] : d \in { p \in ctx.deco : p[1] = ctx.types[i].id } } = Wants(ctx.types[i])
    BY <1>0, <2>2, DecorationsAre
  <2>4. { d[2] : d \in { p \in ctx.deco : p[1] = ctx.types[j].id } } = Wants(ctx.types[j])
    BY <1>0, <2>2, DecorationsAre
  <2>5. Wants(ctx.types[i]) = Wants(ctx.types[j])
    BY <2>1, <2>3, <2>4, Zenon
  <2>6. QED
    BY <1>0, <2>1, <2>5
<1>2. Good(ctx)
  BY DEF IInv
<1>3. /\ Shape(ctx) /\ IdsOK(ctx) /\ UsesOK(ctx) /\ KnownOK(ctx) /\ ctx.defaults \subseteq DefaultNames
  BY <1>0, <1>1, <1>2, GoodIntended
<1>4. ctx.types[i].id # ctx.types[j].id
  BY <1>0, <1>1, <1>3 DEF IdsOK
<1>5. \A u \in DOMAIN ctx.types[i].uses : ctx.types[i].uses[u] # 0
  BY <1>0, <1>1, <1>3, UsesNotZero
<1>6. \/ \E d \in ctx.defaults : IsDefault(ctx.types[i], d)
      \/ \E k \in Nat, f \in Sound : IsMade(ctx.types[i], ctx, k, f)
  BY <1>0, <1>1, <1>3 DEF KnownOK
<1>7. \/ \E d \in ctx.defaults : IsDefault(ctx.types[j], d)
      \/ \E k \in Nat, f \in Sound : IsMade(ctx.types[j], ctx, k, f)
  BY <1>0, <1>1, <1>3 DEF KnownOK
<1>8. ASSUME NEW d \in ctx.defaults, IsDefault(ctx.types[i], d),
             NEW e \in ctx.defaults, IsDefault(ctx.types[j], e)
      PROVE  FALSE
  <2>1. d = e
    BY <1>0, <1>1, <1>3, <1>8, DefaultTwins, SMTT(30)
  <2>2. QED
    BY <1>0, <1>4, <1>8, <2>1 DEF IsDefault
<1>9. ASSUME NEW d \in ctx.defaults, IsDefault(ctx.types[i], d),
             NEW k \in Nat, NEW f \in Sound, IsMade(ctx.types[j], ctx, k, f)
      PROVE  FALSE
  BY <1>0, <1>1, <1>2, <1>3, <1>9, MixedTwins
<1>10. ASSUME NEW d \in ctx.defaults, IsDefault(ctx.types[j], d),
              NEW k \in Nat, NEW f \in Sound, IsMade(ctx.types[i], ctx, k, f)
       PROVE  FALSE
  BY <1>0, <1>1, <1>2, <1>3, <1>10, MixedTwins
<1>11. ASSUME NEW k \in Nat, NEW f \in Sound, IsMade(ctx.types[i], ctx, k, f),
              NEW l \in Nat, NEW g \in Sound, IsMade(ctx.types[j], ctx, l, g)
       PROVE  FALSE
  <2>1. k = l /\ f = g
    BY <1>0, <1>1, <1>2, <1>5, <1>11, MadeTwins, SMTT(30)
  <2>2. QED
    BY <1>0, <1>4, <1>11, <2>1 DEF IsMade
<1>12. QED
  BY <1>6, <1>7, <1>8, <1>9, <1>10, <1>11
------------------------------------------------------------------------------
(***************************************************************************)
(* The theorems: what the runs check on a few keys and a few calls.        *)
(***************************************************************************)
\* The nodes hold an id or zero for every field, every instruction defines an
\* id, and the counter (m_id) stays beyond the default ids.
THEOREM TypeCorrect == Spec => []TypeOK
<1>1. IInv => TypeOK
  BY TypeFollows
<1>2. QED
  BY <1>1, Inductive, PTL

\* The vector of nodes stays sorted, and the binary search of
\* util_get_constant_node finds every node in it.
THEOREM SearchFindsNodes == Spec => []KeysSorted
<1>1. IInv => KeysSorted
  BY SortedFollows
<1>2. QED
  BY <1>1, Inductive, PTL

\* While nothing has failed, no two instructions of the types section define
\* the same id.
THEOREM IdsAreUnique == Spec => []IdsDefinedOnce
<1>1. IInv => IdsDefinedOnce
  BY IdsFollow
<1>2. QED
  BY <1>1, Inductive, PTL

\* Even after a failure, no two memos hold the same id of the counter's: the
\* id of a maker that failed half way is given again, but no memo has it.
THEOREM MemosAreDistinct == Spec => []MemosDistinct
<1>1. IInv => MemosDistinct
  BY DistinctFollows
<1>2. QED
  BY <1>1, Inductive, PTL

\* A memo names the instruction that was emitted for it, with the operands its
\* own node remembers; a specialisation constant carries the number its memo is
\* found by, whatever default it was asked for with.
THEOREM MemosAreTrue == Spec => []MemoTruthful
<1>1. IInv => MemoTruthful
  BY TruthFollows
<1>2. QED
  BY <1>1, Inductive, PTL

\* A type is declared after the types and constants it takes.
THEOREM OperandsComeFirst == Spec => []OperandsDefined
<1>1. IInv => OperandsDefined
  BY OperandsFollow
<1>2. QED
  BY <1>1, Inductive, PTL

\* No type and no constant is declared twice: two instructions that agree but
\* for the id are told apart by their decorations.
THEOREM TypesHaveNoTwins == Spec => []NoTwins
<1>1. IInv => NoTwins
  BY TwinsFollow
<1>2. QED
  BY <1>1, Inductive, PTL

\* What is decorated, and the capabilities declared, are exactly what the
\* declared types want.
THEOREM TypesAreDecorated == Spec => []Decorated
<1>1. IInv => Decorated
  BY DecoratedFollows
<1>2. QED
  BY <1>1, Inductive, PTL

\* A maker that calls none but the makers of default types never answers an id
\* when an allocation of its call failed.
THEOREM FailureIsReported == Spec => []LeavesReportFailure
<1>1. IInv => LeavesReportFailure
  BY LeavesFollow
<1>2. QED
  BY <1>1, Inductive, PTL

\* A maker that gives an id twice for a key gives the same one.
THEOREM AnswersAreStable == Spec => []CacheStable
<1>1. IInv => CacheStable
  BY StableFollows
<1>2. QED
  BY <1>1, Inductive, PTL

=============================================================================
