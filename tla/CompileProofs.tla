---------------------------- MODULE CompileProofs ----------------------------
(***************************************************************************)
(* The phases of a compilation agree on the entry points (EntryIdsAgree),  *)
(* no id they take is taken twice (IdsUnique), the interfaces they list    *)
(* are declared (InterfacesDeclared), the bodies get the declarations of   *)
(* their own parameters (ParamsBound), and what they share keeps its type: *)
(* for translation units of any number of functions with any parameters.   *)
(***************************************************************************)
EXTENDS Compile, FiniteSetTheorems, SequenceTheorems, WellFoundedInduction, TLAPS

\* Where the phases are: the counter m_w0 is the number of kernels passed, and
\* the arrays have the sizes the counting visit found.
Early == {"conf", "count"}
Declares == {"declare", "params"}

Phases ==
    /\ prog \in Seq(Function)
    /\ pc = "conf" => DOMAIN made = {}
    /\ pc # "conf" => nextId >= FirstId
    /\ pc \in Early => at = 1
    /\ pc \in {"entries"} \cup Declares => w0 = Before(at)
    /\ pc = "params" => at \in Kernels
    /\ pc \in {"entries", "bodies"} \cup Declares => Len(entp) = NumEntp
    /\ pc = "bodies" => w0 <= NumEntp

\* The slot a parameter will be given is within its table, or the one behind.
Slots ==
    /\ visit.prm >= 1
    /\ (pc = "params" /\ tables # << >>) => visit.arg <= Len(tables[Len(tables)])

\* What the visit of the entry points notes of kernel k, and what the loop over
\* the bodies makes of it.
Noted(k) == EntryOf(k).id = Anchor + Before(k) /\ entp[Before(k) + 1].fn = k
Compiled(k) == \E f \in Range(fns) : f.id = Anchor + Before(k) /\ f.fn = k

Counted ==
    /\ output => pc = "done"
    /\ fails = 0 =>
        /\ pc \in Early => entries = << >>
        /\ pc \in Early \cup {"entries"} \cup Declares => fns = << >>
        /\ pc = "entries" => /\ Len(entries) = w0
                             /\ \A k \in Kernels : k < at => Noted(k)
        /\ pc \in {"bodies"} \cup Declares \/ output =>
               Len(entries) = NumEntp /\ \A k \in Kernels : Noted(k)
        /\ pc = "bodies" \/ output =>
               /\ Len(fns) = NumEntp - w0
               /\ \A k \in Kernels : Before(k) >= w0 => Compiled(k)
        /\ output => w0 = 0
EntpType == [id : Nat, fn : Nat, io : Nat, num : Nat]
EntryType == [id : Nat, io : Seq(Nat)]
FnType == [id : Nat, fn : Nat \ {0}, table : Seq(Slot)]

\* The parts of TypeOK.
PhaseOK ==
    /\ pc \in {"conf", "count", "entries", "declare", "params", "bodies", "done", "crashed"}
    /\ at \in 1..(Len(prog) + 1)
    /\ err \in Errors /\ broken \subseteq Errors \ {OK}
    /\ w0 \in 0..Len(prog) /\ fails \in 0..MaxFails /\ output \in BOOLEAN
IdsOK == nextId \in Nat /\ \A n \in DOMAIN made : made[n] \in FirstId..(nextId - 1)
EntpOK == entp \in Seq(EntpType) /\ entries \in Seq(EntryType) /\ fns \in Seq(FnType)
TablesOK == /\ tables \in Seq(Seq(Slot)) /\ variables \in Seq(VariableType)
            /\ visit \in [DOMAIN NoVisit -> Nat]

LEMMA TypeParts == TypeOK <=> PhaseOK /\ IdsOK /\ EntpOK /\ TablesOK
BY DEF TypeOK, PhaseOK, IdsOK, EntpOK, TablesOK, EntpType, EntryType, FnType

LEMMA TypePartsNext == TypeOK' <=> PhaseOK' /\ IdsOK' /\ EntpOK' /\ TablesOK'
BY DEF TypeOK, PhaseOK, IdsOK, EntpOK, TablesOK, EntpType, EntryType, FnType

TInv == TypeOK /\ Phases /\ Slots

LEMMA TInvParts ==
    ASSUME TInv
    PROVE  /\ TypeOK /\ PhaseOK /\ IdsOK /\ EntpOK /\ TablesOK /\ Phases /\ Slots
           /\ prog \in Seq(Function) /\ Len(prog) \in Nat
BY TypeParts DEF TInv, Phases
------------------------------------------------------------------------------
\* Counting the kernels.
LEMMA KernelsFinite ==
    ASSUME prog \in Seq(Function)
    PROVE  /\ \A k \in Kernels : k \in Nat /\ 1 <= k /\ k <= Len(prog)
           /\ Len(prog) \in Nat
           /\ IsFiniteSet(Kernels) /\ NumEntp \in Nat /\ NumEntp <= Len(prog)
           /\ \A i : /\ IsFiniteSet({ k \in Kernels : k < i })
                     /\ Before(i) \in Nat /\ Before(i) <= NumEntp
<1>1. Kernels \subseteq 1..Len(prog) /\ Len(prog) \in Nat
  BY DEF Kernels
<1>2. IsFiniteSet(1..Len(prog)) /\ Cardinality(1..Len(prog)) = Len(prog)
  <2>1. 0 \in Nat /\ 1 \in Int /\ Len(prog) \in Int
    BY <1>1
  <2>2. IsFiniteSet(1..Len(prog))
        /\ Cardinality(1..Len(prog)) = IF 1 > Len(prog) THEN 0 ELSE Len(prog) - 1 + 1
    BY <2>1, FS_Interval
  <2>3. QED
    BY <1>1, <2>2
<1>3. /\ IsFiniteSet(Kernels) /\ NumEntp \in Nat /\ NumEntp <= Len(prog)
  BY <1>1, <1>2, FS_Subset, FS_CardinalityType DEF NumEntp
<1>4. ASSUME NEW i
      PROVE  /\ IsFiniteSet({ k \in Kernels : k < i })
             /\ Before(i) \in Nat /\ Before(i) <= NumEntp
  <2>1. { k \in Kernels : k < i } \in SUBSET Kernels
    OBVIOUS
  <2>2. QED
    BY <1>3, <2>1, FS_Subset, FS_CardinalityType DEF Before, NumEntp
<1>5. \A k \in Kernels : k \in Nat /\ 1 <= k /\ k <= Len(prog)
  BY <1>1
<1>6. QED
  BY <1>1, <1>3, <1>4, <1>5

LEMMA BeforeEnds ==
    ASSUME prog \in Seq(Function)
    PROVE  /\ Before(1) = 0
           /\ \A i \in Nat : i > Len(prog) => Before(i) = NumEntp
<1>1. /\ \A k \in Kernels : k \in Nat /\ 1 <= k /\ k <= Len(prog)
      /\ Len(prog) \in Nat
  BY KernelsFinite
<1>2. { k \in Kernels : k < 1 } = {}
  <2>1. \A k \in Kernels : ~(k < 1)
    BY <1>1
  <2>2. QED
    BY <2>1
<1>3. Before(1) = 0
  BY <1>2, FS_EmptySet DEF Before
<1>4. ASSUME NEW i \in Nat, i > Len(prog) PROVE Before(i) = NumEntp
  <2>1. \A k \in Kernels : k < i
    BY <1>1, <1>4
  <2>2. { k \in Kernels : k < i } = Kernels
    BY <2>1
  <2>3. QED
    BY <2>2 DEF Before, NumEntp
<1>5. QED
  BY <1>3, <1>4

LEMMA BeforeStep ==
    ASSUME prog \in Seq(Function), NEW i \in 1..Len(prog)
    PROVE  Before(i + 1) = IF prog[i].kernel THEN Before(i) + 1 ELSE Before(i)
<1> DEFINE S == { k \in Kernels : k < i }
<1>1. /\ \A k \in Kernels : k \in Nat /\ 1 <= k /\ k <= Len(prog)
      /\ Len(prog) \in Nat /\ IsFiniteSet(S)
  BY KernelsFinite, Zenon
<1>2. i \in Kernels <=> prog[i].kernel
  BY DEF Kernels
<1>3. i \in Nat /\ ~(i < i) /\ i < i + 1
  BY <1>1
<1>4. \A k \in Kernels : k < i + 1 <=> k < i \/ k = i
  BY <1>1, <1>3
<1>5. CASE prog[i].kernel
  <2>1. { k \in Kernels : k < i + 1 } = S \cup {i} /\ i \notin S
    BY <1>2, <1>3, <1>4, <1>5
  <2>2. Cardinality(S \cup {i}) = Cardinality(S) + 1
    BY <1>1, <2>1, FS_AddElement
  <2>3. QED
    BY <1>5, <2>1, <2>2 DEF Before
<1>6. CASE ~prog[i].kernel
  <2>1. { k \in Kernels : k < i + 1 } = S
    BY <1>2, <1>4, <1>6
  <2>2. QED
    BY <1>6, <2>1 DEF Before
<1>7. QED
  BY <1>5, <1>6

\* The kernels are numbered in the order of the functions.
LEMMA BeforeGrows ==
    ASSUME prog \in Seq(Function), NEW k \in Kernels
    PROVE  /\ Before(k) < NumEntp
           /\ \A i \in Int : k < i => Before(k) < Before(i)
<1> DEFINE S == { j \in Kernels : j < k }
<1>1. /\ \A j \in Kernels : j \in Nat
      /\ NumEntp \in Nat /\ IsFiniteSet(Kernels)
      /\ \A i : IsFiniteSet({ j \in Kernels : j < i }) /\ Before(i) \in Nat
  BY KernelsFinite
<1>2. Before(k) = Cardinality(S) /\ IsFiniteSet(S)
  BY <1>1 DEF Before
<1>3. k \notin S
  BY <1>1
<1>4. Cardinality(S \cup {k}) = Before(k) + 1
  BY <1>2, <1>3, FS_AddElement
<1>5. ASSUME NEW T, IsFiniteSet(T), S \cup {k} \in SUBSET T
      PROVE  Before(k) + 1 <= Cardinality(T)
  BY <1>4, <1>5, FS_Subset
<1>6. Before(k) < NumEntp
  <2>1. S \cup {k} \in SUBSET Kernels
    OBVIOUS
  <2>2. Before(k) + 1 <= NumEntp
    BY <1>1, <1>5, <2>1 DEF NumEntp
  <2>3. PICK a \in Nat, b \in Nat : a = Before(k) /\ b = NumEntp
    BY <1>1
  <2>4. QED
    BY <2>2, <2>3
<1>7. ASSUME NEW i \in Int, k < i PROVE Before(k) < Before(i)
  <2>1. \A j \in Kernels : j < k => j < i
    BY <1>1, <1>7
  <2>2. S \cup {k} \in SUBSET { j \in Kernels : j < i }
    BY <1>7, <2>1
  <2>3. Before(k) + 1 <= Before(i)
    BY <1>1, <1>5, <2>2 DEF Before
  <2>4. PICK a \in Nat, b \in Nat : a = Before(k) /\ b = Before(i)
    BY <1>1
  <2>5. QED
    BY <2>3, <2>4
<1>8. QED
  BY <1>6, <1>7

LEMMA ProgKept == ASSUME [Next]_vars PROVE prog' = prog
BY DEF Next, vars, Conf, Count, CountFails, Helper, EntryPoint, EntryPointFails, EntriesEnd,
       NotAKernel, Hollow, BeginKernel, DeclareEnds, Scalar, Bindable, BindableFails, Local,
       LocalFails, Located, Refused, NoTable, KernelBroken, EndKernel, EndKernelFails, Body,
       BodyNotNoted, BodyNoTable, BodyFails, Assemble, Finished

\* The numbers do not change in a compilation.
LEMMA CountsKept ==
    ASSUME prog' = prog
    PROVE  /\ Kernels' = Kernels /\ NumEntp' = NumEntp
           /\ \A i : Before(i)' = Before(i)
           /\ \A i : at' = i => Before(at)' = Before(i)
BY DEF Kernels, NumEntp, Before
------------------------------------------------------------------------------
\* Types and constants: every id lies below the counter.
Words == {"val", "arr", "struct", "ptr", "vec", "psh", "struct128", "uniform", "spec"}
Name == Words \X Nat
IdsIn(m, next) == /\ next \in Nat /\ next >= FirstId
                  /\ \A n \in DOMAIN m : m[n] \in FirstId..(next - 1)

LEMMA RangeFinite ==
    ASSUME NEW S, NEW s \in Seq(S)
    PROVE  IsFiniteSet(Range(s))
<1>1. PICK n \in Nat : n = Len(s) /\ DOMAIN s = 1..n
  OBVIOUS
<1>2. IsFiniteSet(1..n)
  BY FS_Interval
<1>3. s \in [1..n -> Range(s)]
  BY <1>1 DEF Range
<1>4. s \in Surjection(1..n, Range(s))
  BY <1>1, <1>3 DEF Surjection, Range
<1>5. QED
  BY <1>2, <1>4, FS_Surjection

LEMMA MkAllIds ==
    ASSUME NEW s, IdsIn(s.made, s.next), NEW names \in Seq(Name)
    PROVE  LET m == MkAll(s, names) IN IdsIn(m.made, m.next) /\ m.next >= s.next
<1> DEFINE new == New(s, names)
           m == MkAll(s, names)
           before(n) == new \cap Earlier(names, n)
<1>1. IsFiniteSet(new)
  <2>1. IsFiniteSet(Range(names)) /\ new \in SUBSET Range(names)
    BY RangeFinite DEF New
  <2>2. QED
    BY <2>1, FS_Subset
<1>2. PICK c \in Nat : c = Cardinality(new)
  BY <1>1, FS_CardinalityType
<1>3. ASSUME NEW n \in new
      PROVE  \E d \in Nat : d = Cardinality(before(n)) /\ d < c
  <2>1. n \notin Earlier(names, n)
    <3> SUFFICES ASSUME n \in Earlier(names, n) PROVE FALSE
      OBVIOUS
    <3>1. PICK i \in DOMAIN names :
              names[i] = n /\ \A j \in DOMAIN names : names[j] = n => i < j
      BY DEF Earlier
    <3>2. i < i /\ i \in Nat
      BY <3>1
    <3>3. QED
      BY <3>2
  <2>2. before(n) \in SUBSET (new \ {n})
    BY <2>1
  <2>3. IsFiniteSet(new \ {n}) /\ Cardinality(new \ {n}) = c - 1
    BY <1>1, <1>2, <1>3, FS_RemoveElement
  <2>4. IsFiniteSet(before(n)) /\ Cardinality(before(n)) <= c - 1
    BY <2>2, <2>3, FS_Subset
  <2>5. Cardinality(before(n)) \in Nat
    BY <2>4, FS_CardinalityType
  <2>6. QED
    BY <2>4, <2>5
<1>4. PICK a \in Nat : a = s.next /\ a >= FirstId
  BY DEF IdsIn
<1>5. m.next = a + c
  BY <1>2, <1>4 DEF MkAll, Taken
<1>6. ASSUME NEW n \in DOMAIN m.made
      PROVE  m.made[n] \in FirstId..(m.next - 1)
  <2>1. m.made[n] = IF n \in DOMAIN s.made THEN s.made[n] ELSE a + Cardinality(before(n))
    BY <1>4, <1>6 DEF MkAll
  <2>2. CASE n \in DOMAIN s.made
    <3>1. m.made[n] \in FirstId..(a - 1)
      BY <1>4, <2>1, <2>2 DEF IdsIn
    <3>2. \A x \in FirstId..(a - 1) : x \in FirstId..(a + c - 1)
      BY ProgramAssumption
    <3>3. QED
      BY <1>5, <3>1, <3>2
  <2>3. CASE n \notin DOMAIN s.made
    <3>1. n \in new
      BY <1>6, <2>3 DEF MkAll, New
    <3>2. PICK d \in Nat : d = Cardinality(before(n)) /\ d < c
      BY <1>3, <3>1
    <3>3. m.made[n] = a + d
      BY <2>1, <2>3, <3>2
    <3>4. a + d \in FirstId..(a + c - 1)
      BY <1>4, <3>2, ProgramAssumption
    <3>5. QED
      BY <1>5, <3>3, <3>4
  <2>4. QED
    BY <2>2, <2>3
<1>7. m.next \in Nat /\ m.next >= FirstId /\ m.next >= s.next
  BY <1>4, <1>5, ProgramAssumption
<1>8. QED
  BY <1>6, <1>7 DEF IdsIn

LEMMA WordsOK ==
    /\ "val" \in Words /\ "arr" \in Words /\ "struct" \in Words /\ "ptr" \in Words
    /\ "vec" \in Words /\ "psh" \in Words /\ "struct128" \in Words
    /\ "uniform" \in Words /\ "spec" \in Words
BY DEF Words

LEMMA NameOK == ASSUME NEW w \in Words, NEW i \in Nat PROVE << w, i >> \in Name
BY DEF Name

LEMMA ShortSeqs ==
    ASSUME NEW S, NEW a \in S, NEW b \in S, NEW c \in S, NEW d \in S
    PROVE  << a >> \in Seq(S) /\ << a, b, c, d >> \in Seq(S) /\ << >> \in Seq(S)
OBVIOUS

LEMMA OneName ==
    ASSUME NEW w \in Words, NEW i \in Nat PROVE << << w, i >> >> \in Seq(Name)
BY NameOK, ShortSeqs, Zenon

LEMMA StructOK == ASSUME NEW n \in Nat PROVE Struct(n) \in Seq(Name)
<1>1. /\ << << "val", n >> >> \in Seq(Name) /\ << << "arr", n >> >> \in Seq(Name)
      /\ << << "struct", n >> >> \in Seq(Name)
  BY WordsOK, OneName, Zenon
<1>2. << >> \in Seq(Name)
  OBVIOUS
<1>3. (IF n = 1 THEN << >> ELSE << << "arr", n >> >>) \in Seq(Name)
  BY <1>1, <1>2, Zenon
<1>4. QED
  BY <1>1, <1>3, ConcatProperties, Zenon DEF Struct

LEMMA NamesOK ==
    ASSUME NEW n \in Nat
    PROVE  /\ StorageTypes \in Seq(Name) /\ UniformTypes \in Seq(Name)
           /\ Struct(n) \o << << "psh", n >> >> \in Seq(Name)
           /\ << << "vec", 4 >> >> \in Seq(Name)
<1>1. 1 \in Nat /\ 4 \in Nat
  OBVIOUS
<1>2. << << "ptr", 1 >> >> \in Seq(Name) /\ << << "psh", n >> >> \in Seq(Name)
      /\ << << "vec", 4 >> >> \in Seq(Name)
  BY <1>1, WordsOK, OneName, Zenon
<1>3. UniformTypes \in Seq(Name)
  <2>1. /\ << "vec", 4 >> \in Name /\ << "val", 1 >> \in Name
        /\ << "struct128", 1 >> \in Name /\ << "uniform", 1 >> \in Name
    BY <1>1, WordsOK, NameOK, Zenon
  <2>2. QED
    BY <2>1, ShortSeqs, Zenon DEF UniformTypes
<1>4. StorageTypes \in Seq(Name) /\ Struct(n) \o << << "psh", n >> >> \in Seq(Name)
  BY <1>1, <1>2, StructOK, ConcatProperties, Zenon DEF StorageTypes
<1>5. QED
  BY <1>2, <1>3, <1>4

\* The names of the types of a parameter, and the ids they are given.
LEMMA TypingIds ==
    ASSUME IdsIn(made, nextId), NEW typed
    PROVE  LET s == Typing(StorageTypes, typed)
           IN  IdsIn(s.made, s.next) /\ s.next >= nextId + 1
<1> DEFINE s == [made |-> made, next |-> nextId + 1]
<1>1. IdsIn(s.made, s.next)
  <2>1. PICK a \in Nat : a = nextId /\ a >= FirstId
    BY DEF IdsIn
  <2>2. \A x \in FirstId..(a - 1) : x \in FirstId..((a + 1) - 1)
    BY ProgramAssumption
  <2>3. a + 1 \in Nat /\ a + 1 >= FirstId
    BY <2>1, ProgramAssumption
  <2>4. QED
    BY <2>1, <2>2, <2>3 DEF IdsIn
<1>2. StorageTypes \in Seq(Name)
  BY NamesOK
<1>3. s.next >= nextId + 1 /\ s.next = nextId + 1
  BY DEF IdsIn
<1>4. LET m == MkAll(s, StorageTypes) IN IdsIn(m.made, m.next) /\ m.next >= s.next
  BY <1>1, <1>2, MkAllIds
<1> HIDE DEF s
<1>5. Typing(StorageTypes, typed) = IF typed THEN MkAll(s, StorageTypes) ELSE s
  BY DEF Typing, s
<1>6. QED
  BY <1>1, <1>3, <1>4, <1>5
------------------------------------------------------------------------------
\* The visit of the parameters of one kernel.
Fields == {"prm", "push", "bind", "arg", "io", "psh"}

LEMMA FieldsOK ==
    /\ DOMAIN NoVisit = Fields /\ NoVisit \in [Fields -> Nat]
    /\ NoVisit.prm = 1 /\ NoVisit.arg = 0
BY DEF NoVisit, Fields

LEMMA ErrorsOK ==
    /\ OK \in Errors /\ ALLOC_FAILED \in Errors /\ ALLOC_FAILED # OK
    /\ MET_INVAL \in Errors
    /\ \A k \in DOMAIN Why : Why[k] \in Errors
BY DEF Errors, OK, ALLOC_FAILED, MET_INVAL, Why

LEMMA FailsOK ==
    ASSUME fails \in 0..MaxFails, AllocFails
    PROVE  fails' \in 0..MaxFails /\ fails' # 0
BY ProgramAssumption DEF AllocFails

LEMMA IdsInNow == ASSUME TInv, pc # "conf" PROVE IdsIn(made, nextId)
BY TInvParts DEF IdsIn, IdsOK, Phases

LEMMA ParamsFacts ==
    ASSUME TInv, pc = "params"
    PROVE  /\ at \in Nat \ {0} /\ at \in DOMAIN prog /\ prog[at] \in Function
           /\ prog[at].params \in Seq(Parameter) /\ prog[at].kernel
           /\ w0 \in Nat /\ w0 = Before(at) /\ w0 < NumEntp
           /\ Len(entp) = NumEntp /\ NumEntp \in Nat /\ NumEntp <= Len(prog)
           /\ visit \in [Fields -> Nat]
<1>1. /\ prog \in Seq(Function) /\ at \in Kernels /\ w0 = Before(at) /\ Len(entp) = NumEntp
  BY TInvParts DEF Phases, Declares
<1>2. at \in DOMAIN prog /\ prog[at].kernel
  BY <1>1 DEF Kernels
<1>3. at \in Nat \ {0} /\ prog[at] \in Function
  BY <1>1, <1>2
<1>4. prog[at].params \in Seq(Parameter)
  BY <1>3 DEF Function
<1>5. w0 < NumEntp
  BY <1>1, BeforeGrows
<1>6. w0 \in Nat /\ visit \in [Fields -> Nat]
  BY TInvParts, FieldsOK DEF PhaseOK, TablesOK
<1>7. NumEntp \in Nat /\ NumEntp <= Len(prog)
  BY <1>1, KernelsFinite
<1>8. QED
  BY <1>1, <1>2, <1>3, <1>4, <1>5, <1>6, <1>7

LEMMA FetchingOK ==
    ASSUME TInv, NEW kinds, Fetching(kinds)
    PROVE  Param \in Parameter /\ Param.kind \in kinds
<1>1. pc = "params" /\ visit.prm <= Len(prog[at].params) /\ Param.kind \in kinds
  BY DEF Fetching, Param
<1>2. prog[at].params \in Seq(Parameter) /\ visit.prm \in Nat /\ visit.prm >= 1
  BY <1>1, ParamsFacts, TInvParts DEF Slots, Fields
<1>3. PICK n \in Nat, i \in Nat : n = Len(prog[at].params) /\ i = visit.prm
  BY <1>2
<1>4. i \in 1..n
  BY <1>1, <1>2, <1>3
<1>5. QED
  BY <1>1, <1>2, <1>3, <1>4 DEF Param

\* What every step of the visit keeps, and what each must show.
LEMMA ParamTInv ==
    ASSUME TInv, pc = "params",
           UNCHANGED << prog, pc, at, w0, entp, entries, fns, output, broken >>,
           err' \in Errors, fails' \in 0..MaxFails, IdsIn(made', nextId'),
           tables' \in Seq(Seq(Slot)), variables' \in Seq(VariableType),
           visit' \in [Fields -> Nat], visit'.prm >= 1,
           tables' # << >> => visit'.arg <= Len(tables'[Len(tables')])
    PROVE  TInv'
<1>1. PhaseOK'
  BY TInvParts DEF PhaseOK
<1>2. IdsOK'
  BY DEF IdsIn, IdsOK
<1>3. EntpOK'
  BY TInvParts DEF EntpOK
<1>4. TablesOK'
  BY FieldsOK DEF TablesOK
<1>5. Slots'
  BY DEF Slots
<1>6. Phases'
  <2>1. w0 = Before(at) /\ at \in Kernels /\ Len(entp) = NumEntp /\ prog \in Seq(Function)
    BY TInvParts DEF Phases, Declares
  <2>2. /\ w0' = Before(at)' /\ at' \in Kernels' /\ Len(entp') = NumEntp'
        /\ prog' \in Seq(Function)
    BY <2>1, CountsKept
  <2>3. nextId' >= FirstId
    BY DEF IdsIn
  <2>4. QED
    BY <2>2, <2>3 DEF Phases, Early
<1>7. QED
  BY <1>1, <1>2, <1>3, <1>4, <1>5, <1>6, TypePartsNext DEF TInv

\* The slot of a parameter is the last of the table, in which it grew.
LEMMA WithSlotOK ==
    ASSUME TInv, pc = "params", tables # << >>, NEW var \in Nat
    PROVE  /\ WithSlot(var) \in Seq(Seq(Slot))
           /\ Len(WithSlot(var)) = Len(tables)
           /\ Len(WithSlot(var)[Len(tables)]) = visit.arg + 1
<1> DEFINE last == tables[Len(tables)]
           slot == [prm |-> visit.prm, entp |-> w0, var |-> var]
           new == Append(SubSeq(last, 1, visit.arg), slot)
<1>1. tables \in Seq(Seq(Slot)) /\ visit.arg <= Len(last) /\ visit.prm >= 1
  BY TInvParts DEF TablesOK, Slots
<1>2. PICK n \in Nat, a \in Nat, p \in Nat :
          n = Len(tables) /\ a = visit.arg /\ p = visit.prm
  BY <1>1, ParamsFacts DEF Fields
<1>3. n >= 1 /\ n \in DOMAIN tables
  BY <1>1, <1>2
<1>4. last \in Seq(Slot)
  BY <1>1, <1>2, <1>3
<1>5. slot \in Slot
  BY <1>1, <1>2, ParamsFacts DEF Slot
<1>6. SubSeq(last, 1, a) \in Seq(Slot) /\ Len(SubSeq(last, 1, a)) = a
  <2>1. PICK m \in Nat : m = Len(last)
    BY <1>4
  <2>2. \A i \in 1..a : last[i] \in Slot
    BY <1>1, <1>2, <1>4, <2>1
  <2>3. QED
    BY <1>4, <2>2, SubSeqProperties
<1>7. new \in Seq(Slot) /\ Len(new) = a + 1
  BY <1>2, <1>5, <1>6
<1>8. WithSlot(var) = [tables EXCEPT ![n] = new]
  BY <1>2 DEF WithSlot
<1> HIDE DEF new
<1>9. QED
  BY <1>1, <1>2, <1>3, <1>7, <1>8

LEMMA WithSlotSlots ==
    ASSUME TInv, pc = "params", tables # << >>, NEW var \in Nat, tables' = WithSlot(var),
           visit' \in [Fields -> Nat], visit'.arg \in {visit.arg, visit.arg + 1}
    PROVE  /\ tables' \in Seq(Seq(Slot))
           /\ visit'.arg <= Len(tables'[Len(tables')])
<1>1. PICK a \in Nat : a = visit.arg
  BY ParamsFacts DEF Fields
<1>2. /\ tables' \in Seq(Seq(Slot)) /\ Len(tables'[Len(tables')]) = a + 1
  BY <1>1, WithSlotOK
<1>3. a <= a + 1 /\ a + 1 <= a + 1
  OBVIOUS
<1>4. QED
  BY <1>1, <1>2, <1>3

LEMMA BreakVisitOK ==
    ASSUME TInv, pc = "params", BreakVisit
    PROVE  visit' \in [Fields -> Nat] /\ visit'.prm >= 1 /\ visit'.arg = visit.arg
<1>1. visit \in [Fields -> Nat] /\ prog[at].params \in Seq(Parameter)
  BY ParamsFacts
<1>2. PICK n \in Nat : n = Len(prog[at].params) + 1 /\ n >= 1
  BY <1>1
<1>3. visit' = [visit EXCEPT !.prm = n]
  BY <1>2 DEF BreakVisit
<1>4. QED
  BY <1>1, <1>2, <1>3 DEF Fields

\* The visit goes on behind an argument.
LEMMA NextArgOK ==
    ASSUME TInv, pc = "params",
           \/ visit' = [visit EXCEPT !.arg = @ + 1, !.prm = @ + 1]
           \/ visit' = [visit EXCEPT !.bind = NextBinding, !.arg = @ + 1, !.prm = @ + 1]
           \/ visit' = [visit EXCEPT !.io = NextIo, !.arg = @ + 1, !.prm = @ + 1]
    PROVE  visit' \in [Fields -> Nat] /\ visit'.prm >= 1 /\ visit'.arg = visit.arg + 1
<1>1. visit \in [Fields -> Nat]
  BY ParamsFacts
<1>2. /\ visit.arg + 1 \in Nat /\ visit.prm + 1 \in Nat /\ visit.prm + 1 >= 1
      /\ NextBinding \in Nat /\ NextIo \in Nat
  BY <1>1 DEF Fields, NextBinding, NextIo
<1>3. QED
  BY <1>1, <1>2 DEF Fields

LEMMA VariableOK ==
    ASSUME TInv, pc = "params", NEW id \in Nat,
           NEW class \in {"StorageBuffer", "Uniform", "Workgroup", "Input", "PushConstant"},
           NEW typed \in BOOLEAN
    PROVE  /\ Variable(id, class, typed) \in VariableType
           /\ Append(variables, Variable(id, class, typed)) \in Seq(VariableType)
           /\ << >> \in Seq(VariableType)
<1>1. at \in Nat \ {0} /\ visit.prm \in Nat /\ variables \in Seq(VariableType)
  BY ParamsFacts, TInvParts DEF Fields, TablesOK
<1>2. Variable(id, class, typed) \in VariableType
  BY <1>1 DEF Variable, VariableType
<1>3. QED
  BY <1>1, <1>2, EmptySeq

LEMMA TypingFailsOK ==
    ASSUME TInv, NEW typed, TypingFails(typed) \/ AllocFails \/ UNCHANGED fails
    PROVE  fails' \in 0..MaxFails
BY FailsOK, TInvParts DEF PhaseOK, TypingFails

LEMMA IdsGrow ==
    ASSUME NEW m, NEW a, IdsIn(m, a), NEW b \in Nat, b >= a
    PROVE  IdsIn(m, b)
<1>1. a \in Nat /\ a >= FirstId /\ b >= FirstId
  BY ProgramAssumption DEF IdsIn
<1>2. \A x \in FirstId..(a - 1) : x \in FirstId..(b - 1)
  BY <1>1, ProgramAssumption
<1>3. QED
  BY <1>1, <1>2 DEF IdsIn

LEMMA ScalarTInv == ASSUME TInv, Scalar PROVE TInv'
<1> DEFINE psh == IF visit.push = 0 THEN nextId ELSE visit.psh
<1>1. pc = "params" /\ tables # << >> /\ visit \in [Fields -> Nat] /\ IdsIn(made, nextId)
  BY ParamsFacts, IdsInNow DEF Scalar, Fetching
<1>2. nextId \in Nat /\ psh \in Nat
  BY <1>1 DEF IdsIn, Fields
<1>3. visit' = [visit EXCEPT !.push = @ + 1, !.psh = psh, !.prm = @ + 1]
  BY DEF Scalar
<1>4. tables' = WithSlot(psh)
  BY DEF Scalar
<1>5. nextId' = IF visit.push = 0 THEN nextId + 1 ELSE nextId
  BY DEF Scalar
<1> HIDE DEF psh
<1>6. visit' \in [Fields -> Nat] /\ visit'.prm >= 1 /\ visit'.arg = visit.arg
  <2>1. visit.push + 1 \in Nat /\ visit.prm + 1 \in Nat /\ visit.prm + 1 >= 1
    BY <1>1 DEF Fields
  <2>2. QED
    BY <1>1, <1>2, <1>3, <2>1 DEF Fields
<1>7. tables' \in Seq(Seq(Slot)) /\ visit'.arg <= Len(tables'[Len(tables')])
  BY <1>1, <1>2, <1>4, <1>6, WithSlotSlots
<1>8. IdsIn(made', nextId')
  <2>1. PICK b \in Nat : b = (IF visit.push = 0 THEN nextId + 1 ELSE nextId) /\ b >= nextId
    BY <1>2
  <2>2. IdsIn(made, b)
    BY <1>1, <2>1, IdsGrow
  <2>3. QED
    BY <1>5, <2>1, <2>2 DEF Scalar
<1>9. UNCHANGED << prog, pc, at, w0, entp, entries, fns, output, broken, err, fails,
                   variables >>
  BY DEF Scalar, sections, history
<1>10. QED
  BY <1>1, <1>6, <1>7, <1>8, <1>9, ParamTInv, TInvParts DEF PhaseOK, TablesOK

LEMMA BindableTInv == ASSUME TInv, Bindable PROVE TInv'
<1>1. pc = "params" /\ tables # << >> /\ IdsIn(made, nextId) /\ nextId \in Nat
  BY IdsInNow DEF Bindable, Fetching, IdsIn
<1>2. PICK typed \in BOOLEAN :
        LET t == Typing(StorageTypes, typed)
            uniform == Param.kind = "constant"
            s == IF uniform THEN MkAll(t, UniformTypes) ELSE t
        IN  /\ TypingFails(typed)
            /\ made' = s.made /\ nextId' = s.next
            /\ variables' = Append(variables, Variable(nextId,
                                IF uniform THEN "Uniform" ELSE "StorageBuffer", uniform \/ typed))
  BY DEF Bindable
<1> DEFINE t == Typing(StorageTypes, typed)
           s == IF Param.kind = "constant" THEN MkAll(t, UniformTypes) ELSE t
<1>3. IdsIn(t.made, t.next)
  BY <1>1, TypingIds
<1>4. LET m == MkAll(t, UniformTypes) IN IdsIn(m.made, m.next)
  <2>1. UniformTypes \in Seq(Name)
    BY NamesOK
  <2> HIDE DEF t
  <2>2. QED
    BY <1>3, <2>1, MkAllIds
<1>5. IdsIn(s.made, s.next)
  BY <1>3, <1>4
<1>6. made' = s.made /\ nextId' = s.next
  BY <1>2
<1> HIDE DEF s, t
<1>7. IdsIn(made', nextId')
  BY <1>5, <1>6
<1>8. variables' \in Seq(VariableType)
  BY <1>1, <1>2, VariableOK
<1>9. /\ visit' \in [Fields -> Nat] /\ visit'.prm >= 1 /\ visit'.arg = visit.arg + 1
      /\ tables' = WithSlot(nextId)
  BY <1>1, NextArgOK DEF Bindable
<1>10. tables' \in Seq(Seq(Slot)) /\ visit'.arg <= Len(tables'[Len(tables')])
  BY <1>1, <1>9, WithSlotSlots
<1>11. UNCHANGED << prog, pc, at, w0, entp, entries, fns, output, broken >> /\ err' \in Errors
  BY ErrorsOK DEF Bindable
<1>12. fails' \in 0..MaxFails
  BY <1>2, TypingFailsOK
<1>13. QED
  BY <1>1, <1>7, <1>8, <1>9, <1>10, <1>11, <1>12, ParamTInv

\* A step that breaks the visit off behind the types of a parameter.
LEMMA BrokenParamTInv ==
    ASSUME TInv, pc = "params", tables # << >>, NEW var \in Nat, tables' = WithSlot(var),
           BreakVisit, err' \in Errors, fails' \in 0..MaxFails,
           IdsIn(made', nextId'), variables' \in {variables, << >>},
           UNCHANGED << prog, pc, at, w0, entp, entries, fns, output, broken >>
    PROVE  TInv'
<1>1. visit' \in [Fields -> Nat] /\ visit'.prm >= 1 /\ visit'.arg = visit.arg
  BY BreakVisitOK
<1>2. tables' \in Seq(Seq(Slot)) /\ visit'.arg <= Len(tables'[Len(tables')])
  BY <1>1, WithSlotSlots
<1>3. variables' \in Seq(VariableType)
  BY EmptySeq, TInvParts DEF TablesOK
<1>4. QED
  BY <1>1, <1>2, <1>3, ParamTInv

LEMMA StorageFailsTInv == ASSUME TInv, BindableFails \/ LocalFails PROVE TInv'
<1>1. pc = "params" /\ tables # << >> /\ IdsIn(made, nextId) /\ nextId \in Nat
  BY IdsInNow DEF BindableFails, LocalFails, Fetching, IdsIn
<1>2. LET s == Typing(StorageTypes, TRUE) IN IdsIn(s.made, s.next)
  BY <1>1, TypingIds
<1>3. LET s == Typing(StorageTypes, TRUE) IN made' = s.made /\ nextId' = s.next
  BY DEF BindableFails, LocalFails
<1>4. IdsIn(made', nextId')
  BY <1>2, <1>3
<1>5. /\ tables' = WithSlot(nextId) /\ BreakVisit /\ AllocFails
      /\ err' \in Errors /\ variables' \in {variables, << >>}
      /\ UNCHANGED << prog, pc, at, w0, entp, entries, fns, output, broken >>
  BY ErrorsOK, TInvParts DEF BindableFails, LocalFails, PhaseOK
<1>6. fails' \in 0..MaxFails
  BY <1>5, FailsOK, TInvParts DEF PhaseOK
<1>7. QED
  BY <1>1, <1>4, <1>5, <1>6, BrokenParamTInv

LEMMA RefusedTInv == ASSUME TInv, Refused PROVE TInv'
<1>1. pc = "params" /\ tables # << >> /\ IdsIn(made, nextId) /\ nextId \in Nat
  BY IdsInNow DEF Refused, Fetching, IdsIn
<1>2. PICK typed \in BOOLEAN :
        LET s == Typing(StorageTypes, typed)
        IN  TypingFails(typed) /\ made' = s.made /\ nextId' = s.next
  BY DEF Refused
<1>3. LET s == Typing(StorageTypes, typed) IN IdsIn(s.made, s.next)
  BY <1>1, TypingIds
<1>4. IdsIn(made', nextId')
  BY <1>2, <1>3
<1>5. fails' \in 0..MaxFails
  BY <1>2, TypingFailsOK
<1>6. err' \in Errors
  BY FetchingOK, ErrorsOK DEF Refused
<1>7. /\ tables' = WithSlot(nextId) /\ BreakVisit /\ variables' = variables
      /\ UNCHANGED << prog, pc, at, w0, entp, entries, fns, output, broken >>
  BY DEF Refused, sections
<1>8. QED
  BY <1>1, <1>4, <1>5, <1>6, <1>7, BrokenParamTInv

LEMMA NoTableTInv == ASSUME TInv, NoTable PROVE TInv'
<1>1. pc = "params" /\ IdsIn(made, nextId)
  BY IdsInNow DEF NoTable, Fetching
<1>2. IdsIn(made', nextId') /\ fails' \in 0..MaxFails
  BY <1>1, TypingFailsOK DEF NoTable
<1>3. /\ tables' = << >> /\ err' \in Errors /\ variables' = variables
      /\ UNCHANGED << prog, pc, at, w0, entp, entries, fns, output, broken >>
  BY ErrorsOK DEF NoTable, sections
<1>4. tables' \in Seq(Seq(Slot)) /\ variables' \in Seq(VariableType)
  BY <1>3, EmptySeq, TInvParts DEF TablesOK
<1>5. visit' \in [Fields -> Nat] /\ visit'.prm >= 1
  BY <1>1, BreakVisitOK DEF NoTable
<1>6. QED
  BY <1>1, <1>2, <1>3, <1>4, <1>5, ParamTInv

LEMMA LocalTypesOK ==
    ASSUME TInv, Fetching({"local"}) PROVE LocalTypes \in Seq(Name)
<1>1. Param \in Parameter
  BY FetchingOK
<1>2. Param.elm \in Nat /\ Param.num \in Nat /\ Param.spec \in Nat /\ 2 \in Nat /\ 3 \in Nat
  BY <1>1 DEF Parameter
<1>3. /\ << "val", Param.elm >> \in Name /\ << "val", 2 >> \in Name
      /\ << "val", 3 >> \in Name
      /\ << "val", Param.num >> \in Name /\ << "spec", Param.spec >> \in Name
  BY <1>2, WordsOK, NameOK, Zenon
<1>4. ArrCount \in Name
  BY <1>3, Zenon DEF ArrCount
<1>5. QED
  BY <1>3, <1>4, ShortSeqs, Zenon DEF LocalTypes

LEMMA LocalTInv == ASSUME TInv, Local PROVE TInv'
<1>1. pc = "params" /\ tables # << >> /\ IdsIn(made, nextId) /\ LocalTypes \in Seq(Name)
  BY IdsInNow, LocalTypesOK DEF Local, Fetching
<1>2. PICK typed \in BOOLEAN, declared \in BOOLEAN :
        LET s == MkAll(Typing(StorageTypes, typed), LocalTypes)
        IN  /\ IF declared THEN TypingFails(typed) ELSE typed /\ AllocFails
            /\ made' = s.made /\ nextId' = s.next + 6
            /\ tables' = WithSlot(LocalId(s))
            /\ IF declared
               THEN /\ variables' = Append(variables, Variable(LocalId(s), "Workgroup", TRUE))
                    /\ visit' = [visit EXCEPT !.arg = @ + 1, !.prm = @ + 1]
               ELSE variables' = << >> /\ BreakVisit
  BY DEF Local
<1> DEFINE t == Typing(StorageTypes, typed)
           s == MkAll(t, LocalTypes)
<1>3. IdsIn(t.made, t.next)
  BY <1>1, TypingIds
<1>4. IdsIn(s.made, s.next)
  <2> HIDE DEF t
  <2>1. QED
    BY <1>1, <1>3, MkAllIds
<1>5. /\ made' = s.made /\ nextId' = s.next + 6 /\ tables' = WithSlot(LocalId(s))
      /\ \/ /\ variables' = Append(variables, Variable(LocalId(s), "Workgroup", TRUE))
            /\ visit' = [visit EXCEPT !.arg = @ + 1, !.prm = @ + 1]
         \/ variables' = << >> /\ BreakVisit
  BY <1>2
<1> HIDE DEF s, t
<1>6. PICK a \in Nat : a = s.next
  BY <1>4 DEF IdsIn
<1>7. IdsIn(made', nextId') /\ LocalId(s) \in Nat
  <2>1. IdsIn(s.made, a + 6)
    BY <1>4, <1>6, IdsGrow
  <2>2. QED
    BY <1>5, <1>6, <2>1 DEF LocalId
<1>8. /\ variables' \in Seq(VariableType)
      /\ visit' \in [Fields -> Nat] /\ visit'.prm >= 1
      /\ visit'.arg \in {visit.arg, visit.arg + 1}
  BY <1>1, <1>5, <1>7, VariableOK, NextArgOK, BreakVisitOK
<1>9. tables' \in Seq(Seq(Slot)) /\ visit'.arg <= Len(tables'[Len(tables')])
  BY <1>1, <1>5, <1>7, <1>8, WithSlotSlots
<1>10. UNCHANGED << prog, pc, at, w0, entp, entries, fns, output, broken >> /\ err' \in Errors
  BY ErrorsOK DEF Local
<1>11. fails' \in 0..MaxFails
  BY <1>2, TypingFailsOK
<1>12. QED
  BY <1>1, <1>7, <1>8, <1>9, <1>10, <1>11, ParamTInv

\* The entry point of the kernel that is visited.
LEMMA EntpHere ==
    ASSUME TInv, pc = "params" PROVE entp[w0 + 1] \in EntpType
<1>1. PICK n \in Nat, w \in Nat : n = Len(entp) /\ w = w0 /\ w < n
  BY ParamsFacts
<1>2. w + 1 \in 1..n /\ entp \in Seq(EntpType)
  BY <1>1, TInvParts DEF EntpOK
<1>3. QED
  BY <1>1, <1>2

LEMMA LocatedTInv == ASSUME TInv, Located PROVE TInv'
<1> DEFINE var == entp[w0 + 1].io + visit.io
           vec == << << "vec", 4 >> >>
<1>1. pc = "params" /\ tables # << >> /\ IdsIn(made, nextId) /\ vec \in Seq(Name)
  BY IdsInNow, NamesOK DEF Located, Fetching
<1>2. PICK typed \in BOOLEAN, emitted \in BOOLEAN :
        LET s == MkAll(Typing(StorageTypes, typed), vec)
        IN  /\ IF emitted THEN TypingFails(typed) ELSE typed /\ AllocFails
            /\ made' = s.made /\ nextId' = s.next
            /\ tables' = WithSlot(var)
            /\ IF emitted
               THEN /\ variables' = Append(variables, Variable(var, "Input", TRUE))
                    /\ visit' = [visit EXCEPT !.io = NextIo, !.arg = @ + 1, !.prm = @ + 1]
                    /\ err' = OK
               ELSE /\ variables' \in {variables, << >>}
                    /\ BreakVisit /\ UNCHANGED err
  BY DEF Located
<1>3. var \in Nat
  <2>1. entp[w0 + 1] \in EntpType /\ visit \in [Fields -> Nat]
    BY <1>1, EntpHere, ParamsFacts
  <2>2. QED
    BY <2>1 DEF EntpType, Fields
<1> DEFINE t == Typing(StorageTypes, typed)
           s == MkAll(t, vec)
<1>4. IdsIn(t.made, t.next)
  BY <1>1, TypingIds
<1>5. IdsIn(s.made, s.next)
  <2> HIDE DEF t, vec
  <2>1. QED
    BY <1>1, <1>4, MkAllIds
<1>6. /\ made' = s.made /\ nextId' = s.next /\ tables' = WithSlot(var)
      /\ \/ /\ variables' = Append(variables, Variable(var, "Input", TRUE))
            /\ visit' = [visit EXCEPT !.io = NextIo, !.arg = @ + 1, !.prm = @ + 1]
            /\ err' = OK
         \/ variables' \in {variables, << >>} /\ BreakVisit /\ err' = err
  BY <1>2
<1> HIDE DEF s, t, var, vec
<1>7. IdsIn(made', nextId')
  BY <1>5, <1>6
<1>8. /\ variables' \in Seq(VariableType) /\ err' \in Errors
      /\ visit' \in [Fields -> Nat] /\ visit'.prm >= 1
      /\ visit'.arg \in {visit.arg, visit.arg + 1}
  BY <1>1, <1>3, <1>6, VariableOK, NextArgOK, BreakVisitOK, ErrorsOK, TInvParts
     DEF TablesOK, PhaseOK
<1>9. tables' \in Seq(Seq(Slot)) /\ visit'.arg <= Len(tables'[Len(tables')])
  BY <1>1, <1>3, <1>6, <1>8, WithSlotSlots
<1>10. UNCHANGED << prog, pc, at, w0, entp, entries, fns, output, broken >>
  BY DEF Located
<1>11. fails' \in 0..MaxFails
  BY <1>2, TypingFailsOK
<1>12. QED
  BY <1>1, <1>7, <1>8, <1>9, <1>10, <1>11, ParamTInv
------------------------------------------------------------------------------
\* What a step from one phase to another must show.
LEMMA PhaseTInv ==
    ASSUME TInv, prog' = prog,
           pc' \in {"count", "entries", "declare", "params", "bodies", "done", "crashed"},
           NEW a \in 1..(Len(prog) + 1), at' = a,
           NEW w \in 0..Len(prog), w0' = w,
           err' \in Errors, broken' \subseteq Errors \ {OK},
           fails' \in 0..MaxFails, output' \in BOOLEAN,
           IdsIn(made', nextId'), EntpOK',
           tables' \in Seq(Seq(Slot)), variables' \in Seq(VariableType),
           visit' \in {visit, NoVisit}, pc' = "params" => visit' = NoVisit,
           pc' = "count" => a = 1,
           pc' \in {"entries"} \cup Declares => w = Before(a),
           pc' = "params" => a \in Kernels,
           pc' \in {"entries", "bodies"} \cup Declares => Len(entp') = NumEntp,
           pc' = "bodies" => w <= NumEntp
    PROVE  TInv'
<1>1. PhaseOK'
  BY DEF PhaseOK
<1>2. IdsOK'
  BY DEF IdsIn, IdsOK
<1>3. /\ visit' \in [DOMAIN NoVisit -> Nat] /\ visit'.prm >= 1
      /\ pc' = "params" => visit'.arg = 0
  <2>1. CASE visit' = visit /\ pc' # "params"
    BY <2>1, TInvParts DEF TablesOK, Slots
  <2>2. CASE visit' = NoVisit
    BY <2>2, FieldsOK
  <2>3. QED
    BY <2>1, <2>2
<1>4. TablesOK'
  BY <1>3 DEF TablesOK
<1>5. Slots'
  <2>1. ASSUME pc' = "params", tables' # << >>
        PROVE  visit'.arg <= Len(tables'[Len(tables')])
    <3>1. PICK t \in Seq(Seq(Slot)) : t = tables'
      OBVIOUS
    <3>2. PICK n \in Nat : n = Len(t) /\ n >= 1
      BY <2>1, <3>1
    <3>3. t[n] \in Seq(Slot)
      BY <3>1, <3>2
    <3>4. PICK l \in Nat : l = Len(t[n])
      BY <3>3
    <3>5. 0 <= l
      OBVIOUS
    <3>6. QED
      BY <1>3, <2>1, <3>1, <3>2, <3>4, <3>5
  <2>2. QED
    BY <1>3, <2>1 DEF Slots
<1>6. Phases'
  <2>1. prog' \in Seq(Function) /\ nextId' >= FirstId
    BY TInvParts DEF IdsIn
  <2>2. Kernels' = Kernels /\ NumEntp' = NumEntp /\ Before(at)' = Before(a)
    BY CountsKept
  <2>3. QED
    BY <2>1, <2>2 DEF Phases, Early
<1>7. QED
  BY <1>1, <1>2, <1>4, <1>5, <1>6, TypePartsNext DEF TInv

\* What holds at the start of every such step.
LEMMA PhaseFacts ==
    ASSUME TInv
    PROVE  /\ prog \in Seq(Function) /\ Len(prog) \in Nat
           /\ at \in 1..(Len(prog) + 1) /\ w0 \in 0..Len(prog)
           /\ NumEntp \in 0..Len(prog)
           /\ err \in Errors /\ broken \subseteq Errors \ {OK}
           /\ fails \in 0..MaxFails /\ output \in BOOLEAN
           /\ EntpOK /\ tables \in Seq(Seq(Slot)) /\ variables \in Seq(VariableType)
           /\ << >> \in Seq(Seq(Slot)) /\ << >> \in Seq(VariableType)
           /\ << >> \in Seq(EntryType) /\ << >> \in Seq(FnType)
           /\ 1 \in 1..(Len(prog) + 1) /\ 0 \in 0..Len(prog) /\ Before(1) = 0
           /\ ALLOC_FAILED \in Errors /\ OK \in Errors /\ MET_INVAL \in Errors
           /\ ALLOC_FAILED # OK
<1>1. prog \in Seq(Function) /\ Len(prog) \in Nat
  BY TInvParts
<1>2. NumEntp \in 0..Len(prog) /\ Before(1) = 0
  BY <1>1, KernelsFinite, BeforeEnds
<1>3. 1 \in 1..(Len(prog) + 1) /\ 0 \in 0..Len(prog)
  BY <1>1
<1>4. QED
  BY <1>1, <1>2, <1>3, EmptySeq, ErrorsOK, TInvParts DEF PhaseOK, TablesOK

LEMMA ConfTInv == ASSUME TInv, Conf PROVE TInv'
<1>1. pc = "conf" /\ DOMAIN made = {} /\ at = 1
  BY TInvParts DEF Conf, Phases, Early
<1>2. IdsIn(made', nextId')
  <2>1. made' = made /\ nextId' = FirstId
    BY DEF Conf
  <2>2. FirstId \in Nat /\ FirstId >= FirstId
    BY ProgramAssumption
  <2>3. QED
    BY <1>1, <2>1, <2>2 DEF IdsIn
<1>3. /\ prog' = prog /\ at' = 1 /\ w0' = w0 /\ pc' \in {"count", "done"}
      /\ broken' = broken /\ output' = output /\ visit' = visit
      /\ variables' = variables /\ UNCHANGED << entp, entries, fns >>
      /\ tables' \in {tables, << >>} /\ err' \in {OK, ALLOC_FAILED}
      /\ (UNCHANGED fails \/ AllocFails)
  BY <1>1 DEF Conf, Cleanup, sections
<1>4. EntpOK'
  BY <1>3, TInvParts DEF EntpOK
<1>5. fails' \in 0..MaxFails
  BY <1>3, TypingFailsOK
<1>6. QED
  BY <1>2, <1>3, <1>4, <1>5, PhaseFacts, PhaseTInv DEF Declares

LEMMA CountTInv == ASSUME TInv, Count PROVE TInv'
<1>1. pc = "count" /\ at = 1 /\ IdsIn(made, nextId)
  BY IdsInNow, TInvParts DEF Count, Phases, Early
<1>2. PICK n \in Nat : n = NumEntp
  BY PhaseFacts
<1>3. entp' \in Seq(EntpType) /\ Len(entp') = n
  <2>1. entp' = [i \in 1..n |-> [id |-> 0, fn |-> 0, io |-> 0, num |-> 0]]
    BY <1>2 DEF Count
  <2>2. [id |-> 0, fn |-> 0, io |-> 0, num |-> 0] \in EntpType
    BY DEF EntpType
  <2>3. QED
    BY <2>1, <2>2
<1>4. IdsIn(made', nextId')
  <2>0. n \in 0..Len(prog) /\ Len(prog) \in Nat /\ nextId \in Nat
    BY <1>1, <1>2, PhaseFacts DEF IdsIn
  <2>1. PICK a \in Nat, l \in Nat : a = nextId /\ l = Len(prog) /\ n <= l
    BY <2>0
  <2>2. NumFn = l - n
    BY <1>2, <2>1 DEF NumFn
  <2>3. a + n + (l - n) \in Nat /\ a + n + (l - n) >= a
    BY <2>1
  <2>4. IdsIn(made, a + n + (l - n))
    BY <1>1, <2>1, <2>3, IdsGrow
  <2>5. QED
    BY <1>2, <2>1, <2>2, <2>4 DEF Count
<1>5. EntpOK'
  BY <1>3, TInvParts DEF EntpOK, Count, sections
<1>6. /\ prog' = prog /\ at' = 1 /\ w0' = 0 /\ pc' = "entries"
      /\ UNCHANGED << broken, output, visit, variables, tables, err, fails >>
  BY <1>1 DEF Count, sections, history
<1>7. QED
  BY <1>2, <1>3, <1>4, <1>5, <1>6, PhaseFacts, PhaseTInv DEF Declares

\* A step to another function of the same phase, or to the end.
LEMMA NextFunction ==
    ASSUME TInv, pc \in {"entries", "declare", "params"}, at <= Len(prog)
    PROVE  \E a \in Nat : /\ a = at /\ a \in 1..Len(prog) /\ a + 1 \in 1..(Len(prog) + 1)
                          /\ w0 = Before(a) /\ w0 \in Nat
                          /\ Before(a + 1) = IF prog[a].kernel THEN w0 + 1 ELSE w0
                          /\ prog[a].kernel => /\ w0 < NumEntp /\ w0 + 1 \in 0..Len(prog)
                                               /\ w0 + 1 \in 1..NumEntp
<1>1. PICK a \in Nat, l \in Nat : a = at /\ l = Len(prog) /\ a \in 1..l
  BY PhaseFacts
<1>2. w0 = Before(a) /\ w0 \in Nat
  BY <1>1, PhaseFacts, TInvParts DEF Phases, Declares
<1>3. Before(a + 1) = IF prog[a].kernel THEN w0 + 1 ELSE w0
  BY <1>1, <1>2, PhaseFacts, BeforeStep
<1>4. ASSUME prog[a].kernel
      PROVE  w0 < NumEntp /\ w0 + 1 \in 0..Len(prog) /\ w0 + 1 \in 1..NumEntp
  <2>1. a \in Kernels
    BY <1>1, <1>4, PhaseFacts DEF Kernels
  <2>2. w0 < NumEntp
    BY <1>2, <2>1, PhaseFacts, BeforeGrows
  <2>3. QED
    BY <1>1, <1>2, <2>2, PhaseFacts
<1>5. QED
  BY <1>1, <1>2, <1>3, <1>4

LEMMA HelperTInv == ASSUME TInv, Helper \/ NotAKernel PROVE TInv'
<1>1. /\ pc \in {"entries", "declare"} /\ at <= Len(prog) /\ ~prog[at].kernel
      /\ pc' = pc /\ at' = at + 1 /\ prog' = prog /\ nextId' \in {nextId, nextId + 1}
      /\ UNCHANGED << made, w0, broken, output, visit, variables, tables, err, fails,
                      entp, entries, fns >>
  BY DEF Helper, NotAKernel, Declaring, sections, history
<1>2. IdsIn(made, nextId)
  BY <1>1, IdsInNow
<1>3. PICK a \in Nat : /\ a = at /\ a + 1 \in 1..(Len(prog) + 1)
                       /\ w0 = Before(a + 1)
  BY <1>1, NextFunction
<1>4. IdsIn(made', nextId')
  <2>1. PICK i \in Nat : i = nextId /\ i + 1 >= i
    BY <1>2 DEF IdsIn
  <2>2. IdsIn(made, i + 1)
    BY <1>2, <2>1, IdsGrow
  <2>3. QED
    BY <1>1, <1>2, <2>1, <2>2
<1>5. EntpOK'
  BY <1>1, TInvParts DEF EntpOK
<1>6. Len(entp) = NumEntp
  BY <1>1, TInvParts DEF Phases, Declares
<1>7. QED
  BY <1>1, <1>3, <1>4, <1>5, <1>6, PhaseFacts, PhaseTInv DEF Declares

LEMMA InterfacesNat ==
    ASSUME NEW f \in Function
    PROVE  /\ Interfaces(f) \in Nat /\ PointerInputs(f) \in Nat
           /\ PointerInputs(f) <= Interfaces(f)
<1> DEFINE A == { i \in DOMAIN f.params : f.params[i].kind \in Annotated }
           I == { i \in DOMAIN f.params : f.params[i].kind = "input" }
<1>1. f.params \in Seq(Parameter)
  BY DEF Function
<1>2. PICK n \in Nat : DOMAIN f.params = 1..n
  BY <1>1
<1>3. A \in SUBSET (1..n) /\ I \in SUBSET A
  BY <1>2 DEF Annotated
<1>4. IsFiniteSet(A)
  <2>1. IsFiniteSet(1..n)
    BY FS_Interval
  <2>2. QED
    BY <1>3, <2>1, FS_Subset
<1>5. /\ IsFiniteSet(I) /\ Cardinality(I) <= Cardinality(A)
      /\ Cardinality(I) \in Nat /\ Cardinality(A) \in Nat
  BY <1>3, <1>4, FS_Subset, FS_CardinalityType
<1>6. QED
  BY <1>5 DEF Interfaces, PointerInputs

LEMMA ReservedOK ==
    ASSUME TInv, pc = "entries", at <= Len(prog), prog[at].kernel
    PROVE  /\ Reserved \in EntpType /\ Entry \in EntryType
           /\ [entp EXCEPT ![w0 + 1] = Reserved] \in Seq(EntpType)
           /\ Len([entp EXCEPT ![w0 + 1] = Reserved]) = NumEntp
           /\ Append(entries, Entry) \in Seq(EntryType)
           /\ IdsIn(made, nextId + Reserved.num)
<1>1. PICK a \in Nat : /\ a = at /\ a \in 1..Len(prog)
                       /\ w0 \in Nat /\ w0 + 1 \in 1..NumEntp
  BY NextFunction
<1>2. IdsIn(made, nextId) /\ nextId \in Nat
  BY IdsInNow DEF IdsIn
<1>3. prog[at] \in Function
  BY <1>1, PhaseFacts
<1>4. PICK n \in Nat : n = Interfaces(prog[at])
  BY <1>3, InterfacesNat
<1>5. Reserved \in EntpType /\ Reserved.num = n /\ Reserved.io = nextId /\ Reserved.id \in Nat
  <2>1. Anchor + w0 \in Nat
    BY <1>1, ProgramAssumption DEF Anchor
  <2>2. QED
    BY <1>1, <1>2, <1>4, <2>1 DEF Reserved, EntpType
<1>6. Entry \in EntryType
  <2>1. PICK k \in Nat : k = nextId
    BY <1>2
  <2>2. [i \in 1..n |-> k + i - 1] \in Seq(Nat)
    <3>1. \A i \in 1..n : k + i - 1 \in Nat
      OBVIOUS
    <3>2. QED
      BY <3>1
  <2>3. Entry = [id |-> Reserved.id, io |-> [i \in 1..n |-> k + i - 1]]
    BY <1>5, <2>1 DEF Entry
  <2>4. QED
    BY <1>5, <2>2, <2>3 DEF EntryType
<1>7. /\ [entp EXCEPT ![w0 + 1] = Reserved] \in Seq(EntpType)
      /\ Len([entp EXCEPT ![w0 + 1] = Reserved]) = NumEntp
  <2>1. entp \in Seq(EntpType) /\ Len(entp) = NumEntp
    BY TInvParts DEF EntpOK, Phases
  <2>2. QED
    BY <1>1, <1>5, <2>1
<1>8. Append(entries, Entry) \in Seq(EntryType)
  BY <1>6, TInvParts DEF EntpOK
<1>9. IdsIn(made, nextId + Reserved.num)
  <2>1. nextId + n \in Nat /\ nextId + n >= nextId
    BY <1>2
  <2>2. QED
    BY <1>2, <1>5, <2>1, IdsGrow
<1>10. QED
  BY <1>5, <1>6, <1>7, <1>8, <1>9

LEMMA EntryPointTInv == ASSUME TInv, EntryPoint PROVE TInv'
<1>1. /\ pc = "entries" /\ at <= Len(prog) /\ prog[at].kernel
      /\ pc' = pc /\ at' = at + 1 /\ w0' = w0 + 1 /\ prog' = prog
      /\ entp' = [entp EXCEPT ![w0 + 1] = Reserved] /\ entries' = Append(entries, Entry)
      /\ nextId' = nextId + Reserved.num /\ err' = OK
      /\ UNCHANGED << made, broken, output, visit, variables, tables, fails, fns >>
  BY DEF EntryPoint, history
<1>2. PICK a \in Nat, w \in Nat :
           /\ a = at /\ a + 1 \in 1..(Len(prog) + 1) /\ w = w0 + 1
           /\ w = Before(a + 1) /\ w \in 0..Len(prog)
  BY <1>1, NextFunction
<1>3. /\ entp' \in Seq(EntpType) /\ Len(entp') = NumEntp
      /\ entries' \in Seq(EntryType) /\ IdsIn(made', nextId')
  BY <1>1, ReservedOK
<1>4. EntpOK'
  BY <1>1, <1>3, TInvParts DEF EntpOK
<1>5. QED
  BY <1>1, <1>2, <1>3, <1>4, PhaseFacts, PhaseTInv DEF Declares

LEMMA EntryPointFailsTInv == ASSUME TInv, EntryPointFails PROVE TInv'
<1>1. /\ pc = "entries" /\ at <= Len(prog) /\ prog[at].kernel
      /\ pc' = "declare" /\ at' = 1 /\ w0' = 0 /\ prog' = prog
      /\ entp' = [entp EXCEPT ![w0 + 1] = Reserved]
      /\ entries' \in {<< >>, Append(entries, Entry)}
      /\ nextId' = nextId + Reserved.num /\ err' = ALLOC_FAILED
      /\ broken' = broken \cup {ALLOC_FAILED} /\ AllocFails
      /\ UNCHANGED << made, output, visit, variables, tables, fns >>
  BY DEF EntryPointFails
<1>2. /\ entp' \in Seq(EntpType) /\ Len(entp') = NumEntp
      /\ entries' \in Seq(EntryType) /\ IdsIn(made', nextId')
  BY <1>1, ReservedOK, PhaseFacts
<1>3. EntpOK'
  BY <1>1, <1>2, TInvParts DEF EntpOK
<1>4. fails' \in 0..MaxFails
  BY <1>1, TypingFailsOK
<1>5. broken' \subseteq Errors \ {OK}
  BY <1>1, PhaseFacts
<1>6. QED
  BY <1>1, <1>2, <1>3, <1>4, <1>5, PhaseFacts, PhaseTInv DEF Declares

\* The visits end: nothing changes but the place.
LEMMA EntriesEndTInv == ASSUME TInv, EntriesEnd \/ DeclareEnds PROVE TInv'
<1>1. /\ pc \in {"entries", "declare"} /\ prog' = prog
      /\ \/ pc' = "declare" /\ at' = 1 /\ w0' = 0
         \/ pc' = "bodies" /\ at' = at /\ w0' = NumEntp
      /\ UNCHANGED << err, nextId, made, entp, entries, fns, output, broken, visit,
                      variables, tables, fails >>
  BY DEF EntriesEnd, DeclareEnds, sections, history
<1>2. IdsIn(made', nextId')
  BY <1>1, IdsInNow
<1>3. EntpOK' /\ Len(entp') = NumEntp
  BY <1>1, TInvParts DEF EntpOK, Phases, Declares
<1>4. CASE pc' = "declare" /\ at' = 1 /\ w0' = 0
  BY <1>1, <1>2, <1>3, <1>4, PhaseFacts, PhaseTInv DEF Declares
<1>5. CASE pc' = "bodies" /\ at' = at /\ w0' = NumEntp
  <2>1. PICK a \in 1..(Len(prog) + 1), n \in 0..Len(prog) : a = at /\ n = NumEntp /\ n <= n
    BY PhaseFacts
  <2>2. QED
    BY <1>1, <1>2, <1>3, <1>5, <2>1, PhaseFacts, PhaseTInv DEF Declares
<1>6. QED
  BY <1>1, <1>4, <1>5

\* The table of a kernel is closed, by opening that of the next.
LEMMA CloseTableTInv ==
    ASSUME TInv, pc \in Declares, at <= Len(prog), prog[at].kernel, CloseTable,
           prog' = prog, err' \in Errors, IdsIn(made', nextId'),
           variables' \in Seq(VariableType),
           UNCHANGED << entp, visit, entries, fns, output, broken >>
    PROVE  TInv'
<1>1. EntpOK' /\ Len(entp') = NumEntp
  BY TInvParts DEF EntpOK, Phases
<1>2. CASE tables = << >> /\ pc' = "crashed" /\ UNCHANGED << at, w0, tables, fails >>
  <2>1. PICK a \in 1..(Len(prog) + 1), w \in 0..Len(prog) : a = at /\ w = w0
    BY PhaseFacts
  <2>2. QED
    BY <1>1, <1>2, <2>1, PhaseFacts, PhaseTInv DEF Declares
<1>3. CASE /\ tables # << >>
           /\ \/ tables' = Closed /\ UNCHANGED fails
              \/ AllocFails /\ tables' = << >>
           /\ pc' = "declare" /\ at' = at + 1 /\ w0' = w0 + 1
  <2>1. PICK a \in Nat, w \in Nat :
             /\ a = at /\ a + 1 \in 1..(Len(prog) + 1) /\ w = w0 + 1
             /\ w = Before(a + 1) /\ w \in 0..Len(prog)
    BY NextFunction DEF Declares
  <2>2. tables' \in Seq(Seq(Slot))
    <3>1. << >> \in Seq(Slot)
      BY EmptySeq
    <3>2. Closed \in Seq(Seq(Slot))
      BY <3>1, PhaseFacts, AppendProperties DEF Closed
    <3>3. QED
      BY <1>3, <3>2, PhaseFacts
  <2>3. fails' \in 0..MaxFails
    BY <1>3, TypingFailsOK
  <2>4. QED
    BY <1>1, <1>3, <2>1, <2>2, <2>3, PhaseFacts, PhaseTInv DEF Declares
<1>4. QED
  BY <1>2, <1>3 DEF CloseTable

LEMMA HollowTInv == ASSUME TInv, Hollow PROVE TInv'
<1>1. /\ pc = "declare" /\ at <= Len(prog) /\ prog[at].kernel /\ CloseTable
      /\ prog' = prog /\ err' = ALLOC_FAILED
      /\ UNCHANGED << made, nextId, variables, entp, visit, entries, fns, output, broken >>
  BY DEF Hollow, Declaring, sections
<1>2. IdsIn(made', nextId')
  BY <1>1, IdsInNow
<1>3. QED
  BY <1>1, <1>2, PhaseFacts, CloseTableTInv DEF Declares

LEMMA EndKernelTInv == ASSUME TInv, EndKernel PROVE TInv'
<1> DEFINE names == Struct(visit.push) \o << << "psh", visit.push >> >>
           s == [made |-> made, next |-> nextId]
           m == MkAll(s, names)
<1>1. /\ pc = "params" /\ CloseTable /\ prog' = prog /\ err' = err
      /\ \/ made' = m.made /\ nextId' = m.next /\ variables' = Append(variables, PushVariable)
         \/ UNCHANGED << made, nextId, variables >>
      /\ UNCHANGED << entp, visit, entries, fns, output, broken >>
  BY DEF EndKernel, Fetched
<1>2. IdsIn(made, nextId) /\ visit \in [Fields -> Nat] /\ prog[at].kernel
      /\ at \in 1..Len(prog)
  BY <1>1, IdsInNow, ParamsFacts
<1>3. visit.push \in Nat /\ visit.psh \in Nat
  BY <1>2 DEF Fields
<1>4. names \in Seq(Name)
  BY <1>3, NamesOK
<1>5. IdsIn(m.made, m.next)
  <2>1. IdsIn(s.made, s.next)
    BY <1>2
  <2> HIDE DEF s, names
  <2>2. QED
    BY <1>4, <2>1, MkAllIds
<1>6. Append(variables, PushVariable) \in Seq(VariableType)
  <2>1. Variable(visit.psh, "PushConstant", TRUE) \in VariableType
    BY <1>1, <1>3, VariableOK
  <2>2. PushVariable \in VariableType
    BY <2>1 DEF PushVariable, VariableType
  <2>3. QED
    BY <2>2, PhaseFacts, AppendProperties
<1> HIDE DEF m
<1>7. IdsIn(made', nextId') /\ variables' \in Seq(VariableType)
  BY <1>1, <1>2, <1>5, <1>6, PhaseFacts
<1>8. at <= Len(prog)
  BY <1>2, PhaseFacts
<1>9. QED
  BY <1>1, <1>2, <1>7, <1>8, PhaseFacts, CloseTableTInv DEF Declares

\* The visit of the declarations breaks off.
LEMMA BreakOffTInv ==
    ASSUME TInv, pc \in Declares, NEW e \in Errors \ {OK}, BreakOff(e),
           prog' = prog, at' = at, fails' \in 0..MaxFails, visit' \in {visit, NoVisit},
           variables' \in Seq(VariableType),
           UNCHANGED << made, nextId, entp, entries, fns, output, tables >>
    PROVE  TInv'
<1>1. EntpOK' /\ Len(entp') = NumEntp
  BY TInvParts DEF EntpOK, Phases
<1>2. IdsIn(made', nextId')
  BY IdsInNow DEF Declares
<1>3. /\ pc' = "bodies" /\ w0' = NumEntp /\ err' \in Errors
      /\ broken' \subseteq Errors \ {OK}
  BY PhaseFacts DEF BreakOff
<1>4. PICK a \in 1..(Len(prog) + 1), n \in 0..Len(prog) : a = at /\ n = NumEntp /\ n <= n
  BY PhaseFacts
<1>5. QED
  BY <1>1, <1>2, <1>3, <1>4, PhaseFacts, PhaseTInv DEF Declares

LEMMA BeginKernelTInv == ASSUME TInv, BeginKernel PROVE TInv'
<1>1. /\ pc = "declare" /\ at <= Len(prog) /\ prog[at].kernel /\ visit' = NoVisit
      /\ prog' = prog /\ at' = at
      /\ UNCHANGED << nextId, made, entp, tables, entries, variables, fns, output >>
  BY DEF BeginKernel, Declaring, sections
<1>2. CASE pc' = "params" /\ err' = ALLOC_FAILED /\ UNCHANGED << w0, history >>
  <2>1. broken' = broken /\ fails' = fails
    BY <1>2 DEF history
  <2>2. IdsIn(made', nextId')
    BY <1>1, IdsInNow
  <2>3. PICK a \in Nat, w \in 0..Len(prog) :
             a = at /\ a \in 1..Len(prog) /\ w = w0 /\ w = Before(a)
    BY <1>1, NextFunction, PhaseFacts
  <2>4. a \in Kernels /\ a \in 1..(Len(prog) + 1)
    BY <1>1, <2>3, PhaseFacts DEF Kernels
  <2>5. EntpOK' /\ Len(entp') = NumEntp
    BY <1>1, TInvParts DEF EntpOK, Phases, Declares
  <2>6. QED
    BY <1>1, <1>2, <2>1, <2>2, <2>3, <2>4, <2>5, PhaseFacts, PhaseTInv DEF Declares
<1>3. CASE AllocFails /\ BreakOff(ALLOC_FAILED)
  BY <1>1, <1>3, TypingFailsOK, PhaseFacts, BreakOffTInv DEF Declares
<1>4. QED
  BY <1>2, <1>3 DEF BeginKernel

LEMMA KernelBrokenTInv == ASSUME TInv, KernelBroken \/ EndKernelFails PROVE TInv'
<1>1. /\ pc = "params" /\ prog' = prog /\ at' = at /\ visit' = visit
      /\ \E e \in {err, ALLOC_FAILED} : e # OK /\ BreakOff(e)
      /\ variables' \in {variables, << >>}
      /\ (UNCHANGED fails \/ AllocFails)
      /\ UNCHANGED << made, nextId, entp, entries, fns, output, tables >>
  BY PhaseFacts DEF KernelBroken, EndKernelFails, Fetched, sections
<1>2. PICK e \in Errors \ {OK} : BreakOff(e)
  BY <1>1, PhaseFacts
<1>3. fails' \in 0..MaxFails /\ variables' \in Seq(VariableType)
  BY <1>1, TypingFailsOK, PhaseFacts
<1>4. QED
  BY <1>1, <1>2, <1>3, BreakOffTInv DEF Declares

\* A step that ends the compilation.
LEMMA StopTInv ==
    ASSUME TInv, pc # "conf", pc' \in {"done", "crashed"}, err' \in Errors,
           nextId' \in {nextId, nextId + 1}, UNCHANGED fails \/ AllocFails,
           output' \in BOOLEAN, fns' \in {fns, << >>},
           UNCHANGED << prog, at, made, w0, entp, tables, visit, entries, variables, broken >>
    PROVE  TInv'
<1>1. IdsIn(made', nextId')
  <2>1. PICK i \in Nat : i = nextId /\ i + 1 >= i
    BY IdsInNow DEF IdsIn
  <2>2. IdsIn(made, i) /\ IdsIn(made, i + 1)
    BY <2>1, IdsInNow, IdsGrow
  <2>3. QED
    BY <2>1, <2>2
<1>2. EntpOK'
  BY TInvParts, PhaseFacts DEF EntpOK
<1>3. PICK a \in 1..(Len(prog) + 1), w \in 0..Len(prog) : a = at /\ w = w0
  BY PhaseFacts
<1>4. fails' \in 0..MaxFails
  BY TypingFailsOK
<1>5. QED
  BY <1>1, <1>2, <1>3, <1>4, PhaseFacts, PhaseTInv DEF Declares

LEMMA StoppedTInv ==
    ASSUME TInv, CountFails \/ BodyNotNoted \/ BodyNoTable \/ BodyFails \/ Assemble
    PROVE  TInv'
<1>1. /\ pc # "conf" /\ pc' \in {"done", "crashed"}
      /\ err' \in {err, ALLOC_FAILED, MET_INVAL}
      /\ nextId' \in {nextId, nextId + 1}
      /\ (UNCHANGED fails \/ AllocFails)
      /\ output' \in {output, TRUE, FALSE} /\ fns' \in {fns, << >>}
      /\ UNCHANGED << prog, at, made, w0, entp, tables, visit, entries, variables, broken >>
  BY DEF CountFails, BodyNotNoted, BodyNoTable, BodyFails, Assemble, Cleanup, sections, history
<1>2. err' \in Errors /\ output' \in BOOLEAN
  BY <1>1, PhaseFacts
<1>3. QED
  BY <1>1, <1>2, StopTInv

LEMMA BodyTInv == ASSUME TInv, Body PROVE TInv'
<1>1. /\ pc = "bodies" /\ pc' = "bodies" /\ w0 > 0 /\ MayGoOn /\ entp[w0].fn # 0
      /\ w0' = w0 - 1 /\ err' = OK /\ nextId' = nextId + 1
      /\ fns' = Append(fns, [id |-> FunctionId, fn |-> entp[w0].fn,
                           table |-> IF HasTable THEN tables[w0] ELSE << >>])
      /\ (UNCHANGED fails \/ AllocFails)
      /\ UNCHANGED << prog, at, made, entp, tables, visit, entries, variables, output, broken >>
  BY DEF Body
<1>2. PICK w \in Nat, n \in Nat, l \in Nat :
           w = w0 /\ n = NumEntp /\ l = Len(prog) /\ 0 < w /\ w <= n /\ n <= l
  <2>1. w0 \in 0..Len(prog) /\ NumEntp \in 0..Len(prog) /\ w0 <= NumEntp /\ Len(prog) \in Nat
    BY <1>1, PhaseFacts, TInvParts DEF Phases
  <2>2. PICK l \in Nat : l = Len(prog)
    BY <2>1
  <2>3. PICK n \in 0..l, w \in 0..l : n = NumEntp /\ w = w0 /\ w <= n
    BY <2>1, <2>2
  <2>4. 0 < w /\ w \in Nat /\ n \in Nat /\ n <= l
    BY <1>1, <2>2, <2>3
  <2>5. QED
    BY <2>2, <2>3, <2>4
<1>3. Len(entp) = n /\ entp \in Seq(EntpType)
  BY <1>1, <1>2, TInvParts DEF Phases, EntpOK
<1>4. entp[w].fn \in Nat \ {0}
  <2>1. w \in 1..n
    BY <1>2
  <2>2. entp[w] \in EntpType
    BY <1>3, <2>1
  <2>3. QED
    BY <1>1, <1>2, <2>2 DEF EntpType
<1>5. (IF HasTable THEN tables[w] ELSE << >>) \in Seq(Slot)
  <2>1. CASE HasTable
    <3>1. tables \in Seq(Seq(Slot)) /\ w <= Len(tables)
      BY <1>2, <2>1, PhaseFacts DEF HasTable
    <3>2. w \in 1..Len(tables)
      BY <1>2, <3>1
    <3>3. QED
      BY <2>1, <3>1, <3>2
  <2>2. QED
    BY <2>1, EmptySeq
<1>6. FunctionId \in Nat
  <2>1. FirstId + w - 1 \in Nat
    BY <1>2, ProgramAssumption
  <2>2. QED
    BY <1>2, <2>1 DEF FunctionId, Anchor
<1>7. EntpOK' /\ Len(entp') = NumEntp
  <2> DEFINE f == [id |-> FunctionId, fn |-> entp[w].fn,
                   table |-> IF HasTable THEN tables[w] ELSE << >>]
  <2>1. f \in FnType
    BY <1>4, <1>5, <1>6 DEF FnType
  <2>2. fns' = Append(fns, f)
    BY <1>1, <1>2
  <2> HIDE DEF f
  <2>3. QED
    BY <1>1, <1>2, <1>3, <2>1, <2>2, TInvParts, AppendProperties DEF EntpOK
<1>8. IdsIn(made', nextId')
  <2>1. PICK i \in Nat : i = nextId /\ i + 1 >= i
    BY <1>1, IdsInNow DEF IdsIn
  <2>2. IdsIn(made, i + 1)
    BY <1>1, <2>1, IdsInNow, IdsGrow
  <2>3. QED
    BY <1>1, <2>1, <2>2
<1>9. fails' \in 0..MaxFails
  BY <1>1, TypingFailsOK
<1>10. PICK a \in 1..(Len(prog) + 1), x \in 0..Len(prog) :
            a = at /\ x = w - 1 /\ x <= n
  BY <1>2, PhaseFacts
<1>11. QED
  BY <1>1, <1>2, <1>7, <1>8, <1>9, <1>10, PhaseFacts, PhaseTInv DEF Declares

LEMMA InitTInv == Init => TInv
<1> SUFFICES ASSUME Init PROVE TInv
  OBVIOUS
<1>1. prog \in Seq(Function) /\ Len(prog) \in Nat
  BY ProgramAssumption DEF Init
<1>2. /\ pc = "conf" /\ at = 1 /\ err = OK /\ nextId = 0 /\ DOMAIN made = {}
      /\ w0 = 0 /\ entp = << >> /\ tables = << << >> >> /\ visit = NoVisit
      /\ entries = << >> /\ variables = << >> /\ fns = << >> /\ output = FALSE
      /\ broken = {} /\ fails = 0
  BY DEF Init
<1>3. PhaseOK
  <2>1. 1 \in 1..(Len(prog) + 1) /\ 0 \in 0..Len(prog) /\ 0 \in 0..MaxFails
    BY <1>1, ProgramAssumption
  <2>2. QED
    BY <1>2, <2>1, ErrorsOK DEF PhaseOK
<1>4. IdsOK /\ EntpOK
  BY <1>2, EmptySeq DEF IdsOK, EntpOK
<1>5. TablesOK
  <2>1. << >> \in Seq(Slot)
    BY EmptySeq
  <2>2. << << >> >> \in Seq(Seq(Slot))
    BY <2>1
  <2>3. QED
    BY <1>2, <2>2, EmptySeq, FieldsOK DEF TablesOK
<1>6. Phases /\ Slots
  BY <1>1, <1>2, FieldsOK DEF Phases, Slots, Early, Declares
<1>7. QED
  BY <1>3, <1>4, <1>5, <1>6, TypeParts DEF TInv

LEMMA NextTInv == ASSUME TInv, [Next]_vars PROVE TInv'
<1>1. CASE UNCHANGED vars
  <2>1. UNCHANGED << prog, pc, at, err, nextId, made, w0, entp, tables, visit, entries,
                     variables, fns, output, broken, fails >>
    BY <1>1 DEF vars, sections, history
  <2>2. TypeOK'
    BY <2>1, TInvParts DEF TypeOK
  <2>3. Kernels' = Kernels /\ NumEntp' = NumEntp /\ Before(at)' = Before(at)
    BY <2>1, CountsKept
  <2>4. Phases' /\ Slots'
    BY <2>1, <2>3, TInvParts DEF Phases, Slots
  <2>5. QED
    BY <2>2, <2>4 DEF TInv
<1>2. CASE Next
  BY <1>1, <1>2, ConfTInv, CountTInv, HelperTInv, EntryPointTInv, EntryPointFailsTInv,
     EntriesEndTInv, HollowTInv, BeginKernelTInv, ScalarTInv, BindableTInv,
     StorageFailsTInv, LocalTInv, LocatedTInv, RefusedTInv, NoTableTInv,
     KernelBrokenTInv, EndKernelTInv, BodyTInv, StoppedTInv DEF Next, Finished
<1>3. QED
  BY <1>1, <1>2

\* The types of what the phases of aclspv_compile share, the index of the entry
\* point and the last table among them, whatever is compiled and fails.
THEOREM TypeCorrect == Spec => []TypeOK
<1>1. TInv => TypeOK
  BY DEF TInv
<1>2. QED
  BY <1>1, InitTInv, NextTInv, PTL DEF Spec
------------------------------------------------------------------------------
(***************************************************************************)
(* The three computations of an entry point's id agree.                    *)
(***************************************************************************)
LEMMA NotedKept ==
    ASSUME prog' = prog, UNCHANGED << entries, entp, fns >>
    PROVE  /\ Kernels' = Kernels /\ NumEntp' = NumEntp
           /\ \A k : Before(k)' = Before(k)
           /\ \A k : Noted(k)' <=> Noted(k)
           /\ \A k : Compiled(k)' <=> Compiled(k)
<1>1. /\ Kernels' = Kernels /\ NumEntp' = NumEntp
      /\ \A k : Before(k)' = Before(k)
  BY CountsKept
<1>2. \A k : (Noted(k)' <=> Noted(k)) /\ (Compiled(k)' <=> Compiled(k))
  BY <1>1 DEF Noted, EntryOf, Compiled
<1>3. QED
  BY <1>1, <1>2

\* A step of the declarations.
LEMMA DeclaringCounted ==
    ASSUME TInv, Counted, fails = 0, pc \in Declares,
           pc' \in Declares \cup {"bodies", "crashed"}, pc' = "bodies" => w0' = NumEntp,
           prog' = prog, output' = output, UNCHANGED << entries, entp, fns >>
    PROVE  Counted'
<1>1. ~output /\ fns = << >> /\ Len(entries) = NumEntp /\ \A k \in Kernels : Noted(k)
  BY DEF Counted, Declares
<1>2. /\ Kernels' = Kernels /\ NumEntp' = NumEntp
      /\ \A k : Before(k)' = Before(k)
      /\ \A k : Noted(k)' <=> Noted(k)
      /\ \A k : Compiled(k)' <=> Compiled(k)
  BY NotedKept
<1>3. pc' \notin Early \cup {"entries"} /\ fns' = << >>
  BY <1>1 DEF Early, Declares
<1>4. ~output' /\ Len(entries') = NumEntp' /\ \A k \in Kernels' : Noted(k)'
  BY <1>1, <1>2
<1>5. ASSUME pc' = "bodies"
      PROVE  /\ Len(fns') = NumEntp' - w0'
             /\ \A k \in Kernels' : Before(k)' >= w0' => Compiled(k)'
  <2>1. PICK n \in Nat : n = NumEntp
    BY PhaseFacts
  <2>2. Len(fns') = 0 /\ n - n = 0
    BY <1>3
  <2>3. ASSUME NEW k \in Kernels PROVE ~(Before(k) >= n)
    <3>1. Before(k) \in Nat /\ Before(k) < n
      BY <2>1, PhaseFacts, KernelsFinite, BeforeGrows
    <3>2. PICK b \in Nat : b = Before(k) /\ b < n
      BY <3>1
    <3>3. QED
      BY <2>1, <3>2
  <2>4. QED
    BY <1>2, <1>5, <2>1, <2>2, <2>3
<1>6. QED
  BY <1>3, <1>4, <1>5, Zenon DEF Counted, Early

LEMMA ConfCounted == ASSUME TInv, Counted, fails = 0, Conf \/ Count, fails' = fails PROVE Counted'
<1>1. entries = << >> /\ fns = << >> /\ ~output
  BY DEF Counted, Conf, Count, Early
<1>2. /\ entries' = << >> /\ fns' = << >> /\ output' = output /\ prog' = prog
      /\ \/ pc' = "count"
         \/ pc' = "entries" /\ w0' = 0 /\ at' = 1
  <2>1. CASE Conf
    BY <1>1, <2>1, FailsOK, PhaseFacts DEF Conf, sections
  <2>2. CASE Count
    BY <1>1, <2>2, TInvParts DEF Count, sections, Phases, Early
  <2>3. QED
    BY <2>1, <2>2
<1>3. Kernels' = Kernels /\ \A k \in Kernels : ~(k < 1)
  BY <1>2, CountsKept, PhaseFacts, KernelsFinite
<1>4. Len(entries') = 0
  BY <1>2
<1>5. QED
  BY <1>1, <1>2, <1>3, <1>4 DEF Counted, Early, Declares

LEMMA HelperCounted == ASSUME TInv, Counted, fails = 0, Helper PROVE Counted'
<1>1. /\ pc = "entries" /\ pc' = pc /\ at <= Len(prog) /\ ~prog[at].kernel
      /\ prog' = prog /\ at' = at + 1 /\ w0' = w0 /\ output' = output /\ fails' = fails
      /\ UNCHANGED << entries, entp, fns >>
  BY DEF Helper, sections, history
<1>2. ~output /\ fns = << >> /\ Len(entries) = w0 /\ \A k \in Kernels : k < at => Noted(k)
  BY <1>1 DEF Counted, Early
<1>3. Kernels' = Kernels /\ \A k : Noted(k)' <=> Noted(k)
  BY <1>1, NotedKept
<1>4. ASSUME NEW k \in Kernels, k < at + 1 PROVE k < at
  <2>1. k \in Nat /\ at \in Nat /\ k # at
    BY <1>1, PhaseFacts, KernelsFinite DEF Kernels
  <2>2. QED
    BY <1>4, <2>1
<1>5. /\ Len(entries') = w0' /\ fns' = << >> /\ ~output'
      /\ \A k \in Kernels' : k < at' => Noted(k)'
  BY <1>1, <1>2, <1>3, <1>4
<1>6. QED
  BY <1>1, <1>5 DEF Counted, Early, Declares

LEMMA EntryPointCounted == ASSUME TInv, Counted, fails = 0, EntryPoint PROVE Counted'
<1>1. /\ pc = "entries" /\ pc' = pc /\ at <= Len(prog) /\ prog[at].kernel
      /\ prog' = prog /\ at' = at + 1 /\ w0' = w0 + 1 /\ output' = output /\ fails' = fails
      /\ fns' = fns
      /\ entries' = Append(entries, Entry) /\ entp' = [entp EXCEPT ![w0 + 1] = Reserved]
  BY DEF EntryPoint, sections, history
<1>2. /\ ~output /\ fns = << >> /\ Len(entries) = w0
      /\ \A k \in Kernels : k < at => Noted(k)
  BY <1>1 DEF Counted, Early
<1>3. PICK a \in Nat, w \in Nat :
           a = at /\ a \in 1..Len(prog) /\ w = w0 /\ w = Before(a) /\ w + 1 \in 1..NumEntp
  BY <1>1, NextFunction
<1>4. /\ entries \in Seq(EntryType) /\ entp \in Seq(EntpType) /\ Len(entp) = NumEntp
      /\ Entry \in EntryType /\ Reserved \in EntpType
  BY <1>1, ReservedOK, TInvParts DEF EntpOK, Phases
<1>5. PICK n \in Nat : n = NumEntp
  BY PhaseFacts
<1>6. Kernels' = Kernels /\ \A k : Before(k)' = Before(k)
  BY <1>1, CountsKept
<1>7. ASSUME NEW i \in 1..w
      PROVE  entries'[i] = entries[i] /\ entp'[i] = entp[i]
  <2>1. i # w + 1 /\ i \in 1..Len(entries) /\ i \in 1..Len(entp)
    BY <1>2, <1>3, <1>4, <1>5
  <2>2. QED
    BY <1>1, <1>3, <1>4, <2>1, AppendProperties
<1>8. entries'[w + 1] = Entry /\ entp'[w + 1] = Reserved
  <2>1. w + 1 \in DOMAIN entp /\ Len(entries) = w
    BY <1>2, <1>3, <1>4, <1>5
  <2>2. QED
    BY <1>1, <1>3, <1>4, <2>1, AppendProperties
<1>9. Len(entries') = w0'
  BY <1>1, <1>2, <1>3, <1>4, AppendProperties
<1>10. ASSUME NEW k \in Kernels, k < a + 1 PROVE Noted(k)'
  <2>1. CASE k = a
    <3>1. entries'[Before(k) + 1] = Entry /\ entp'[Before(k) + 1] = Reserved
      BY <1>3, <1>8, <2>1
    <3>2. Entry.id = Anchor + Before(k) /\ Reserved.fn = k
      BY <1>3, <2>1 DEF Entry, Reserved
    <3>3. QED
      BY <1>6, <3>1, <3>2 DEF Noted, EntryOf, Anchor
  <2>2. CASE k # a
    <3>1. k \in Nat /\ k < a
      BY <1>3, <1>10, <2>2, PhaseFacts, KernelsFinite
    <3>2. Before(k) \in Nat /\ Before(k) < Before(a)
      <4>1. prog \in Seq(Function) /\ a \in Int /\ k < a
        BY <3>1, PhaseFacts
      <4>2. Before(k) \in Nat
        BY <4>1, KernelsFinite
      <4>3. Before(k) < Before(a)
        BY <4>1, BeforeGrows, Zenon
      <4>4. QED
        BY <4>2, <4>3
    <3>3. PICK b \in Nat : b = Before(k) /\ b < w
      BY <1>3, <3>2
    <3>4. entries'[b + 1] = entries[b + 1] /\ entp'[b + 1] = entp[b + 1]
      BY <1>3, <1>7, <3>3
    <3>5. Noted(k)
      BY <1>2, <1>3, <3>1
    <3>6. QED
      BY <1>6, <3>3, <3>4, <3>5 DEF Noted, EntryOf, Anchor
  <2>3. QED
    BY <2>1, <2>2
<1>11. \A k \in Kernels' : k < at' => Noted(k)'
  BY <1>1, <1>3, <1>6, <1>10
<1>12. QED
  BY <1>1, <1>2, <1>9, <1>11 DEF Counted, Early, Declares

LEMMA EntriesEndCounted == ASSUME TInv, Counted, fails = 0, EntriesEnd PROVE Counted'
<1>1. /\ pc = "entries" /\ pc' = "declare" /\ at > Len(prog)
      /\ prog' = prog /\ output' = output /\ UNCHANGED << entries, entp, fns >>
  BY DEF EntriesEnd, sections
<1>2. ~output /\ fns = << >> /\ Len(entries) = w0 /\ \A k \in Kernels : k < at => Noted(k)
  BY <1>1 DEF Counted, Early
<1>3. w0 = NumEntp
  BY <1>1, PhaseFacts, BeforeEnds, TInvParts DEF Phases
<1>4. ASSUME NEW k \in Kernels PROVE Noted(k)
  <2>1. k \in Nat /\ k <= Len(prog)
    BY PhaseFacts, KernelsFinite
  <2>2. k < at
    BY <1>1, <2>1, PhaseFacts
  <2>3. QED
    BY <1>2, <2>2
<1>5. Kernels' = Kernels /\ NumEntp' = NumEntp /\ \A k : Noted(k)' <=> Noted(k)
  BY <1>1, NotedKept
<1>6. /\ Len(entries') = NumEntp' /\ fns' = << >> /\ ~output'
      /\ \A k \in Kernels' : Noted(k)'
  BY <1>1, <1>2, <1>3, <1>4, <1>5
<1>7. QED
  BY <1>1, <1>6 DEF Counted, Early, Declares

\* The body compiled last is that of the kernel before those compiled so far.
LEMMA BodyCounted == ASSUME TInv, Counted, fails = 0, Body PROVE Counted'
<1> DEFINE f == [id |-> FunctionId, fn |-> entp[w0].fn,
                 table |-> IF HasTable THEN tables[w0] ELSE << >>]
<1>1. /\ pc = "bodies" /\ pc' = pc /\ w0 > 0 /\ w0' = w0 - 1 /\ prog' = prog
      /\ fns' = Append(fns, f) /\ output' = output /\ UNCHANGED << entries, entp >>
  BY DEF Body
<1>2. /\ ~output /\ Len(entries) = NumEntp /\ \A k \in Kernels : Noted(k)
      /\ Len(fns) = NumEntp - w0
      /\ \A k \in Kernels : Before(k) >= w0 => Compiled(k)
  BY <1>1 DEF Counted, Early, Declares
<1>3. PICK n \in Nat, w \in Nat : n = NumEntp /\ w = w0 /\ 0 < w
  BY <1>1, PhaseFacts
<1>4. fns \in Seq(FnType) /\ f.id = FirstId + w - 1 /\ f.fn = entp[w].fn
  BY <1>3, TInvParts DEF EntpOK, FunctionId, Anchor
<1> HIDE DEF f
<1>5. f \in Range(fns') /\ \A g \in Range(fns) : g \in Range(fns')
  <2>1. PICK l \in Nat : /\ l = Len(fns) /\ Len(Append(fns, f)) = l + 1
                         /\ \A i \in 1..l : Append(fns, f)[i] = fns[i]
                         /\ Append(fns, f)[l + 1] = f
    BY <1>4, AppendProperties
  <2>2. DOMAIN fns = 1..l /\ DOMAIN fns' = 1..(l + 1)
    BY <1>1, <1>4, <2>1
  <2>3. l + 1 \in 1..(l + 1) /\ \A i \in 1..l : i \in 1..(l + 1)
    OBVIOUS
  <2>4. QED
    BY <1>1, <2>1, <2>2, <2>3 DEF Range
<1>6. /\ Kernels' = Kernels /\ NumEntp' = NumEntp /\ \A k : Before(k)' = Before(k)
      /\ \A k : Noted(k)' <=> Noted(k)
  <2>1. Kernels' = Kernels /\ NumEntp' = NumEntp /\ \A k : Before(k)' = Before(k)
    BY <1>1, CountsKept
  <2>2. QED
    BY <1>1, <2>1 DEF Noted, EntryOf, Anchor
<1>7. ASSUME NEW k \in Kernels, Before(k) >= w - 1 PROVE Compiled(k)'
  <2>1. Before(k) \in Nat
    BY PhaseFacts, KernelsFinite
  <2>2. PICK b \in Nat : b = Before(k) /\ b >= w - 1
    BY <1>7, <2>1
  <2>3. CASE b >= w
    <3>1. Compiled(k)
      BY <1>2, <1>3, <2>2, <2>3
    <3>2. PICK g \in Range(fns) : g.id = Anchor + Before(k) /\ g.fn = k
      BY <3>1 DEF Compiled
    <3>3. QED
      BY <1>5, <1>6, <3>2 DEF Compiled, Anchor
  <2>4. CASE ~(b >= w)
    <3>1. b + 1 = w /\ FirstId + w - 1 = FirstId + b
      BY <1>3, <2>2, <2>4, ProgramAssumption
    <3>2. entp[w].fn = k
      BY <1>2, <2>2, <3>1 DEF Noted
    <3>3. f.id = Anchor + Before(k) /\ f.fn = k
      BY <1>4, <2>2, <3>1, <3>2 DEF Anchor
    <3>4. QED
      BY <1>5, <1>6, <3>3 DEF Compiled, Anchor
  <2>5. QED
    BY <2>3, <2>4
<1>8. /\ Len(fns') = NumEntp' - w0'
      /\ \A k \in Kernels' : Before(k)' >= w0' => Compiled(k)'
  <2>1. Len(fns) = n - w /\ w0' = w - 1 /\ NumEntp' = n
    BY <1>1, <1>2, <1>3, <1>6
  <2>2. PICK l \in Nat : l = Len(fns) /\ Len(fns') = l + 1
    BY <1>1, <1>4, AppendProperties
  <2>3. l + 1 = n - (w - 1)
    BY <2>1, <2>2
  <2>4. QED
    BY <1>6, <1>7, <2>1, <2>2, <2>3
<1>9. /\ Len(entries') = NumEntp' /\ ~output' /\ \A k \in Kernels' : Noted(k)'
  BY <1>1, <1>2, <1>6
<1>10. QED
  BY <1>1, <1>8, <1>9 DEF Counted, Early, Declares

LEMMA AssembleCounted == ASSUME TInv, Counted, fails = 0, Assemble PROVE Counted'
<1>1. /\ pc = "bodies" /\ pc' = "done" /\ w0 = 0 /\ w0' = w0
      /\ prog' = prog /\ UNCHANGED << entries, entp, fns >>
  BY DEF Assemble, Cleanup
<1>2. /\ Len(entries) = NumEntp /\ \A k \in Kernels : Noted(k)
      /\ Len(fns) = NumEntp - w0
      /\ \A k \in Kernels : Before(k) >= w0 => Compiled(k)
  BY <1>1 DEF Counted, Early, Declares
<1>3. /\ Kernels' = Kernels /\ NumEntp' = NumEntp
      /\ \A k : Before(k)' = Before(k)
      /\ \A k : Noted(k)' <=> Noted(k)
      /\ \A k : Compiled(k)' <=> Compiled(k)
  BY <1>1, NotedKept
<1>4. /\ Len(entries') = NumEntp' /\ \A k \in Kernels' : Noted(k)'
      /\ Len(fns') = NumEntp' - w0'
      /\ \A k \in Kernels' : Before(k)' >= w0' => Compiled(k)'
  BY <1>1, <1>2, <1>3
<1>5. QED
  BY <1>1, <1>4 DEF Counted, Early, Declares

\* The module is assembled in the last step.
LEMMA OutputLast ==
    ASSUME TInv, Counted, Next
    PROVE  output' => pc' = "done"
<1>1. CASE output
  <2>1. pc = "done"
    BY <1>1 DEF Counted
  <2>2. Finished
    BY <2>1 DEF Next, Conf, Count, CountFails, Helper, EntryPoint, EntryPointFails, EntriesEnd,
       NotAKernel, Hollow, BeginKernel, DeclareEnds, Scalar, Bindable, BindableFails, Local,
       LocalFails, Located, Refused, NoTable, KernelBroken, EndKernel, EndKernelFails, Body,
       BodyNotNoted, BodyNoTable, BodyFails, Assemble, Declaring, Fetching, Fetched
  <2>3. QED
    BY <2>1, <2>2 DEF Finished, vars
<1>2. CASE ~output /\ ~Assemble
  <2>1. output' = output
    BY <1>2 DEF Next, Conf, Count, CountFails, Helper, EntryPoint, EntryPointFails, EntriesEnd,
       NotAKernel, Hollow, BeginKernel, DeclareEnds, Scalar, Bindable, BindableFails, Local,
       LocalFails, Located, Refused, NoTable, KernelBroken, EndKernel, EndKernelFails, Body,
       BodyNotNoted, BodyNoTable, BodyFails, Finished, vars, sections
  <2>2. QED
    BY <1>2, <2>1
<1>3. CASE Assemble
  BY <1>3 DEF Assemble, Cleanup
<1>4. QED
  BY <1>1, <1>2, <1>3

\* A failure is never forgotten.
LEMMA FailsKept ==
    ASSUME TInv, Next, fails' = 0
    PROVE  fails = 0 /\ ~AllocFails
<1>1. UNCHANGED fails \/ AllocFails
  BY DEF Next, Conf, Count, CountFails, Helper, EntryPoint, EntryPointFails, EntriesEnd,
     NotAKernel, Hollow, BeginKernel, DeclareEnds, Scalar, Bindable, BindableFails, Local,
     LocalFails, Located, Refused, NoTable, KernelBroken, EndKernel, EndKernelFails, Body,
     BodyNotNoted, BodyNoTable, BodyFails, Assemble, Finished, vars, history, TypingFails,
     CloseTable
<1>2. QED
  BY <1>1, FailsOK, PhaseFacts

\* The steps of the visit of the declarations, when nothing fails.
LEMMA DeclarationsCounted ==
    ASSUME TInv, Counted, fails = 0, ~AllocFails,
           \/ NotAKernel \/ Hollow \/ BeginKernel \/ DeclareEnds
           \/ Scalar \/ Bindable \/ Local \/ Located \/ Refused \/ NoTable
           \/ KernelBroken \/ EndKernel
    PROVE  Counted'
<1>1. /\ pc \in Declares
      /\ pc' \in Declares \cup {"bodies", "crashed"} /\ (pc' = "bodies" => w0' = NumEntp)
      /\ prog' = prog /\ output' = output /\ UNCHANGED << entries, entp, fns >>
  <2>1. CASE NotAKernel \/ DeclareEnds
    BY <2>1 DEF NotAKernel, DeclareEnds, Declaring, Declares, sections
  <2>5. CASE Hollow
    BY <2>5 DEF Hollow, Declaring, CloseTable, BreakOff, Declares, sections
  <2>6. CASE BeginKernel
    BY <2>6 DEF BeginKernel, Declaring, Declares, sections
  <2>2. CASE Scalar \/ Bindable \/ Local \/ Located \/ Refused \/ NoTable
    BY <2>2 DEF Scalar, Bindable, Local, Located, Refused, NoTable, Fetching, Declares,
       sections
  <2>3. CASE KernelBroken \/ EndKernel
    BY <2>3 DEF KernelBroken, EndKernel, Fetched, CloseTable, BreakOff, Declares, sections
  <2>4. QED
    BY <2>1, <2>2, <2>3, <2>5, <2>6
<1>2. QED
  BY <1>1, DeclaringCounted

LEMMA NextCounted == ASSUME TInv, Counted, [Next]_vars PROVE Counted'
<1>1. CASE UNCHANGED vars
  <2>1. UNCHANGED << prog, pc, at, w0, entp, entries, fns, output, fails >>
    BY <1>1 DEF vars, sections, history
  <2>2. /\ Kernels' = Kernels /\ NumEntp' = NumEntp
        /\ \A k : Before(k)' = Before(k)
        /\ \A k : Noted(k)' <=> Noted(k)
        /\ \A k : Compiled(k)' <=> Compiled(k)
    BY <2>1, NotedKept
  <2>3. QED
    BY <2>1, <2>2 DEF Counted
<1>2. CASE Next /\ fails' # 0
  BY <1>2, OutputLast DEF Counted
<1>3. CASE Next /\ fails' = 0
  <2>1. fails = 0 /\ ~AllocFails /\ fails' = fails
    BY <1>3, FailsKept
  <2>2. CASE Conf \/ Count
    BY <2>1, <2>2, ConfCounted
  <2>3. CASE \/ NotAKernel \/ Hollow \/ BeginKernel \/ DeclareEnds
             \/ Scalar \/ Bindable \/ Local \/ Located \/ Refused \/ NoTable
             \/ KernelBroken \/ EndKernel
    BY <2>1, <2>3, DeclarationsCounted
  <2>4. CASE CountFails \/ EntryPointFails \/ BindableFails \/ LocalFails \/ EndKernelFails
             \/ BodyFails
    BY <2>1, <2>4 DEF CountFails, EntryPointFails, BindableFails, LocalFails, EndKernelFails,
       BodyFails
  <2>5. CASE BodyNotNoted \/ BodyNoTable
    <3>1. pc = "bodies" /\ pc' = "done" /\ output' = output
      BY <2>5 DEF BodyNotNoted, BodyNoTable, Cleanup, sections
    <3>2. ~output
      BY <3>1 DEF Counted
    <3>3. QED
      BY <3>1, <3>2 DEF Counted, Early, Declares
  <2>6. CASE Finished
    BY <1>1, <2>6 DEF Finished
  <2>7. QED
    BY <1>3, <2>1, <2>2, <2>3, <2>4, <2>5, <2>6, HelperCounted, EntryPointCounted,
       EntriesEndCounted, BodyCounted, AssembleCounted DEF Next
<1>4. QED
  BY <1>1, <1>2, <1>3

\* Every entry point of a module that was assembled has one function with its
\* id, that of the kernel it names, for any number of kernels and helpers in
\* any order, with parameters of any kinds, some of them refused.
THEOREM EntryIdsAgreeAlways == Spec => []EntryIdsAgree
<1>1. Init => Counted
  BY DEF Init, Counted, Early, Declares
<1>2. TInv /\ Counted => EntryIdsAgree
  <2> SUFFICES ASSUME TInv, Counted, output, fails = 0
               PROVE  /\ Len(entries) = NumEntp /\ Len(fns) = NumEntp
                      /\ \A k \in Kernels : \E f \in Range(fns) :
                            f.id = EntryOf(k).id /\ f.fn = k
    BY DEF EntryIdsAgree
  <2>1. /\ Len(entries) = NumEntp /\ Len(fns) = NumEntp - w0 /\ w0 = 0
        /\ \A k \in Kernels : Noted(k)
        /\ \A k \in Kernels : Before(k) >= w0 => Compiled(k)
    BY DEF Counted
  <2>2. PICK n \in Nat : n = NumEntp
    BY PhaseFacts
  <2>3. n - 0 = n
    BY <2>2
  <2>4. Len(fns) = NumEntp
    BY <2>1, <2>2, <2>3
  <2>5. ASSUME NEW k \in Kernels
        PROVE  \E f \in Range(fns) : f.id = EntryOf(k).id /\ f.fn = k
    <3>1. PICK b \in Nat : b = Before(k)
      BY PhaseFacts, KernelsFinite
    <3>2. b >= 0
      BY <3>1
    <3>3. Noted(k) /\ Compiled(k)
      BY <2>1, <3>1, <3>2
    <3>4. QED
      BY <3>3 DEF Noted, Compiled
  <2>6. QED
    BY <2>1, <2>4, <2>5
<1>3. QED
  BY <1>1, <1>2, InitTInv, NextTInv, NextCounted, PTL DEF Spec
------------------------------------------------------------------------------
(***************************************************************************)
(* Types and constants: the ids of new names are new, and no two names     *)
(* share one.                                                              *)
(***************************************************************************)
Extends(m, x, m2, x2) ==
    /\ x \in Nat /\ x2 \in Nat /\ x <= x2
    /\ \A n \in DOMAIN m : n \in DOMAIN m2 /\ m2[n] = m[n]
    /\ \A n \in DOMAIN m2 : n \notin DOMAIN m => m2[n] \in x..(x2 - 1)
    /\ \A n, k \in DOMAIN m2 :
          n \notin DOMAIN m /\ k \notin DOMAIN m /\ m2[n] = m2[k] => n = k

LEMMA Least ==
    ASSUME NEW T \in SUBSET Nat, T # {}
    PROVE  \E x \in T : \A y \in T : x <= y
<1> DEFINE R == OpToRel(<, Nat)
<1>1. IsWellFoundedOn(R, Nat)
  BY NatLessThanWellFounded
<1>2. PICK x \in T : \A y \in T : ~(<< y, x >> \in R)
  <2> HIDE DEF R
  <2>1. QED
    BY <1>1, WFMin
<1>3. \A y \in T : ~(y < x)
  BY <1>2 DEF OpToRel
<1>4. QED
  BY <1>3

\* The place at which a name stands first.
LEMMA FirstPlace ==
    ASSUME NEW S, NEW names \in Seq(S), NEW n \in Range(names)
    PROVE  \E i \in DOMAIN names : /\ names[i] = n
                                   /\ \A j \in DOMAIN names : names[j] = n => i <= j
<1> DEFINE T == { i \in DOMAIN names : names[i] = n }
<1>1. T \in SUBSET Nat /\ T # {}
  BY DEF Range
<1>2. PICK i \in T : \A j \in T : i <= j
  BY <1>1, Least
<1>3. QED
  BY <1>2

\* Of two names, the one that stands first is counted before the other.
LEMMA EarlierGrows ==
    ASSUME NEW S, NEW names \in Seq(S), NEW n, NEW k,
           NEW i \in DOMAIN names, names[i] = n,
           NEW l \in DOMAIN names, names[l] = k,
           \A j \in DOMAIN names : names[j] = k => l <= j, i < l
    PROVE  Earlier(names, n) \cup {n} \subseteq Earlier(names, k)
<1>1. DOMAIN names \subseteq Nat
  OBVIOUS
<1>2. ASSUME NEW o \in Earlier(names, n) PROVE o \in Earlier(names, k)
  <2>1. PICK p \in DOMAIN names : o = names[p] /\ \A j \in DOMAIN names : names[j] = n => p < j
    BY DEF Earlier
  <2>2. p < i
    BY <2>1
  <2>3. ASSUME NEW j \in DOMAIN names, names[j] = k PROVE p < j
    <3>1. l <= j
      BY <2>3
    <3>2. QED
      BY <1>1, <2>2, <3>1
  <2>4. QED
    BY <2>1, <2>3 DEF Earlier
<1>3. n \in Earlier(names, k)
  <2>1. ASSUME NEW j \in DOMAIN names, names[j] = k PROVE i < j
    <3>1. l <= j
      BY <2>1
    <3>2. QED
      BY <1>1, <3>1
  <2>2. QED
    BY <2>1 DEF Earlier
<1>4. QED
  BY <1>2, <1>3

LEMMA NotEarlier ==
    ASSUME NEW S, NEW names \in Seq(S), NEW n PROVE n \notin Earlier(names, n)
<1> SUFFICES ASSUME n \in Earlier(names, n) PROVE FALSE
  OBVIOUS
<1>1. PICK i \in DOMAIN names :
          names[i] = n /\ \A j \in DOMAIN names : names[j] = n => i < j
  BY DEF Earlier
<1>2. i < i /\ i \in Nat
  BY <1>1
<1>3. QED
  BY <1>2

LEMMA MkAllExtends ==
    ASSUME NEW s, IdsIn(s.made, s.next), NEW names \in Seq(Name),
           NEW m, m = MkAll(s, names)
    PROVE  Extends(s.made, s.next, m.made, m.next)
<1> DEFINE new == New(s, names)
           before(n) == new \cap Earlier(names, n)
<1>1. IsFiniteSet(new) /\ new \subseteq Range(names)
  <2>1. IsFiniteSet(Range(names)) /\ new \in SUBSET Range(names)
    BY RangeFinite DEF New
  <2>2. QED
    BY <2>1, FS_Subset
<1>2. PICK a \in Nat : a = s.next
  BY DEF IdsIn
<1>3. /\ DOMAIN m.made = DOMAIN s.made \cup Range(names)
      /\ \A n \in DOMAIN s.made : m.made[n] = s.made[n]
      /\ \A n \in DOMAIN m.made : n \notin DOMAIN s.made =>
             n \in new /\ m.made[n] = a + Cardinality(before(n))
      /\ m.next = a + Cardinality(new)
  BY <1>2 DEF MkAll, Taken, New
<1>4. \A n : IsFiniteSet(before(n)) /\ Cardinality(before(n)) \in Nat
  <2>1. ASSUME NEW n PROVE IsFiniteSet(before(n)) /\ Cardinality(before(n)) \in Nat
    <3>1. before(n) \in SUBSET new
      OBVIOUS
    <3>2. QED
      BY <1>1, <3>1, FS_Subset, FS_CardinalityType
  <2>2. QED
    BY <2>1
<1>5. PICK c \in Nat : c = Cardinality(new)
  BY <1>1, FS_CardinalityType
<1>6. ASSUME NEW n \in new, NEW T, IsFiniteSet(T), before(n) \cup {n} \subseteq T
      PROVE  Cardinality(before(n)) + 1 <= Cardinality(T)
  <2>1. n \notin before(n)
    BY NotEarlier
  <2>2. Cardinality(before(n) \cup {n}) = Cardinality(before(n)) + 1
    BY <1>4, <2>1, FS_AddElement
  <2>3. before(n) \cup {n} \in SUBSET T
    BY <1>6
  <2>4. Cardinality(before(n) \cup {n}) <= Cardinality(T)
    BY <1>6, <2>3, FS_Subset
  <2>5. QED
    BY <2>2, <2>4
<1> HIDE DEF new
<1>7. ASSUME NEW n \in new PROVE a + Cardinality(before(n)) \in a..(a + c - 1)
  <2>1. before(n) \cup {n} \subseteq new
    OBVIOUS
  <2>2. Cardinality(before(n)) + 1 <= c
    BY <1>1, <1>5, <1>6, <2>1
  <2>3. PICK d \in Nat : d = Cardinality(before(n))
    BY <1>4
  <2>4. QED
    BY <2>2, <2>3
<1>8. ASSUME NEW n \in new, NEW k \in new, n # k
      PROVE  Cardinality(before(n)) # Cardinality(before(k))
  <2>1. PICK i \in DOMAIN names : names[i] = n /\ \A j \in DOMAIN names : names[j] = n => i <= j
    BY <1>1, FirstPlace
  <2>2. PICK l \in DOMAIN names : names[l] = k /\ \A j \in DOMAIN names : names[j] = k => l <= j
    BY <1>1, FirstPlace
  <2>3. i \in Nat /\ l \in Nat /\ i # l
    BY <1>8, <2>1, <2>2
  <2>4. PICK d \in Nat, e \in Nat : d = Cardinality(before(n)) /\ e = Cardinality(before(k))
    BY <1>4
  <2>5. CASE i < l
    <3>1. Earlier(names, n) \cup {n} \subseteq Earlier(names, k)
      BY <2>1, <2>2, <2>5, EarlierGrows
    <3>2. before(n) \cup {n} \subseteq before(k)
      BY <3>1
    <3>3. d + 1 <= e
      BY <1>4, <1>6, <2>4, <3>2
    <3>4. QED
      BY <2>4, <3>3
  <2>6. CASE l < i
    <3>1. Earlier(names, k) \cup {k} \subseteq Earlier(names, n)
      BY <2>1, <2>2, <2>6, EarlierGrows
    <3>2. before(k) \cup {k} \subseteq before(n)
      BY <3>1
    <3>3. e + 1 <= d
      BY <1>4, <1>6, <2>4, <3>2
    <3>4. QED
      BY <2>4, <3>3
  <2>7. QED
    BY <2>3, <2>5, <2>6
<1> HIDE DEF before
<1>9. ASSUME NEW n \in DOMAIN m.made, NEW k \in DOMAIN m.made,
             n \notin DOMAIN s.made, k \notin DOMAIN s.made, m.made[n] = m.made[k]
      PROVE  n = k
  <2>1. /\ n \in new /\ m.made[n] = a + Cardinality(before(n))
        /\ k \in new /\ m.made[k] = a + Cardinality(before(k))
    BY <1>3, <1>9
  <2>2. PICK d \in Nat, e \in Nat : d = Cardinality(before(n)) /\ e = Cardinality(before(k))
    BY <1>4
  <2>3. a + d = a + e
    BY <1>9, <2>1, <2>2, Zenon
  <2>4. d = e
    BY <2>3
  <2>5. QED
    BY <1>8, <2>1, <2>2, <2>4
<1>10. ASSUME NEW n \in DOMAIN m.made, n \notin DOMAIN s.made
       PROVE  m.made[n] \in a..(a + c - 1)
  BY <1>3, <1>7, <1>10
<1>11. a <= a + c /\ a + c \in Nat
  OBVIOUS
<1>12. QED
  BY <1>2, <1>3, <1>5, <1>9, <1>10, <1>11 DEF Extends

LEMMA ExtendsOn ==
    ASSUME NEW m, NEW x, NEW m2, NEW x2, Extends(m, x, m2, x2),
           NEW m3, NEW x3, Extends(m2, x2, m3, x3)
    PROVE  Extends(m, x, m3, x3)
<1>1. PICK a \in Nat, b \in Nat, c \in Nat : a = x /\ b = x2 /\ c = x3 /\ a <= b /\ b <= c
  BY DEF Extends
<1>2. \A n \in DOMAIN m : n \in DOMAIN m3 /\ m3[n] = m[n]
  BY DEF Extends
<1>3. ASSUME NEW n \in DOMAIN m3, n \notin DOMAIN m
      PROVE  \/ n \in DOMAIN m2 /\ m3[n] = m2[n] /\ m2[n] \in a..(b - 1)
             \/ n \notin DOMAIN m2 /\ m3[n] \in b..(c - 1)
  BY <1>1, <1>3 DEF Extends
<1>4. ASSUME NEW n \in DOMAIN m3, n \notin DOMAIN m PROVE m3[n] \in a..(c - 1)
  BY <1>1, <1>3, <1>4
<1>5. ASSUME NEW n \in DOMAIN m3, NEW k \in DOMAIN m3, n \notin DOMAIN m, k \notin DOMAIN m,
             m3[n] = m3[k]
      PROVE  n = k
  <2>1. CASE n \in DOMAIN m2 /\ k \in DOMAIN m2
    <3>1. m2[n] = m2[k]
      BY <1>3, <1>5, <2>1
    <3>2. QED
      BY <1>5, <2>1, <3>1 DEF Extends
  <2>2. CASE n \notin DOMAIN m2 /\ k \notin DOMAIN m2
    BY <1>5, <2>2 DEF Extends
  <2>3. CASE (n \in DOMAIN m2) # (k \in DOMAIN m2)
    <3>1. \/ m3[n] \in a..(b - 1) /\ m3[k] \in b..(c - 1)
          \/ m3[k] \in a..(b - 1) /\ m3[n] \in b..(c - 1)
      BY <1>3, <1>5, <2>3
    <3>2. QED
      BY <1>1, <1>5, <3>1
  <2>4. QED
    BY <2>1, <2>2, <2>3
<1>6. QED
  BY <1>1, <1>2, <1>4, <1>5 DEF Extends

LEMMA ExtendsNothing ==
    ASSUME NEW m, NEW x \in Nat, NEW y \in Nat, x <= y PROVE Extends(m, x, m, y)
BY DEF Extends

LEMMA ExtendsGap ==
    ASSUME NEW m, NEW x, NEW m2, NEW x2, Extends(m, x, m2, x2), NEW y \in Nat, x2 <= y
    PROVE  Extends(m, x, m2, y)
<1>1. Extends(m2, x2, m2, y)
  BY ExtendsNothing DEF Extends
<1>2. QED
  BY <1>1, ExtendsOn

LEMMA TypingExtends ==
    ASSUME IdsIn(made, nextId), NEW typed, NEW t, t = Typing(StorageTypes, typed)
    PROVE  Extends(made, nextId + 1, t.made, t.next) /\ IdsIn(t.made, t.next)
<1> DEFINE s == [made |-> made, next |-> nextId + 1]
<1>1. PICK a \in Nat : a = nextId /\ a + 1 >= a
  BY DEF IdsIn
<1>2. IdsIn(made, a + 1)
  BY <1>1, IdsGrow
<1>3. StorageTypes \in Seq(Name) /\ s.made = made /\ s.next = a + 1
  BY <1>1, NamesOK
<1> HIDE DEF s
<1>4. PICK u : u = MkAll(s, StorageTypes)
  OBVIOUS
<1>5. Extends(made, a + 1, u.made, u.next)
  BY <1>2, <1>3, <1>4, MkAllExtends
<1>6. Extends(made, a + 1, made, a + 1)
  BY ExtendsNothing
<1>7. t = IF typed THEN u ELSE s
  BY <1>4 DEF Typing, s
<1>8. IdsIn(t.made, t.next)
  BY TypingIds
<1>9. QED
  BY <1>1, <1>3, <1>5, <1>6, <1>7, <1>8
------------------------------------------------------------------------------
(***************************************************************************)
(* The blocks of ids: those of the entry points, of their interfaces, of   *)
(* the types and of the variables.                                         *)
(***************************************************************************)
\* The first id that is not an entry point's.
Low == FirstId + NumEntp

Listed(E, id) == \E k \in DOMAIN E : E[k].fn # 0 /\ E[k].io <= id /\ id < E[k].io + E[k].num

\* The interfaces reserved are those the visit of the parameters will meet, and
\* the blocks follow each other.
Blocks(E, low, x) ==
    /\ \A k \in DOMAIN E : E[k].fn # 0 =>
          /\ E[k].id = FirstId + k - 1 /\ E[k].id < low
          /\ E[k].num = Interfaces(prog[E[k].fn])
          /\ low <= E[k].io /\ E[k].io + E[k].num <= x
    /\ \A k, j \in DOMAIN E :
          k < j /\ E[k].fn # 0 /\ E[j].fn # 0 => E[k].io + E[k].num <= E[j].io

MadeApart(E, M, low, x) ==
    /\ \A n \in DOMAIN M : M[n] \in low..(x - 1) /\ ~Listed(E, M[n])
    /\ \A n, m \in DOMAIN M : M[n] = M[m] => n = m

VariablesApart(E, M, V, low, x) ==
    /\ \A i \in DOMAIN V : /\ V[i].id \in low..(x - 1)
                           /\ \A n \in DOMAIN M : M[n] # V[i].id
                           /\ V[i].class # "Input" => ~Listed(E, V[i].id)
    /\ \A i, j \in DOMAIN V : V[i].id = V[j].id => i = j

\* An id that was taken and that nothing has been defined with.
Held(E, M, V, low, x, h) ==
    /\ h \in low..(x - 1) /\ ~Listed(E, h)
    /\ \A n \in DOMAIN M : M[n] # h
    /\ \A i \in DOMAIN V : V[i].id # h

InputsBefore(p) ==
    Cardinality({ i \in DOMAIN prog[at].params : i < p /\ prog[at].params[i].kind = "input" })

Frontier ==
    pc \in Declares /\ w0 < NumEntp /\ entp[w0 + 1].fn # 0 =>
        \A i \in DOMAIN variables : variables[i].class = "Input" =>
            variables[i].id < entp[w0 + 1].io + (IF pc = "params" THEN visit.io ELSE 0)

\* Before the declarations nothing but ids was taken.
Reserving ==
    /\ pc \in Early => entp = << >>
    /\ pc \notin Early => nextId >= Low
    /\ pc \in Early \cup {"entries"} => variables = << >> /\ DOMAIN made = {}
    /\ pc = "entries" => \A k \in DOMAIN entp : entp[k].fn # 0 => k <= w0
    /\ \A i \in DOMAIN entries : entries[i].id = FirstId + i - 1

Apart ==
    /\ Blocks(entp, Low, nextId)
    /\ MadeApart(entp, made, Low, nextId)
    /\ VariablesApart(entp, made, variables, Low, nextId)

Visiting ==
    pc = "params" =>
        /\ visit.push > 0 => Held(entp, made, variables, Low, nextId, visit.psh)
        /\ visit.io <= InputsBefore(visit.prm)

UInv == fails = 0 => Reserving /\ Apart /\ Visiting /\ Frontier

\* There is room for more ids.
Roomy(E, low, x) == /\ low \in Nat /\ x \in Nat /\ low <= x
                    /\ \A id \in Nat : Listed(E, id) => id < x

LEMMA MadeGrows ==
    ASSUME NEW E, NEW low, NEW x, Roomy(E, low, x),
           NEW M, MadeApart(E, M, low, x),
           NEW M2, NEW x2, Extends(M, x, M2, x2)
    PROVE  MadeApart(E, M2, low, x2)
<1>1. PICK a \in Nat, b \in Nat, l \in Nat : a = x /\ b = x2 /\ l = low /\ l <= a /\ a <= b
  BY DEF Extends, Roomy
<1>2. \A n \in DOMAIN M : M[n] \in l..(a - 1) /\ ~Listed(E, M[n])
  BY <1>1 DEF MadeApart
<1>3. \A n \in DOMAIN M : n \in DOMAIN M2 /\ M2[n] = M[n]
  BY DEF Extends
<1>4. \A n \in DOMAIN M2 : n \notin DOMAIN M => M2[n] \in a..(b - 1)
  BY <1>1 DEF Extends
<1>5. ASSUME NEW n \in DOMAIN M2
      PROVE  M2[n] \in l..(b - 1) /\ ~Listed(E, M2[n])
  <2>1. CASE n \in DOMAIN M
    <3>1. M2[n] \in l..(a - 1) /\ ~Listed(E, M2[n])
      BY <1>2, <1>3, <2>1
    <3>2. QED
      BY <1>1, <3>1
  <2>2. CASE n \notin DOMAIN M
    <3>1. M2[n] \in a..(b - 1)
      BY <1>4, <2>2
    <3>2. M2[n] \in Nat /\ ~(M2[n] < a) /\ M2[n] \in l..(b - 1)
      BY <1>1, <3>1
    <3>3. ~Listed(E, M2[n])
      BY <1>1, <3>2 DEF Roomy
    <3>4. QED
      BY <3>2, <3>3
  <2>3. QED
    BY <2>1, <2>2
<1>6. ASSUME NEW n \in DOMAIN M2, NEW k \in DOMAIN M2, M2[n] = M2[k] PROVE n = k
  <2>1. CASE n \in DOMAIN M /\ k \in DOMAIN M
    <3>1. M[n] = M[k]
      BY <1>3, <1>6, <2>1
    <3>2. QED
      BY <2>1, <3>1 DEF MadeApart
  <2>2. CASE n \notin DOMAIN M /\ k \notin DOMAIN M
    BY <1>6, <2>2 DEF Extends
  <2>3. CASE (n \in DOMAIN M) # (k \in DOMAIN M)
    <3>1. \/ M2[n] \in l..(a - 1) /\ M2[k] \in a..(b - 1)
          \/ M2[k] \in l..(a - 1) /\ M2[n] \in a..(b - 1)
      BY <1>2, <1>3, <1>4, <2>3
    <3>2. QED
      BY <1>1, <1>6, <3>1
  <2>4. QED
    BY <2>1, <2>2, <2>3
<1>7. QED
  BY <1>1, <1>5, <1>6 DEF MadeApart

LEMMA HeldGrows ==
    ASSUME NEW E, NEW low, NEW x, Roomy(E, low, x),
           NEW M, NEW V, NEW h, Held(E, M, V, low, x, h),
           NEW M2, NEW x2, Extends(M, x, M2, x2)
    PROVE  Held(E, M2, V, low, x2, h)
<1>1. PICK a \in Nat, b \in Nat, l \in Nat : a = x /\ b = x2 /\ l = low /\ l <= a /\ a <= b
  BY DEF Extends, Roomy
<1>2. h \in l..(a - 1) /\ \A n \in DOMAIN M : M[n] # h
  BY <1>1 DEF Held
<1>3. h \in l..(b - 1)
  BY <1>1, <1>2
<1>4. ASSUME NEW n \in DOMAIN M2 PROVE M2[n] # h
  <2>1. CASE n \in DOMAIN M
    BY <1>2, <2>1 DEF Extends
  <2>2. CASE n \notin DOMAIN M
    <3>1. M2[n] \in a..(b - 1)
      BY <1>1, <2>2 DEF Extends
    <3>2. QED
      BY <1>1, <1>2, <3>1
  <2>3. QED
    BY <2>1, <2>2
<1>5. QED
  BY <1>1, <1>3, <1>4 DEF Held

LEMMA VariablesGrow ==
    ASSUME NEW E, NEW low, NEW x, Roomy(E, low, x),
           NEW M, NEW V, VariablesApart(E, M, V, low, x),
           NEW M2, NEW x2, Extends(M, x, M2, x2)
    PROVE  VariablesApart(E, M2, V, low, x2)
<1>1. PICK a \in Nat, b \in Nat, l \in Nat : a = x /\ b = x2 /\ l = low /\ l <= a /\ a <= b
  BY DEF Extends, Roomy
<1>2. ASSUME NEW i \in DOMAIN V
      PROVE  V[i].id \in l..(b - 1) /\ \A n \in DOMAIN M2 : M2[n] # V[i].id
  <2>1. V[i].id \in l..(a - 1) /\ \A n \in DOMAIN M : M[n] # V[i].id
    BY <1>1 DEF VariablesApart
  <2>2. PICK d \in Nat : d = V[i].id /\ l <= d /\ d < a
    BY <2>1
  <2>3. ASSUME NEW n \in DOMAIN M2 PROVE M2[n] # d
    <3>1. CASE n \in DOMAIN M
      BY <2>1, <2>2, <3>1 DEF Extends
    <3>2. CASE n \notin DOMAIN M
      <4>1. M2[n] \in a..(b - 1)
        BY <1>1, <3>2 DEF Extends
      <4>2. QED
        BY <1>1, <2>2, <4>1
    <3>3. QED
      BY <3>1, <3>2
  <2>4. QED
    BY <1>1, <2>2, <2>3
<1>3. QED
  BY <1>1, <1>2 DEF VariablesApart

\* The next id is held by whoever takes it.
LEMMA NextHeld ==
    ASSUME NEW E, NEW low, NEW x, Roomy(E, low, x),
           NEW M, MadeApart(E, M, low, x),
           NEW V, VariablesApart(E, M, V, low, x),
           NEW y \in Nat, x < y
    PROVE  Held(E, M, V, low, y, x)
<1>1. PICK a \in Nat, l \in Nat : a = x /\ l = low /\ l <= a /\ a < y
  BY DEF Roomy
<1>2. a \in l..(y - 1)
  BY <1>1
<1>3. ~Listed(E, a)
  <2>1. ~(a < a)
    OBVIOUS
  <2>2. QED
    BY <1>1, <2>1 DEF Roomy
<1>4. ASSUME NEW n \in DOMAIN M PROVE M[n] # a
  <2>1. M[n] \in l..(a - 1)
    BY <1>1 DEF MadeApart
  <2>2. QED
    BY <2>1
<1>5. ASSUME NEW i \in DOMAIN V PROVE V[i].id # a
  <2>1. V[i].id \in l..(a - 1)
    BY <1>1 DEF VariablesApart
  <2>2. QED
    BY <2>1
<1>6. QED
  BY <1>1, <1>2, <1>3, <1>4, <1>5 DEF Held

LEMMA Appended ==
    ASSUME NEW S, NEW V \in Seq(S), NEW v \in S, NEW W, W = Append(V, v)
    PROVE  \E l \in Nat : /\ DOMAIN V = 1..l /\ DOMAIN W = 1..(l + 1)
                          /\ l + 1 \in 1..(l + 1) /\ W[l + 1] = v
                          /\ \A i \in DOMAIN W : i # l + 1 => i \in DOMAIN V /\ W[i] = V[i]
                          /\ \A i \in DOMAIN V : i \in DOMAIN W /\ W[i] = V[i]
<1>1. PICK l \in Nat : /\ l = Len(V) /\ Len(W) = l + 1 /\ W \in Seq(S)
                       /\ \A i \in 1..l : W[i] = V[i]
                       /\ W[l + 1] = v
  BY AppendProperties
<1>2. DOMAIN V = 1..l /\ DOMAIN W = 1..(l + 1) /\ l + 1 \in 1..(l + 1)
  BY <1>1
<1>3. \A i \in 1..(l + 1) : i # l + 1 => i \in 1..l
  OBVIOUS
<1>4. \A i \in 1..l : i \in 1..(l + 1)
  OBVIOUS
<1>5. QED
  BY <1>1, <1>2, <1>3, <1>4

\* A variable gets an id that none has.
LEMMA AppendApart ==
    ASSUME NEW E, NEW low, NEW x, NEW M,
           NEW V \in Seq(VariableType), VariablesApart(E, M, V, low, x),
           NEW v \in VariableType, v.id \in low..(x - 1),
           \A n \in DOMAIN M : M[n] # v.id, \A i \in DOMAIN V : V[i].id # v.id,
           v.class # "Input" => ~Listed(E, v.id),
           NEW W, W = Append(V, v)
    PROVE  VariablesApart(E, M, W, low, x)
<1>1. PICK l \in Nat : /\ DOMAIN V = 1..l /\ DOMAIN W = 1..(l + 1)
                       /\ l + 1 \in 1..(l + 1) /\ W[l + 1] = v
                       /\ \A i \in DOMAIN W : i # l + 1 => i \in DOMAIN V /\ W[i] = V[i]
  BY Appended
<1>2. ASSUME NEW i \in DOMAIN W
      PROVE  /\ W[i].id \in low..(x - 1)
             /\ \A n \in DOMAIN M : M[n] # W[i].id
             /\ W[i].class # "Input" => ~Listed(E, W[i].id)
  <2>1. CASE i = l + 1
    BY <1>1, <2>1
  <2>2. CASE i # l + 1
    <3>1. i \in DOMAIN V /\ W[i] = V[i]
      BY <1>1, <2>2
    <3>2. QED
      BY <3>1 DEF VariablesApart
  <2>3. QED
    BY <2>1, <2>2
<1>3. ASSUME NEW i \in DOMAIN W, NEW j \in DOMAIN W, W[i].id = W[j].id PROVE i = j
  <2>1. CASE i = l + 1 \/ j = l + 1
    BY <1>1, <1>3, <2>1
  <2>2. CASE i # l + 1 /\ j # l + 1
    <3>1. /\ i \in DOMAIN V /\ W[i] = V[i]
          /\ j \in DOMAIN V /\ W[j] = V[j]
      BY <1>1, <2>2
    <3>2. V[i].id = V[j].id
      BY <1>3, <3>1
    <3>3. QED
      BY <3>1, <3>2 DEF VariablesApart
  <2>3. QED
    BY <2>1, <2>2
<1>4. QED
  BY <1>2, <1>3 DEF VariablesApart

LEMMA AppendHeld ==
    ASSUME NEW E, NEW low, NEW x, NEW M,
           NEW V \in Seq(VariableType), VariablesApart(E, M, V, low, x),
           NEW v \in VariableType, Held(E, M, V, low, x, v.id),
           NEW W, W = Append(V, v)
    PROVE  VariablesApart(E, M, W, low, x)
BY AppendApart DEF Held

LEMMA HeldBeside ==
    ASSUME NEW E, NEW low, NEW x, NEW M,
           NEW V \in Seq(VariableType), NEW h, Held(E, M, V, low, x, h),
           NEW v \in VariableType, v.id # h,
           NEW W, W = Append(V, v)
    PROVE  Held(E, M, W, low, x, h)
<1>1. PICK l \in Nat : /\ DOMAIN W = 1..(l + 1) /\ W[l + 1] = v
                       /\ \A i \in DOMAIN W : i # l + 1 => i \in DOMAIN V /\ W[i] = V[i]
  BY Appended
<1>2. ASSUME NEW i \in DOMAIN W PROVE W[i].id # h
  <2>1. CASE i = l + 1
    BY <1>1, <2>1
  <2>2. CASE i # l + 1
    BY <1>1, <2>2 DEF Held
  <2>3. QED
    BY <2>1, <2>2
<1>3. QED
  BY <1>2 DEF Held

\* What the ids are when nothing has failed.
LEMMA UniqueParts ==
    ASSUME UInv, fails = 0
    PROVE  /\ Reserving /\ Visiting /\ Frontier
           /\ Blocks(entp, Low, nextId) /\ MadeApart(entp, made, Low, nextId)
           /\ VariablesApart(entp, made, variables, Low, nextId)
BY DEF UInv, Apart

LEMMA LowOK == ASSUME TInv PROVE Low \in Nat
BY PhaseFacts, ProgramAssumption DEF Low

LEMMA RoomyHere ==
    ASSUME TInv, UInv, fails = 0, pc \notin Early
    PROVE  Roomy(entp, Low, nextId)
<1>1. PICK x \in Nat, l \in Nat : x = nextId /\ l = Low /\ l <= x
  BY UniqueParts, LowOK, TInvParts DEF IdsOK, Reserving
<1>2. ASSUME NEW id \in Nat, Listed(entp, id) PROVE id < x
  <2>1. PICK k \in DOMAIN entp :
            entp[k].fn # 0 /\ entp[k].io <= id /\ id < entp[k].io + entp[k].num
    BY <1>2 DEF Listed
  <2>2. entp[k].io + entp[k].num <= x
    BY <1>1, <2>1, UniqueParts DEF Blocks
  <2>3. entp[k].io \in Nat /\ entp[k].num \in Nat
    <3>1. entp \in Seq(EntpType)
      BY TInvParts DEF EntpOK
    <3>2. entp[k] \in EntpType
      BY <3>1
    <3>3. QED
      BY <3>2 DEF EntpType
  <2>4. PICK io \in Nat, num \in Nat : io = entp[k].io /\ num = entp[k].num
    BY <2>3
  <2>5. QED
    BY <2>1, <2>2, <2>4
<1>3. QED
  BY <1>1, <1>2 DEF Roomy

LEMMA RoomyGrows ==
    ASSUME NEW E, NEW low, NEW x, Roomy(E, low, x), NEW y \in Nat, x <= y
    PROVE  Roomy(E, low, y)
<1>1. PICK a \in Nat, l \in Nat : a = x /\ l = low /\ l <= a /\ a <= y
  BY DEF Roomy
<1>2. ASSUME NEW id \in Nat, Listed(E, id) PROVE id < y
  <2>1. id < a
    BY <1>1, <1>2 DEF Roomy
  <2>2. QED
    BY <1>1, <2>1
<1>3. QED
  BY <1>1, <1>2 DEF Roomy

\* The counter of the kernel's interfaces: the inputs before a parameter.
LEMMA InputsCounted ==
    ASSUME TInv, pc = "params"
    PROVE  /\ InputsBefore(1) = 0
           /\ \A p \in Nat :
                 /\ InputsBefore(p) \in Nat
                 /\ InputsBefore(p) <= PointerInputs(prog[at])
                 /\ \A q \in Nat : p <= q => InputsBefore(p) <= InputsBefore(q)
                 /\ p > Len(prog[at].params) => InputsBefore(p) = PointerInputs(prog[at])
                 /\ p \in DOMAIN prog[at].params =>
                       InputsBefore(p + 1) = IF prog[at].params[p].kind = "input"
                                             THEN InputsBefore(p) + 1 ELSE InputsBefore(p)
<1> DEFINE P == prog[at].params
           I == { i \in DOMAIN P : P[i].kind = "input" }
           B(p) == { i \in DOMAIN P : i < p /\ P[i].kind = "input" }
<1>1. PICK l \in Nat : l = Len(P) /\ DOMAIN P = 1..l
  BY ParamsFacts
<1>2. IsFiniteSet(I) /\ Cardinality(I) = PointerInputs(prog[at])
  <2>1. I \in SUBSET (1..l) /\ IsFiniteSet(1..l)
    BY <1>1, FS_Interval
  <2>2. QED
    BY <2>1, FS_Subset DEF PointerInputs
<1>3. ASSUME NEW p
      PROVE  IsFiniteSet(B(p)) /\ InputsBefore(p) = Cardinality(B(p))
             /\ InputsBefore(p) \in Nat /\ InputsBefore(p) <= PointerInputs(prog[at])
  <2>1. B(p) \in SUBSET I
    OBVIOUS
  <2>2. QED
    BY <1>2, <2>1, FS_Subset, FS_CardinalityType DEF InputsBefore
<1>4. InputsBefore(1) = 0
  <2>1. B(1) = {}
    BY <1>1
  <2>2. QED
    BY <1>3, <2>1, FS_EmptySet
<1>5. ASSUME NEW p \in Nat, NEW q \in Nat, p <= q PROVE InputsBefore(p) <= InputsBefore(q)
  <2>1. B(p) \in SUBSET B(q)
    <3>1. \A i \in 1..l : i < p => i < q
      BY <1>5
    <3>2. QED
      BY <1>1, <3>1
  <2>2. /\ IsFiniteSet(B(q)) /\ InputsBefore(p) = Cardinality(B(p))
        /\ InputsBefore(q) = Cardinality(B(q))
    BY <1>3, Zenon
  <2> HIDE DEF B
  <2>3. Cardinality(B(p)) <= Cardinality(B(q))
    BY <2>1, <2>2, FS_Subset
  <2>4. QED
    BY <2>2, <2>3
<1>6. ASSUME NEW p \in Nat, p > l PROVE InputsBefore(p) = PointerInputs(prog[at])
  <2>1. B(p) = I
    <3>1. \A i \in 1..l : i < p
      BY <1>6
    <3>2. QED
      BY <1>1, <3>1
  <2>2. QED
    BY <1>2, <1>3, <2>1
<1>7. ASSUME NEW p \in DOMAIN P
      PROVE  InputsBefore(p + 1) = IF P[p].kind = "input" THEN InputsBefore(p) + 1
                                   ELSE InputsBefore(p)
  <2>1. p \in Nat /\ ~(p < p) /\ p < p + 1 /\ \A i \in 1..l : i < p + 1 <=> i < p \/ i = p
    BY <1>1
  <2>2. CASE P[p].kind = "input"
    <3>1. B(p + 1) = B(p) \cup {p} /\ p \notin B(p)
      BY <1>1, <2>1, <2>2
    <3>2. Cardinality(B(p) \cup {p}) = Cardinality(B(p)) + 1
      BY <1>3, <3>1, FS_AddElement
    <3>3. QED
      BY <1>3, <2>2, <3>1, <3>2
  <2>3. CASE P[p].kind # "input"
    <3>1. B(p + 1) = B(p)
      BY <1>1, <2>1, <2>3
    <3>2. QED
      BY <1>3, <2>3, <3>1
  <2>4. QED
    BY <2>2, <2>3
<1>8. QED
  BY <1>1, <1>3, <1>4, <1>5, <1>6, <1>7

\* A step of the visit of the parameters: what it must show of the ids.
LEMMA BlocksGrow ==
    ASSUME TInv, UInv, fails = 0, prog' = prog, entp' = entp, nextId' \in Nat, nextId <= nextId'
    PROVE  Blocks(entp, Low, nextId')
<1>1. PICK x \in Nat, y \in Nat : x = nextId /\ y = nextId' /\ x <= y
  BY TInvParts DEF IdsOK
<1>2. ASSUME NEW k \in DOMAIN entp, entp[k].fn # 0 PROVE entp[k].io + entp[k].num <= y
  <2>1. entp[k] \in EntpType
    BY TInvParts DEF EntpOK
  <2>2. PICK io \in Nat, num \in Nat : io = entp[k].io /\ num = entp[k].num
    BY <2>1 DEF EntpType
  <2>3. io + num <= x
    BY <1>1, <1>2, <2>2, UniqueParts DEF Blocks
  <2>4. QED
    BY <1>1, <2>2, <2>3
<1>3. QED
  BY <1>1, <1>2, UniqueParts DEF Blocks

LEMMA LowKept == ASSUME prog' = prog PROVE Low' = Low
BY CountsKept DEF Low

LEMMA ApartKept ==
    ASSUME prog' = prog, entp' = entp, Blocks(entp, Low, nextId'),
           MadeApart(entp, made', Low, nextId'),
           VariablesApart(entp, made', variables', Low, nextId')
    PROVE  Apart'
<1>1. Low' = Low
  BY LowKept
<1>2. Blocks(entp, Low, nextId)'
  BY <1>1 DEF Blocks, Interfaces
<1>3. MadeApart(entp, made, Low, nextId)'
  BY <1>1 DEF MadeApart, Listed
<1>4. VariablesApart(entp, made, variables, Low, nextId)'
  BY <1>1 DEF VariablesApart, Listed
<1>5. QED
  BY <1>2, <1>3, <1>4 DEF Apart

LEMMA HeldKept ==
    ASSUME prog' = prog, entp' = entp,
           Held(entp, made', variables', Low, nextId', visit'.psh)
    PROVE  Held(entp, made, variables, Low, nextId, visit.psh)'
BY LowKept DEF Held, Listed

\* No variable of the interface reaches those of the next entry point.
Inputs(V, bound) == \A i \in DOMAIN V : V[i].class = "Input" => V[i].id < bound

LEMMA ParamUInv ==
    ASSUME TInv, UInv, fails = 0, pc = "params",
           UNCHANGED << prog, pc, at, w0, entp, entries >>, nextId' \in Nat, nextId <= nextId',
           MadeApart(entp, made', Low, nextId'),
           VariablesApart(entp, made', variables', Low, nextId'),
           visit'.push > 0 => Held(entp, made', variables', Low, nextId', visit'.psh),
           visit'.io <= InputsBefore(visit'.prm),
           entp[w0 + 1].fn # 0 => Inputs(variables', entp[w0 + 1].io + visit'.io)
    PROVE  UInv'
<1>1. Apart'
  BY BlocksGrow, ApartKept
<1>2. Reserving'
  <2>1. PICK x \in Nat, y \in Nat, l \in Nat : x = nextId /\ y = nextId' /\ x <= y /\ l = Low /\ l <= x
    BY UniqueParts, LowOK, TInvParts DEF IdsOK, Reserving, Early
  <2>2. nextId' >= Low'
    BY <2>1, LowKept
  <2>3. \A i \in DOMAIN entries : entries[i].id = FirstId + i - 1
    BY UniqueParts DEF Reserving
  <2>4. QED
    BY <2>2, <2>3 DEF Reserving, Early
<1>3. Visiting'
  BY HeldKept DEF Visiting, InputsBefore
<1>4. Frontier'
  BY DEF Frontier, Inputs
<1>5. QED
  BY <1>1, <1>2, <1>3, <1>4 DEF UInv

\* The same as it was: how far the visit is in the interface.
LEMMA ReachKept ==
    ASSUME TInv, UInv, fails = 0, pc = "params",
           NEW p \in Nat, visit.prm <= p
    PROVE  visit.io <= InputsBefore(p)
<1>1. visit.io \in Nat /\ visit.prm \in Nat
  BY ParamsFacts DEF Fields
<1>2. /\ InputsBefore(visit.prm) \in Nat /\ InputsBefore(p) \in Nat
      /\ InputsBefore(visit.prm) <= InputsBefore(p)
  BY <1>1, InputsCounted
<1>3. visit.io <= InputsBefore(visit.prm)
  BY UniqueParts DEF Visiting
<1>4. PICK a \in Nat, b \in Nat, c \in Nat :
          a = visit.io /\ b = InputsBefore(visit.prm) /\ c = InputsBefore(p)
  BY <1>1, <1>2
<1>5. QED
  BY <1>2, <1>3, <1>4

LEMMA FrontierHere ==
    ASSUME TInv, UInv, fails = 0, pc = "params"
    PROVE  entp[w0 + 1].fn # 0 => Inputs(variables, entp[w0 + 1].io + visit.io)
BY ParamsFacts, UniqueParts DEF Frontier, Inputs, Declares

\* Types and constants are made; the variables stay as they are.
LEMMA GrowUInv ==
    ASSUME TInv, UInv, fails = 0, pc = "params",
           UNCHANGED << prog, pc, at, w0, entp, entries, variables >>,
           Extends(made, nextId, made', nextId'),
           visit'.push = visit.push, visit'.psh = visit.psh, visit'.io = visit.io,
           visit'.prm \in Nat, visit.prm <= visit'.prm
    PROVE  UInv'
<1>1. Roomy(entp, Low, nextId)
  BY RoomyHere DEF Early
<1>2. nextId' \in Nat /\ nextId <= nextId'
  BY DEF Extends
<1>3. MadeApart(entp, made', Low, nextId')
  BY <1>1, UniqueParts, MadeGrows
<1>4. VariablesApart(entp, made', variables', Low, nextId')
  BY <1>1, UniqueParts, VariablesGrow
<1>5. visit'.push > 0 => Held(entp, made', variables', Low, nextId', visit'.psh)
  BY <1>1, UniqueParts, HeldGrows DEF Visiting
<1>6. visit'.io <= InputsBefore(visit'.prm)
  BY ReachKept
<1>7. QED
  BY <1>2, <1>3, <1>4, <1>5, <1>6, FrontierHere, ParamUInv

\* The visit goes on behind a parameter, or breaks off.
LEMMA BrokenVisit ==
    ASSUME TInv, pc = "params", visit.prm <= Len(prog[at].params), BreakVisit
    PROVE  /\ visit'.push = visit.push /\ visit'.psh = visit.psh /\ visit'.io = visit.io
           /\ visit'.prm \in Nat /\ visit.prm <= visit'.prm
<1>1. visit \in [Fields -> Nat] /\ prog[at].params \in Seq(Parameter)
  BY ParamsFacts
<1>2. PICK n \in Nat, p \in Nat : n = Len(prog[at].params) /\ p = visit.prm /\ p <= n
  BY <1>1 DEF Fields
<1>3. visit' = [visit EXCEPT !.prm = n + 1]
  BY <1>2 DEF BreakVisit
<1>4. /\ visit'.push = visit.push /\ visit'.psh = visit.psh /\ visit'.io = visit.io
      /\ visit'.prm = n + 1
  BY <1>1, <1>3 DEF Fields
<1>5. n + 1 \in Nat /\ p <= n + 1
  BY <1>2
<1>6. QED
  BY <1>2, <1>4, <1>5

LEMMA NextVisit ==
    ASSUME TInv, pc = "params",
           \/ visit' = [visit EXCEPT !.arg = @ + 1, !.prm = @ + 1]
           \/ visit' = [visit EXCEPT !.bind = NextBinding, !.arg = @ + 1, !.prm = @ + 1]
    PROVE  /\ visit'.push = visit.push /\ visit'.psh = visit.psh /\ visit'.io = visit.io
           /\ visit'.prm \in Nat /\ visit.prm <= visit'.prm
<1>1. visit \in [Fields -> Nat]
  BY ParamsFacts
<1>2. PICK p \in Nat : p = visit.prm
  BY <1>1 DEF Fields
<1>3. /\ visit'.push = visit.push /\ visit'.psh = visit.psh /\ visit'.io = visit.io
      /\ visit'.prm = p + 1
  BY <1>1, <1>2 DEF Fields
<1>4. p + 1 \in Nat /\ p <= p + 1
  BY <1>2
<1>5. QED
  BY <1>2, <1>3, <1>4

LEMMA TypingGrows ==
    ASSUME TInv, pc # "conf", NEW typed, NEW t, t = Typing(StorageTypes, typed)
    PROVE  /\ Extends(made, nextId, t.made, t.next) /\ Extends(made, nextId + 1, t.made, t.next)
           /\ IdsIn(t.made, t.next) /\ nextId \in Nat
<1>1. PICK x \in Nat : x = nextId /\ x + 1 \in Nat /\ x <= x + 1
  BY IdsInNow DEF IdsIn
<1>2. Extends(made, x, made, x + 1)
  BY <1>1, ExtendsNothing
<1>3. Extends(made, x + 1, t.made, t.next) /\ IdsIn(t.made, t.next)
  BY <1>1, IdsInNow, TypingExtends
<1>4. Extends(made, x, t.made, t.next)
  BY <1>2, <1>3, ExtendsOn
<1>5. QED
  BY <1>1, <1>3, <1>4

LEMMA RefusedUInv == ASSUME TInv, UInv, fails = 0, Refused PROVE UInv'
<1>1. /\ pc = "params" /\ visit.prm <= Len(prog[at].params) /\ BreakVisit
      /\ UNCHANGED << prog, pc, at, w0, entp, entries, variables >>
  BY DEF Refused, Fetching, sections
<1>2. PICK typed \in BOOLEAN :
        LET s == Typing(StorageTypes, typed)
        IN  made' = s.made /\ nextId' = s.next
  BY DEF Refused
<1>3. PICK t : t = Typing(StorageTypes, typed)
  OBVIOUS
<1>4. made' = t.made /\ nextId' = t.next
  BY <1>2, <1>3
<1>5. Extends(made, nextId, made', nextId')
  BY <1>1, <1>3, <1>4, TypingGrows
<1>6. QED
  BY <1>1, <1>5, BrokenVisit, GrowUInv

LEMMA NoTableUInv == ASSUME TInv, UInv, fails = 0, NoTable PROVE UInv'
<1>1. /\ pc = "params" /\ visit.prm <= Len(prog[at].params) /\ BreakVisit
      /\ UNCHANGED << prog, pc, at, w0, entp, entries, variables, made, nextId >>
  BY DEF NoTable, Fetching, sections
<1>2. PICK x \in Nat : x = nextId /\ x <= x
  BY TInvParts DEF IdsOK
<1>3. Extends(made, nextId, made', nextId')
  BY <1>1, <1>2, ExtendsNothing
<1>4. QED
  BY <1>1, <1>3, BrokenVisit, GrowUInv

\* The first scalar takes the id of the push constant.
LEMMA ScalarUInv == ASSUME TInv, UInv, fails = 0, Scalar PROVE UInv'
<1> DEFINE psh == IF visit.push = 0 THEN nextId ELSE visit.psh
<1>1. /\ pc = "params" /\ UNCHANGED << prog, pc, at, w0, entp, entries, variables, made >>
      /\ visit' = [visit EXCEPT !.push = @ + 1, !.psh = psh, !.prm = @ + 1]
      /\ nextId' = IF visit.push = 0 THEN nextId + 1 ELSE nextId
  BY DEF Scalar, Fetching, sections
<1>2. PICK x \in Nat : x = nextId /\ x + 1 \in Nat /\ x <= x + 1 /\ x <= x /\ x < x + 1
  BY TInvParts DEF IdsOK
<1>3. visit \in [Fields -> Nat]
  BY <1>1, ParamsFacts
<1>4. PICK p \in Nat, c \in Nat : p = visit.prm /\ c = visit.push
  BY <1>3 DEF Fields
<1> HIDE DEF psh
<1>5. /\ visit'.io = visit.io /\ visit'.prm = p + 1 /\ visit'.psh = psh
      /\ p + 1 \in Nat /\ visit.prm <= p + 1
  <2>1. visit'.io = visit.io /\ visit'.prm = p + 1 /\ visit'.psh = psh
    BY <1>1, <1>3, <1>4 DEF Fields
  <2>2. QED
    BY <1>4, <2>1
<1>6. Roomy(entp, Low, nextId)
  BY <1>1, RoomyHere DEF Early
<1>7. nextId' \in Nat /\ nextId <= nextId' /\ Extends(made, nextId, made', nextId')
  BY <1>1, <1>2, ExtendsNothing
<1>8. MadeApart(entp, made', Low, nextId') /\ VariablesApart(entp, made', variables', Low, nextId')
  BY <1>1, <1>6, <1>7, UniqueParts, MadeGrows, VariablesGrow
<1>9. Held(entp, made', variables', Low, nextId', psh)
  <2>1. CASE visit.push = 0
    <3>1. Held(entp, made, variables, Low, x + 1, x)
      BY <1>2, <1>6, UniqueParts, NextHeld
    <3>2. QED
      BY <1>1, <1>2, <2>1, <3>1 DEF psh
  <2>2. CASE visit.push # 0
    <3>1. c > 0
      BY <1>4, <2>2
    <3>2. Held(entp, made, variables, Low, nextId, visit.psh)
      BY <1>1, <1>4, <3>1, UniqueParts DEF Visiting
    <3>3. QED
      BY <1>1, <2>2, <3>2 DEF psh
  <2>3. QED
    BY <2>1, <2>2
<1>10. visit'.io <= InputsBefore(visit'.prm)
  BY <1>1, <1>4, <1>5, ReachKept
<1>11. entp[w0 + 1].fn # 0 => Inputs(variables', entp[w0 + 1].io + visit'.io)
  BY <1>1, <1>5, FrontierHere
<1>12. QED
  BY <1>1, <1>5, <1>7, <1>8, <1>9, <1>10, <1>11, ParamUInv

\* A variable that is not an input: its id y was taken after the names of M and
\* before those made since.
LEMMA DeclareUInv ==
    ASSUME TInv, UInv, fails = 0, pc = "params",
           UNCHANGED << prog, pc, at, w0, entp, entries >>,
           NEW y \in Nat, NEW M, Extends(made, nextId, M, y),
           Extends(M, y + 1, made', nextId'),
           NEW v \in VariableType, v.id = y, v.class # "Input",
           variables' = Append(variables, v),
           visit'.push = visit.push, visit'.psh = visit.psh, visit'.io = visit.io,
           visit'.prm \in Nat, visit.prm <= visit'.prm
    PROVE  UInv'
<1>1. PICK x \in Nat : x = nextId /\ x <= y
  BY TInvParts DEF IdsOK, Extends
<1>2. Roomy(entp, Low, nextId) /\ y + 1 \in Nat /\ y < y + 1 /\ y <= y + 1 /\ x <= y + 1
  BY <1>1, RoomyHere DEF Early
<1>3. Roomy(entp, Low, y) /\ Roomy(entp, Low, y + 1)
  BY <1>1, <1>2, RoomyGrows
<1>4. MadeApart(entp, M, Low, y) /\ VariablesApart(entp, M, variables, Low, y)
  BY <1>2, UniqueParts, MadeGrows, VariablesGrow
<1>5. Held(entp, M, variables, Low, y + 1, y)
  BY <1>2, <1>3, <1>4, NextHeld
<1>6. Extends(M, y, M, y + 1)
  BY <1>2, ExtendsNothing
<1>7. MadeApart(entp, M, Low, y + 1) /\ VariablesApart(entp, M, variables, Low, y + 1)
  BY <1>3, <1>4, <1>6, MadeGrows, VariablesGrow
<1>8. variables \in Seq(VariableType)
  BY PhaseFacts
<1>9. MadeApart(entp, made', Low, nextId')
  BY <1>3, <1>7, MadeGrows
<1>10. VariablesApart(entp, made', variables, Low, nextId') /\ Held(entp, made', variables, Low, nextId', y)
  BY <1>3, <1>5, <1>7, VariablesGrow, HeldGrows
<1>11. VariablesApart(entp, made', variables', Low, nextId')
  BY <1>8, <1>10, AppendHeld
<1>12. ASSUME visit'.push > 0 PROVE Held(entp, made', variables', Low, nextId', visit'.psh)
  <2>1. Held(entp, made, variables, Low, nextId, visit.psh)
    BY <1>12, UniqueParts DEF Visiting
  <2>2. visit.psh # y
    <3>1. PICK l \in Nat : l = Low
      BY LowOK
    <3>2. visit.psh \in l..(x - 1)
      BY <1>1, <2>1, <3>1 DEF Held
    <3>3. QED
      BY <1>1, <3>2
  <2>3. Held(entp, M, variables, Low, y, visit.psh)
    BY <1>2, <2>1, HeldGrows
  <2>4. Held(entp, M, variables, Low, y + 1, visit.psh)
    BY <1>3, <1>6, <2>3, HeldGrows
  <2>5. Held(entp, made', variables, Low, nextId', visit.psh)
    BY <1>3, <2>4, HeldGrows
  <2>6. QED
    BY <1>8, <2>2, <2>5, HeldBeside
<1>13. visit'.io <= InputsBefore(visit'.prm)
  BY ReachKept
<1>14. entp[w0 + 1].fn # 0 => Inputs(variables', entp[w0 + 1].io + visit'.io)
  <2>1. PICK l \in Nat : /\ DOMAIN variables' = 1..(l + 1) /\ variables'[l + 1] = v
                         /\ \A i \in DOMAIN variables' : i # l + 1 =>
                               i \in DOMAIN variables /\ variables'[i] = variables[i]
    BY <1>8, Appended
  <2>2. QED
    BY <2>1, FrontierHere DEF Inputs
<1>15. nextId' \in Nat /\ nextId <= nextId'
  <2>1. PICK z \in Nat : z = nextId' /\ y + 1 <= z
    BY DEF Extends
  <2>2. QED
    BY <1>1, <2>1
<1>16. QED
  BY <1>9, <1>11, <1>12, <1>13, <1>14, <1>15, ParamUInv

LEMMA VariableIs ==
    ASSUME TInv, pc = "params", NEW id \in Nat,
           NEW class \in {"StorageBuffer", "Uniform", "Workgroup", "Input", "PushConstant"},
           NEW typed \in BOOLEAN, NEW v, v = Variable(id, class, typed)
    PROVE  v \in VariableType /\ v.id = id /\ v.class = class /\ v.fn = at /\ v.prm = visit.prm
<1>1. v \in VariableType
  BY VariableOK
<1>2. QED
  BY <1>1 DEF Variable

LEMMA PushVariableOK ==
    ASSUME TInv, pc = "params"
    PROVE  /\ PushVariable \in VariableType /\ PushVariable.class = "PushConstant"
           /\ PushVariable.fn = at /\ PushVariable.id = visit.psh
<1>1. visit \in [Fields -> Nat]
  BY ParamsFacts
<1>2. PICK h \in Nat, b \in BOOLEAN : h = visit.psh /\ b = TRUE
  BY <1>1 DEF Fields
<1>3. PICK u : u = Variable(h, "PushConstant", b) /\ pc = "params"
  OBVIOUS
<1>4. u \in VariableType /\ u.id = h /\ u.class = "PushConstant" /\ u.fn = at
  BY <1>3, VariableIs
<1>5. PushVariable = [u EXCEPT !.prm = 0]
  BY <1>2, <1>3 DEF PushVariable
<1>6. QED
  BY <1>2, <1>4, <1>5 DEF VariableType

LEMMA BindableUInv == ASSUME TInv, UInv, fails = 0, Bindable PROVE UInv'
<1>1. /\ pc = "params" /\ UNCHANGED << prog, pc, at, w0, entp, entries >>
      /\ visit' = [visit EXCEPT !.bind = NextBinding, !.arg = @ + 1, !.prm = @ + 1]
  BY DEF Bindable, Fetching
<1>2. PICK typed \in BOOLEAN :
        LET t == Typing(StorageTypes, typed)
            uniform == Param.kind = "constant"
            s == IF uniform THEN MkAll(t, UniformTypes) ELSE t
        IN  /\ made' = s.made /\ nextId' = s.next
            /\ variables' = Append(variables, Variable(nextId,
                                IF uniform THEN "Uniform" ELSE "StorageBuffer", uniform \/ typed))
  BY DEF Bindable
<1>3. PICK t : t = Typing(StorageTypes, typed)
  OBVIOUS
<1>4. PICK u : u = MkAll(t, UniformTypes)
  OBVIOUS
<1>5. /\ made' = (IF Param.kind = "constant" THEN u ELSE t).made
      /\ nextId' = (IF Param.kind = "constant" THEN u ELSE t).next
  BY <1>2, <1>3, <1>4
<1>6. /\ Extends(made, nextId + 1, t.made, t.next) /\ IdsIn(t.made, t.next) /\ nextId \in Nat
  BY <1>1, <1>3, TypingGrows
<1>7. Extends(t.made, t.next, u.made, u.next)
  BY <1>4, <1>6, NamesOK, MkAllExtends
<1>8. Extends(made, nextId + 1, u.made, u.next)
  BY <1>6, <1>7, ExtendsOn
<1>9. Extends(made, nextId + 1, made', nextId')
  BY <1>5, <1>6, <1>8
<1>10. PICK class \in {"StorageBuffer", "Uniform"}, b \in BOOLEAN :
           variables' = Append(variables, Variable(nextId, class, b))
  <2>1. PICK b \in BOOLEAN : b = (Param.kind = "constant" \/ typed)
    OBVIOUS
  <2>2. QED
    BY <1>2, <2>1
<1>11. PICK v : v = Variable(nextId, class, b) /\ variables' = Append(variables, v)
  BY <1>10
<1>12. v \in VariableType /\ v.id = nextId /\ v.class # "Input"
  <2>1. v = Variable(nextId, class, b) /\ nextId \in Nat /\ pc = "params"
    BY <1>1, <1>6, <1>11
  <2>2. v \in VariableType /\ v.id = nextId /\ v.class = class
    BY <2>1, VariableIs
  <2>3. QED
    BY <2>2
<1>13. Extends(made, nextId, made, nextId)
  BY <1>6, ExtendsNothing
<1>14. QED
  BY <1>1, <1>6, <1>9, <1>11, <1>12, <1>13, NextVisit, DeclareUInv

LEMMA LocalUInv == ASSUME TInv, UInv, fails = 0, ~AllocFails, Local PROVE UInv'
<1>1. /\ pc = "params" /\ UNCHANGED << prog, pc, at, w0, entp, entries >>
      /\ LocalTypes \in Seq(Name)
  BY LocalTypesOK DEF Local, Fetching
<1>2. PICK typed \in BOOLEAN :
        LET s == MkAll(Typing(StorageTypes, typed), LocalTypes)
        IN  /\ made' = s.made /\ nextId' = s.next + 6
            /\ variables' = Append(variables, Variable(s.next + 5, "Workgroup", TRUE))
            /\ visit' = [visit EXCEPT !.arg = @ + 1, !.prm = @ + 1]
  BY DEF Local, LocalId
<1>3. PICK t : t = Typing(StorageTypes, typed)
  OBVIOUS
<1>4. PICK u : u = MkAll(t, LocalTypes)
  OBVIOUS
<1>5. /\ made' = u.made /\ nextId' = u.next + 6
      /\ variables' = Append(variables, Variable(u.next + 5, "Workgroup", TRUE))
      /\ visit' = [visit EXCEPT !.arg = @ + 1, !.prm = @ + 1]
  BY <1>2, <1>3, <1>4
<1>6. Extends(made, nextId, t.made, t.next) /\ IdsIn(t.made, t.next)
  BY <1>1, <1>3, TypingGrows
<1>7. Extends(t.made, t.next, u.made, u.next)
  BY <1>1, <1>4, <1>6, MkAllExtends
<1>8. Extends(made, nextId, u.made, u.next)
  BY <1>6, <1>7, ExtendsOn
<1>9. PICK x \in Nat : /\ x = u.next /\ x + 5 \in Nat /\ x <= x + 5
                       /\ (x + 5) + 1 = x + 6 /\ x + 6 \in Nat /\ x + 6 <= x + 6
  BY <1>7 DEF Extends
<1>10. Extends(made, nextId, made', x + 5)
  BY <1>5, <1>8, <1>9, ExtendsGap
<1>11. Extends(made', (x + 5) + 1, made', nextId')
  BY <1>5, <1>9, ExtendsNothing
<1>12. PICK v : v = Variable(x + 5, "Workgroup", TRUE)
  OBVIOUS
<1>13. v \in VariableType /\ v.id = x + 5 /\ v.class # "Input"
  <2>1. PICK y \in Nat, b \in BOOLEAN : y = x + 5 /\ b = TRUE
    BY <1>9
  <2>2. v = Variable(y, "Workgroup", b) /\ pc = "params"
    BY <1>1, <1>12, <2>1
  <2>3. v \in VariableType /\ v.id = y /\ v.class = "Workgroup"
    BY <2>2, VariableIs
  <2>4. QED
    BY <2>1, <2>3
<1>14. variables' = Append(variables, v)
  <2>1. variables' = Append(variables, Variable(u.next + 5, "Workgroup", TRUE))
    BY <1>5, Zenon
  <2>2. x = u.next
    BY <1>9, Zenon
  <2>3. QED
    BY <2>1, <2>2, <1>12, Zenon
<1>15. QED
  BY <1>1, <1>5, <1>9, <1>10, <1>11, <1>13, <1>14, NextVisit, DeclareUInv

\* The kernel whose parameters are declared is the one its entry point notes.
LEMMA NotedHere ==
    ASSUME TInv, Counted, fails = 0, pc \in Declares, at <= Len(prog), prog[at].kernel
    PROVE  /\ at \in Kernels /\ w0 \in Nat /\ w0 = Before(at)
           /\ w0 + 1 \in DOMAIN entp /\ entp[w0 + 1] \in EntpType
           /\ entp[w0 + 1].fn = at /\ entp[w0 + 1].fn # 0
<1>1. PICK a \in Nat : /\ a = at /\ a \in 1..Len(prog) /\ w0 = Before(a) /\ w0 \in Nat
                       /\ w0 + 1 \in 1..NumEntp
  BY NextFunction DEF Declares
<1>2. at \in Kernels
  BY <1>1, PhaseFacts DEF Kernels
<1>3. entp \in Seq(EntpType) /\ Len(entp) = NumEntp
  BY TInvParts DEF EntpOK, Phases
<1>4. w0 + 1 \in DOMAIN entp /\ entp[w0 + 1] \in EntpType
  BY <1>1, <1>3
<1>5. Noted(at)
  BY <1>2 DEF Counted
<1>6. QED
  BY <1>1, <1>2, <1>4, <1>5 DEF Noted

\* The interfaces reserved for the kernel are its inputs.
LEMMA InterfacesHere ==
    ASSUME TInv, Counted, UInv, fails = 0, pc = "params"
    PROVE  /\ entp[w0 + 1].num = Interfaces(prog[at])
           /\ visit.io \in Nat /\ visit.io <= entp[w0 + 1].num
<1>1. at <= Len(prog) /\ prog[at].kernel /\ visit.io \in Nat /\ visit.prm \in Nat
      /\ prog[at] \in Function
  <2>1. at \in DOMAIN prog /\ prog \in Seq(Function)
    BY ParamsFacts, PhaseFacts
  <2>2. at <= Len(prog)
    BY <2>1
  <2>3. QED
    BY <2>2, ParamsFacts DEF Fields
<1>2. entp[w0 + 1].num = Interfaces(prog[at])
  BY <1>1, NotedHere, UniqueParts DEF Blocks, Declares
<1>3. visit.io <= InputsBefore(visit.prm)
  BY UniqueParts DEF Visiting
<1>4. InputsBefore(visit.prm) \in Nat /\ InputsBefore(visit.prm) <= PointerInputs(prog[at])
  BY <1>1, InputsCounted
<1>5. PICK a \in Nat, b \in Nat, c \in Nat, d \in Nat :
          /\ a = visit.io /\ b = InputsBefore(visit.prm) /\ c = Interfaces(prog[at])
          /\ d = PointerInputs(prog[at]) /\ d <= c
  BY <1>1, <1>4, InterfacesNat
<1>6. a <= c
  BY <1>3, <1>4, <1>5
<1>7. QED
  BY <1>1, <1>2, <1>5, <1>6

\* An input has the next id of the interface.
LEMMA LocatedUInv == ASSUME TInv, Counted, UInv, fails = 0, ~AllocFails, Located PROVE UInv'
<1> DEFINE id == entp[w0 + 1].io + visit.io
           vec == << << "vec", 4 >> >>
<1>1. /\ pc = "params" /\ UNCHANGED << prog, pc, at, w0, entp, entries >>
      /\ visit.prm <= Len(prog[at].params) /\ Fetching({"input"})
  BY DEF Located, Fetching
<1>2. PICK typed \in BOOLEAN :
        LET s == MkAll(Typing(StorageTypes, typed), vec)
        IN  /\ made' = s.made /\ nextId' = s.next
            /\ variables' = Append(variables, Variable(id, "Input", TRUE))
            /\ visit' = [visit EXCEPT !.io = NextIo, !.arg = @ + 1, !.prm = @ + 1]
  BY DEF Located
<1>3. PICK t : t = Typing(StorageTypes, typed)
  OBVIOUS
<1>4. PICK u : u = MkAll(t, vec)
  OBVIOUS
<1>5. /\ made' = u.made /\ nextId' = u.next
      /\ variables' = Append(variables, Variable(id, "Input", TRUE))
      /\ visit' = [visit EXCEPT !.io = NextIo, !.arg = @ + 1, !.prm = @ + 1]
  BY <1>2, <1>3, <1>4
<1>6. Extends(made, nextId, t.made, t.next) /\ IdsIn(t.made, t.next)
  BY <1>1, <1>3, TypingGrows
<1>7. Extends(t.made, t.next, u.made, u.next)
  <2>1. vec \in Seq(Name)
    BY NamesOK
  <2> HIDE DEF vec
  <2>2. QED
    BY <1>4, <1>6, <2>1, MkAllExtends
<1>8. Extends(made, nextId, made', nextId')
  BY <1>5, <1>6, <1>7, ExtendsOn
<1> HIDE DEF vec
<1>9. visit \in [Fields -> Nat] /\ prog[at].params \in Seq(Parameter)
      /\ at <= Len(prog) /\ prog[at].kernel /\ prog[at] \in Function
  <2>1. at \in DOMAIN prog /\ prog \in Seq(Function)
    BY <1>1, ParamsFacts, PhaseFacts
  <2>2. at <= Len(prog)
    BY <2>1
  <2>3. QED
    BY <1>1, <2>2, ParamsFacts
<1>10. PICK p \in Nat, q \in Nat : p = visit.prm /\ q = visit.io
  BY <1>9 DEF Fields
<1>11. visit'.push = visit.push /\ visit'.psh = visit.psh /\ visit'.io = q + 1
       /\ visit'.prm = p + 1
  BY <1>5, <1>9, <1>10 DEF Fields, NextIo
<1>12. p \in DOMAIN prog[at].params /\ prog[at].params[p].kind = "input"
  <2>1. p >= 1 /\ prog[at].params[p].kind = "input"
    BY <1>1, <1>10, TInvParts DEF Slots, Fetching
  <2>2. QED
    BY <1>1, <1>9, <1>10, <2>1
<1>13. q + 1 <= InputsBefore(p + 1) /\ InputsBefore(p + 1) <= Interfaces(prog[at])
  <2>1. /\ InputsBefore(p) \in Nat /\ InputsBefore(p + 1) = InputsBefore(p) + 1
        /\ InputsBefore(p + 1) <= Interfaces(prog[at])
    <3>1. p + 1 \in Nat
      OBVIOUS
    <3>2. /\ InputsBefore(p) \in Nat /\ InputsBefore(p + 1) = InputsBefore(p) + 1
          /\ InputsBefore(p + 1) <= PointerInputs(prog[at])
      BY <1>1, <1>12, <3>1, InputsCounted
    <3>3. PICK d \in Nat, c \in Nat :
              d = PointerInputs(prog[at]) /\ c = Interfaces(prog[at]) /\ d <= c
      BY <1>9, InterfacesNat
    <3>4. QED
      BY <3>2, <3>3
  <2>2. q <= InputsBefore(p)
    BY <1>1, <1>10, UniqueParts DEF Visiting
  <2>3. PICK b \in Nat : b = InputsBefore(p)
    BY <2>1
  <2>4. QED
    BY <2>1, <2>2, <2>3
<1>14. /\ w0 + 1 \in DOMAIN entp /\ entp[w0 + 1] \in EntpType /\ entp[w0 + 1].fn # 0
       /\ entp[w0 + 1].num = Interfaces(prog[at])
  BY <1>1, <1>9, NotedHere, InterfacesHere DEF Declares
<1>15. PICK io \in Nat, num \in Nat : io = entp[w0 + 1].io /\ num = entp[w0 + 1].num
  BY <1>14 DEF EntpType
<1>16. q + 1 <= num /\ id = io + q /\ io + q \in Nat /\ io + (q + 1) = (io + q) + 1
  <2>1. PICK b \in Int : b = InputsBefore(p + 1)
    <3>1. p + 1 \in Nat
      OBVIOUS
    <3>2. QED
      BY <1>1, <3>1, InputsCounted
  <2>2. QED
    BY <1>10, <1>13, <1>14, <1>15, <2>1
<1>17. PICK l \in Nat, x \in Nat : /\ l = Low /\ x = nextId /\ l <= io /\ io + num <= x
  BY <1>14, <1>15, LowOK, UniqueParts, TInvParts DEF IdsOK, Blocks
<1>18. Listed(entp, id)
  <2>1. io <= io + q /\ io + q < io + num
    BY <1>16
  <2>2. QED
    BY <1>14, <1>15, <1>16, <2>1 DEF Listed
<1>19. PICK v : v = Variable(id, "Input", TRUE) /\ variables' = Append(variables, v)
  BY <1>5
<1>20. v \in VariableType /\ v.id = id /\ v.class = "Input"
  <2>1. PICK y \in Nat, b \in BOOLEAN : y = id /\ b = TRUE
    BY <1>16
  <2> HIDE DEF id
  <2>2. v = Variable(y, "Input", b) /\ pc = "params"
    BY <1>1, <1>19, <2>1
  <2>3. v \in VariableType /\ v.id = y /\ v.class = "Input"
    BY <2>2, VariableIs
  <2>4. QED
    BY <2>1, <2>3
<1> HIDE DEF id
<1>21. variables \in Seq(VariableType) /\ Roomy(entp, Low, nextId)
  BY <1>1, PhaseFacts, RoomyHere DEF Early
<1>22. \A i \in DOMAIN variables : variables[i].id # id
  <2>1. ASSUME NEW i \in DOMAIN variables PROVE variables[i].id # id
    <3>1. CASE variables[i].class = "Input"
      <4>1. variables[i].id < entp[w0 + 1].io + visit.io
        BY <1>1, <1>14, <3>1, FrontierHere DEF Inputs
      <4>2. variables[i] \in VariableType
        BY <1>21
      <4>3. PICK d \in Nat : d = variables[i].id
        BY <4>2 DEF VariableType
      <4>4. QED
        BY <1>10, <1>15, <1>16, <4>1, <4>3
    <3>2. CASE variables[i].class # "Input"
      <4>1. ~Listed(entp, variables[i].id)
        BY <3>2, UniqueParts DEF VariablesApart
      <4>2. QED
        BY <1>18, <4>1
    <3>3. QED
      BY <3>1, <3>2
  <2>2. QED
    BY <2>1
<1>23. \A n \in DOMAIN made : made[n] # id
  BY <1>18, UniqueParts DEF MadeApart
<1>24. /\ MadeApart(entp, made', Low, nextId')
       /\ VariablesApart(entp, made', variables, Low, nextId')
  BY <1>8, <1>21, UniqueParts, MadeGrows, VariablesGrow
<1>25. VariablesApart(entp, made', variables', Low, nextId')
  <2>1. id \in l..(x - 1)
    BY <1>16, <1>17
  <2>2. VariablesApart(entp, made, variables, Low, nextId)
    BY UniqueParts
  <2>3. v.id \in Low..(nextId - 1)
    BY <1>17, <1>20, <2>1
  <2>4. VariablesApart(entp, made, variables', Low, nextId)
    BY <1>19, <1>20, <1>21, <1>22, <1>23, <2>2, <2>3, AppendApart
  <2>5. QED
    BY <1>8, <1>21, <2>4, VariablesGrow
<1>26. ASSUME visit'.push > 0 PROVE Held(entp, made', variables', Low, nextId', visit'.psh)
  <2>1. Held(entp, made, variables, Low, nextId, visit.psh)
    BY <1>1, <1>11, <1>26, UniqueParts DEF Visiting
  <2>2. visit.psh # id
    BY <1>18, <2>1 DEF Held
  <2>3. Held(entp, made', variables, Low, nextId', visit.psh)
    BY <1>8, <1>21, <2>1, HeldGrows
  <2>4. QED
    BY <1>11, <1>19, <1>20, <1>21, <2>2, <2>3, HeldBeside
<1>27. visit'.io <= InputsBefore(visit'.prm)
  BY <1>11, <1>13
<1>28. Inputs(variables', entp[w0 + 1].io + visit'.io)
  <2>0. PICK W : W = variables' /\ W = Append(variables, v)
    BY <1>19
  <2>1. PICK m \in Nat : /\ DOMAIN variables' = 1..(m + 1) /\ variables'[m + 1] = v
                         /\ \A i \in DOMAIN variables' : i # m + 1 =>
                               i \in DOMAIN variables /\ variables'[i] = variables[i]
    <3>1. PICK m \in Nat : /\ DOMAIN W = 1..(m + 1) /\ W[m + 1] = v
                           /\ \A i \in DOMAIN W : i # m + 1 =>
                                 i \in DOMAIN variables /\ W[i] = variables[i]
      BY <1>20, <1>21, <2>0, Appended
    <3>2. QED
      BY <2>0, <3>1
  <2>2. ASSUME NEW i \in DOMAIN variables', variables'[i].class = "Input"
        PROVE  variables'[i].id < (io + q) + 1
    <3>1. CASE i = m + 1
      BY <1>16, <1>20, <2>1, <3>1
    <3>2. CASE i # m + 1
      <4>1. i \in DOMAIN variables /\ variables'[i] = variables[i]
        BY <2>1, <3>2
      <4>2. variables[i].id < io + q
        BY <1>1, <1>10, <1>14, <1>15, <2>2, <4>1, FrontierHere DEF Inputs
      <4>3. variables[i] \in VariableType
        BY <1>21, <4>1
      <4>4. PICK d \in Nat : d = variables[i].id
        BY <4>3 DEF VariableType
      <4>5. QED
        BY <4>1, <4>2, <4>4
    <3>3. QED
      BY <3>1, <3>2
  <2>3. QED
    BY <1>11, <1>15, <1>16, <2>2 DEF Inputs
<1>29. nextId' \in Nat /\ nextId <= nextId'
  BY <1>8 DEF Extends
<1>30. QED
  BY <1>1, <1>24, <1>25, <1>26, <1>27, <1>28, <1>29, ParamUInv
------------------------------------------------------------------------------
(***************************************************************************)
(* The steps of the other phases.                                          *)
(***************************************************************************)
LEMMA StepUInv ==
    ASSUME TInv, UInv, fails = 0, pc \notin Early,
           UNCHANGED << prog, entp, entries >>, nextId' \in Nat, nextId <= nextId',
           pc' \in {"declare", "bodies", "done", "crashed"},
           MadeApart(entp, made', Low, nextId'),
           VariablesApart(entp, made', variables', Low, nextId'), Frontier'
    PROVE  UInv'
<1>1. Apart'
  BY BlocksGrow, ApartKept
<1>2. Reserving'
  <2>1. PICK x \in Nat, y \in Nat, l \in Nat : x = nextId /\ y = nextId' /\ x <= y /\ l = Low /\ l <= x
    BY UniqueParts, LowOK, TInvParts DEF IdsOK, Reserving
  <2>2. nextId' >= Low'
    BY <2>1, LowKept
  <2>3. \A i \in DOMAIN entries : entries[i].id = FirstId + i - 1
    BY UniqueParts DEF Reserving
  <2>4. QED
    BY <2>2, <2>3 DEF Reserving, Early
<1>3. QED
  BY <1>1, <1>2 DEF UInv, Visiting

\* Nothing is defined in the step.
LEMMA QuietUInv ==
    ASSUME TInv, UInv, fails = 0, pc \notin Early,
           UNCHANGED << prog, entp, entries, made, variables >>, nextId' \in {nextId, nextId + 1},
           pc' \in {"declare", "bodies", "done", "crashed"}, Frontier'
    PROVE  UInv'
<1>1. PICK x \in Nat, y \in Nat : x = nextId /\ y = nextId' /\ x <= y
  <2>1. PICK x \in Nat : x = nextId /\ x <= x /\ x <= x + 1 /\ x + 1 \in Nat
    BY TInvParts DEF IdsOK
  <2>2. QED
    BY <2>1
<1>2. Extends(made, nextId, made', nextId')
  BY <1>1, ExtendsNothing
<1>3. Roomy(entp, Low, nextId)
  BY RoomyHere
<1>4. MadeApart(entp, made', Low, nextId')
  BY <1>2, <1>3, UniqueParts, MadeGrows
<1>5. VariablesApart(entp, made', variables', Low, nextId')
  BY <1>2, <1>3, UniqueParts, VariablesGrow
<1>6. QED
  BY <1>1, <1>4, <1>5, StepUInv

\* The interface of the kernel lies before that of the next.
LEMMA FrontierCloses ==
    ASSUME TInv, Counted, UInv, fails = 0, pc \in Declares, at <= Len(prog), prog[at].kernel,
           CloseTable, UNCHANGED << prog, entp >>, variables' \in Seq(VariableType),
           Inputs(variables', entp[w0 + 1].io + entp[w0 + 1].num)
    PROVE  Frontier'
<1>1. CASE pc' = "crashed"
  BY <1>1 DEF Frontier, Declares
<1>2. CASE pc' = "declare" /\ w0' = w0 + 1
  <2> SUFFICES ASSUME w0' < NumEntp', entp[w0' + 1].fn # 0,
                      NEW i \in DOMAIN variables', variables'[i].class = "Input"
               PROVE  variables'[i].id < entp[w0' + 1].io + 0
    BY <1>2 DEF Frontier
  <2>1. /\ w0 \in Nat /\ w0 + 1 \in DOMAIN entp /\ entp[w0 + 1] \in EntpType
        /\ entp[w0 + 1].fn # 0
    BY NotedHere
  <2>2. PICK w \in Nat, n \in Nat : /\ w = w0 /\ n = NumEntp /\ DOMAIN entp = 1..n
                                    /\ entp \in Seq(EntpType)
    BY <2>1, PhaseFacts, TInvParts DEF EntpOK, Phases
  <2>3. w + 1 < n /\ (w + 1) + 1 \in 1..n /\ w + 1 < (w + 1) + 1
    <3>1. NumEntp' = NumEntp
      BY CountsKept
    <3>2. w + 1 < n
      BY <1>2, <2>2, <3>1
    <3>3. QED
      BY <3>2
  <2>4. entp[(w + 1) + 1] \in EntpType /\ entp[(w + 1) + 1].fn # 0
    BY <1>2, <2>2, <2>3
  <2>5. entp[w + 1].io + entp[w + 1].num <= entp[(w + 1) + 1].io
    BY <2>1, <2>2, <2>3, <2>4, UniqueParts DEF Blocks
  <2>6. PICK a \in Nat, b \in Nat, c \in Nat :
            a = entp[w + 1].io /\ b = entp[w + 1].num /\ c = entp[(w + 1) + 1].io
    BY <2>1, <2>2, <2>4 DEF EntpType
  <2>7. variables'[i] \in VariableType
    OBVIOUS
  <2>8. PICK d \in Nat : d = variables'[i].id
    BY <2>7 DEF VariableType
  <2>9. d < a + b
    BY <2>2, <2>6, <2>8 DEF Inputs
  <2>10. w0' + 1 = (w + 1) + 1
    BY <1>2, <2>2
  <2>11. d < c + 0
    <3>1. a + b <= c
      BY <2>5, <2>6, Zenon
    <3>2. QED
      BY <2>9, <3>1
  <2>12. entp[w0' + 1].io = c
    BY <2>6, <2>10
  <2>13. QED
    BY <2>8, <2>11, <2>12
<1>3. QED
  BY <1>1, <1>2 DEF CloseTable

LEMMA InputsWithin ==
    ASSUME NEW V \in Seq(VariableType), NEW a \in Nat, NEW b \in Nat, NEW c \in Nat,
           Inputs(V, a + b), b <= c
    PROVE  Inputs(V, a + c)
<1> SUFFICES ASSUME NEW i \in DOMAIN V, V[i].class = "Input" PROVE V[i].id < a + c
  BY DEF Inputs
<1>1. V[i] \in VariableType
  OBVIOUS
<1>2. PICK d \in Nat : d = V[i].id
  BY <1>1 DEF VariableType
<1>3. QED
  BY <1>2 DEF Inputs

LEMMA HollowUInv == ASSUME TInv, Counted, UInv, fails = 0, Hollow PROVE UInv'
<1>1. /\ pc = "declare" /\ at <= Len(prog) /\ prog[at].kernel /\ CloseTable
      /\ UNCHANGED << prog, nextId, made, entp, entries, variables >>
  BY DEF Hollow, Declaring, sections
<1>2. /\ entp[w0 + 1] \in EntpType /\ entp[w0 + 1].fn # 0 /\ w0 \in Nat
      /\ w0 + 1 \in DOMAIN entp
  BY <1>1, NotedHere DEF Declares
<1>3. PICK a \in Nat, b \in Nat : a = entp[w0 + 1].io /\ b = entp[w0 + 1].num /\ 0 <= b
  BY <1>2 DEF EntpType
<1>4. w0 < NumEntp
  <2>1. Len(entp) = NumEntp /\ entp \in Seq(EntpType)
    BY <1>1, TInvParts DEF Phases, Declares, EntpOK
  <2>2. QED
    BY <1>2, <2>1
<1>5. Inputs(variables, a + 0)
  BY <1>1, <1>2, <1>3, <1>4, UniqueParts DEF Frontier, Inputs, Declares
<1>6. Inputs(variables, a + b)
  BY <1>3, <1>5, PhaseFacts, InputsWithin
<1>7. Frontier'
  BY <1>1, <1>3, <1>6, PhaseFacts, FrontierCloses DEF Declares
<1>8. pc \notin Early /\ pc' \in {"declare", "bodies", "done", "crashed"}
  BY <1>1 DEF CloseTable, Early
<1>9. QED
  BY <1>1, <1>7, <1>8, QuietUInv

\* The push constant takes the id that was held for it.
LEMMA EndKernelUInv == ASSUME TInv, Counted, UInv, fails = 0, EndKernel PROVE UInv'
<1>1. /\ pc = "params" /\ CloseTable /\ UNCHANGED << prog, entp, entries >>
      /\ at <= Len(prog) /\ prog[at].kernel
  <2>1. at \in DOMAIN prog /\ prog[at].kernel /\ prog \in Seq(Function)
    BY ParamsFacts, PhaseFacts DEF EndKernel, Fetched
  <2>2. QED
    BY <2>1 DEF EndKernel, Fetched
<1>2. /\ entp[w0 + 1] \in EntpType /\ entp[w0 + 1].fn # 0
      /\ visit.io \in Nat /\ visit.io <= entp[w0 + 1].num
  BY <1>1, NotedHere, InterfacesHere DEF Declares
<1>3. PICK a \in Nat, b \in Nat, q \in Nat :
          a = entp[w0 + 1].io /\ b = entp[w0 + 1].num /\ q = visit.io /\ q <= b
  BY <1>2 DEF EntpType
<1>4. Inputs(variables, a + q)
  BY <1>1, <1>2, <1>3, FrontierHere
<1>5. Inputs(variables, a + b) /\ variables \in Seq(VariableType)
  BY <1>3, <1>4, PhaseFacts, InputsWithin
<1>6. pc \notin Early /\ pc' \in {"declare", "bodies", "done", "crashed"}
  BY <1>1 DEF CloseTable, Early
<1>7. CASE ~Pushes
  <2>1. UNCHANGED << made, nextId, variables >>
    BY <1>7 DEF EndKernel
  <2>2. Frontier'
    BY <1>1, <1>3, <1>5, <2>1, FrontierCloses DEF Declares
  <2>3. QED
    BY <1>1, <1>6, <2>1, <2>2, QuietUInv
<1>8. CASE Pushes
  <2>1. PICK s : s = [made |-> made, next |-> nextId]
    OBVIOUS
  <2>2. PICK names : names = Struct(visit.push) \o << << "psh", visit.push >> >>
    OBVIOUS
  <2>3. PICK m : m = MkAll(s, names)
    OBVIOUS
  <2>4. made' = m.made /\ nextId' = m.next /\ variables' = Append(variables, PushVariable)
    BY <1>8, <2>1, <2>2, <2>3 DEF EndKernel
  <2>5. visit \in [Fields -> Nat]
    BY <1>1, ParamsFacts
  <2>6. names \in Seq(Name)
    BY <2>2, <2>5, NamesOK DEF Fields
  <2>7. IdsIn(s.made, s.next) /\ s.made = made /\ s.next = nextId
    BY <1>1, <2>1, IdsInNow
  <2>8. Extends(made, nextId, made', nextId')
    BY <2>3, <2>4, <2>6, <2>7, MkAllExtends
  <2>9. PICK v : v = PushVariable
    OBVIOUS
  <2>10. v \in VariableType /\ v.id = visit.psh /\ v.class = "PushConstant"
    BY <1>1, <2>9, PushVariableOK
  <2>11. Roomy(entp, Low, nextId)
    BY <1>6, RoomyHere
  <2>12. Held(entp, made, variables, Low, nextId, v.id)
    BY <1>1, <1>8, <2>10, UniqueParts DEF Visiting, Pushes
  <2>13. /\ MadeApart(entp, made', Low, nextId')
         /\ VariablesApart(entp, made', variables, Low, nextId')
         /\ Held(entp, made', variables, Low, nextId', v.id)
    BY <2>8, <2>11, <2>12, UniqueParts, MadeGrows, VariablesGrow, HeldGrows
  <2>14. variables' = Append(variables, v)
    BY <2>4, <2>9
  <2>15. VariablesApart(entp, made', variables', Low, nextId')
    BY <1>5, <2>10, <2>13, <2>14, AppendHeld
  <2>16. variables' \in Seq(VariableType) /\ Inputs(variables', a + b)
    <3>1. PICK W : W = variables' /\ W = Append(variables, v)
      BY <2>14
    <3>2. W \in Seq(VariableType)
      BY <1>5, <2>10, <3>1, AppendProperties
    <3>3. PICK l \in Nat : /\ DOMAIN W = 1..(l + 1) /\ W[l + 1] = v
                           /\ \A i \in DOMAIN W : i # l + 1 =>
                                 i \in DOMAIN variables /\ W[i] = variables[i]
      BY <1>5, <2>10, <3>1, Appended
    <3>4. v.class # "Input"
      BY <2>10
    <3>5. Inputs(W, a + b)
      BY <1>5, <3>3, <3>4 DEF Inputs
    <3>6. QED
      BY <3>1, <3>2, <3>5
  <2>17. Frontier'
    BY <1>1, <1>3, <2>16, FrontierCloses DEF Declares
  <2>18. nextId' \in Nat /\ nextId <= nextId'
    BY <2>8 DEF Extends
  <2>19. QED
    BY <1>1, <1>6, <2>13, <2>15, <2>17, <2>18, StepUInv
<1>9. QED
  BY <1>7, <1>8

\* The other steps of the declarations, and those behind them.
LEMMA LaterUInv ==
    ASSUME TInv, Counted, UInv, fails = 0, ~AllocFails,
           \/ NotAKernel \/ DeclareEnds \/ KernelBroken \/ EntriesEnd
           \/ Body \/ BodyNotNoted \/ BodyNoTable \/ Assemble
    PROVE  UInv'
<1>1. /\ pc \notin Early /\ pc' \in {"declare", "bodies", "done", "crashed"}
      /\ UNCHANGED << prog, entp, entries, made, variables >>
      /\ nextId' \in {nextId, nextId + 1}
  BY DEF NotAKernel, DeclareEnds, KernelBroken, EntriesEnd, Body, BodyNotNoted, BodyNoTable,
         Assemble, Declaring, Fetched, BreakOff, Cleanup, Early, sections
<1>2. CASE pc' # "declare"
  <2>1. Frontier'
    BY <1>1, <1>2 DEF Frontier, Declares
  <2>2. QED
    BY <1>1, <2>1, QuietUInv
<1>3. CASE pc' = "declare" /\ pc = "declare" /\ w0' = w0
  <2>1. NumEntp' = NumEntp
    BY <1>1, CountsKept
  <2>2. Frontier'
    BY <1>1, <1>3, <2>1, UniqueParts DEF Frontier, Declares
  <2>3. QED
    BY <1>1, <2>2, QuietUInv
<1>4. CASE pc = "entries"
  <2>1. variables' = << >>
    BY <1>1, <1>4, UniqueParts DEF Reserving
  <2>2. Frontier'
    BY <2>1 DEF Frontier
  <2>3. QED
    BY <1>1, <2>2, QuietUInv
<1>5. pc' = "declare" => (pc = "declare" /\ w0' = w0) \/ pc = "entries"
  BY DEF NotAKernel, DeclareEnds, KernelBroken, EntriesEnd, Body, BodyNotNoted, BodyNoTable,
         Assemble, Declaring, Fetched, BreakOff, Cleanup
<1>6. QED
  BY <1>2, <1>3, <1>4, <1>5

LEMMA InputsFirst ==
    ASSUME TInv, at \in DOMAIN prog PROVE InputsBefore(1) = 0
<1>1. prog[at] \in Function
  BY PhaseFacts
<1>2. prog[at].params \in Seq(Parameter)
  BY <1>1 DEF Function
<1>3. { i \in DOMAIN prog[at].params : i < 1 /\ prog[at].params[i].kind = "input" } = {}
  BY <1>2
<1>4. QED
  BY <1>3, FS_EmptySet DEF InputsBefore

LEMMA BeginKernelUInv ==
    ASSUME TInv, UInv, fails = 0, ~AllocFails, BeginKernel PROVE UInv'
<1>1. /\ pc = "declare" /\ at <= Len(prog) /\ pc' = "params" /\ visit' = NoVisit
      /\ UNCHANGED << prog, at, w0, entp, entries, made, variables, nextId >>
  BY DEF BeginKernel, Declaring, sections
<1>2. at \in DOMAIN prog
  BY <1>1, PhaseFacts
<1>3. visit'.push = 0 /\ visit'.io = 0 /\ visit'.prm = 1
  BY <1>1 DEF NoVisit
<1>4. InputsBefore(1)' = 0
  <2>1. InputsBefore(1) = 0
    BY <1>2, InputsFirst
  <2>2. QED
    BY <1>1, <2>1 DEF InputsBefore
<1>5. Visiting'
  <2>1. ~(0 > 0) /\ 0 <= 0
    OBVIOUS
  <2>2. QED
    BY <1>3, <1>4, <2>1 DEF Visiting
<1>6. Frontier'
  <2>1. NumEntp' = NumEntp
    BY <1>1, CountsKept
  <2>2. QED
    BY <1>1, <1>3, <2>1, UniqueParts DEF Frontier, Declares
<1>7. Apart'
  <2>1. Blocks(entp, Low, nextId') /\ MadeApart(entp, made', Low, nextId')
        /\ VariablesApart(entp, made', variables', Low, nextId')
    BY <1>1, UniqueParts
  <2>2. QED
    BY <1>1, <2>1, ApartKept
<1>8. Reserving'
  <2>1. Low' = Low
    BY <1>1, LowKept
  <2>2. QED
    BY <1>1, <2>1, UniqueParts DEF Reserving, Early
<1>9. QED
  BY <1>5, <1>6, <1>7, <1>8 DEF UInv

\* Before the declarations there are no definitions to keep apart.
LEMMA EarlyUInv ==
    ASSUME TInv, fails = 0, pc' \in Early \cup {"entries"}, prog' = prog,
           DOMAIN made' = {}, variables' = << >>,
           pc' \in Early => entp' = << >>,
           pc' = "entries" => /\ nextId' >= Low
                              /\ \A k \in DOMAIN entp' : entp'[k].fn # 0 => k <= w0',
           Blocks(entp', Low, nextId'),
           \A i \in DOMAIN entries' : entries'[i].id = FirstId + i - 1
    PROVE  UInv'
<1>1. Low' = Low
  BY LowKept
<1>2. Reserving'
  BY <1>1 DEF Reserving, Early
<1>3. Apart'
  <2>1. MadeApart(entp, made, Low, nextId)'
    BY DEF MadeApart
  <2>2. VariablesApart(entp, made, variables, Low, nextId)'
    BY DEF VariablesApart
  <2>3. Blocks(entp, Low, nextId)'
    BY <1>1 DEF Blocks, Interfaces
  <2>4. QED
    BY <2>1, <2>2, <2>3 DEF Apart
<1>4. Visiting' /\ Frontier'
  BY DEF Visiting, Frontier, Early, Declares
<1>5. QED
  BY <1>2, <1>3, <1>4 DEF UInv

LEMMA EarlyParts ==
    ASSUME TInv, Counted, UInv, fails = 0, pc \in Early \cup {"entries"}
    PROVE  DOMAIN made = {} /\ variables = << >> /\ (pc \in Early => entp = << >> /\ entries = << >>)
BY UniqueParts DEF Reserving, Counted

LEMMA ConfUInv == ASSUME TInv, Counted, UInv, fails = 0, ~AllocFails, Conf PROVE UInv'
<1>1. /\ pc \in Early /\ pc' = "count"
      /\ UNCHANGED << prog, made, variables, entries, entp >>
  BY DEF Conf, Early, sections
<1>2. Blocks(entp', Low, nextId')
  BY <1>1, EarlyParts DEF Blocks
<1>3. QED
  BY <1>1, <1>2, EarlyParts, EarlyUInv DEF Early

LEMMA CountUInv == ASSUME TInv, Counted, UInv, fails = 0, Count PROVE UInv'
<1>1. /\ pc \in Early /\ pc = "count" /\ pc' = "entries"
      /\ UNCHANGED << prog, made, variables, entries >>
      /\ entp' = [i \in 1..NumEntp |-> [id |-> 0, fn |-> 0, io |-> 0, num |-> 0]]
      /\ nextId' = nextId + NumEntp + NumFn
  BY DEF Count, Early, sections
<1>2. \A k \in DOMAIN entp' : entp'[k].fn = 0
  BY <1>1
<1>3. nextId' >= Low
  <2>1. PICK l \in Nat, n \in Nat, a \in Nat, f \in Nat :
            /\ l = Len(prog) /\ n = NumEntp /\ n <= l /\ a = nextId /\ f = FirstId /\ a >= f
    <3>1. nextId \in Nat /\ nextId >= FirstId
      BY <1>1, TInvParts DEF IdsOK, Phases
    <3>2. QED
      BY <3>1, PhaseFacts, ProgramAssumption
  <2>2. NumFn = l - n /\ Low = f + n
    BY <2>1 DEF NumFn, Low
  <2>3. a + n + (l - n) >= f + n
    BY <2>1
  <2>4. QED
    BY <1>1, <2>1, <2>2, <2>3
<1>4. Blocks(entp', Low, nextId')
  BY <1>2 DEF Blocks
<1>5. QED
  BY <1>1, <1>2, <1>3, <1>4, EarlyParts, EarlyUInv DEF Early

LEMMA HelperUInv == ASSUME TInv, Counted, UInv, fails = 0, Helper PROVE UInv'
<1>1. /\ pc = "entries" /\ pc' = "entries" /\ nextId' = nextId + 1
      /\ UNCHANGED << prog, made, variables, entries, entp, w0 >>
  BY DEF Helper, sections
<1>2. PICK x \in Nat, l \in Nat : x = nextId /\ l = Low /\ l <= x
  BY <1>1, LowOK, UniqueParts, TInvParts DEF IdsOK, Reserving, Early
<1>3. nextId' \in Nat /\ nextId <= nextId' /\ nextId' >= Low
  BY <1>1, <1>2
<1>4. Blocks(entp', Low, nextId')
  BY <1>1, <1>3, BlocksGrow
<1>5. /\ \A k \in DOMAIN entp' : entp'[k].fn # 0 => k <= w0'
      /\ \A i \in DOMAIN entries' : entries'[i].id = FirstId + i - 1
  BY <1>1, UniqueParts DEF Reserving
<1>6. QED
  BY <1>1, <1>3, <1>4, <1>5, EarlyParts, EarlyUInv DEF Early

\* The interface of an entry point takes the ids behind all of those before.
LEMMA EntryPointUInv == ASSUME TInv, Counted, UInv, fails = 0, EntryPoint PROVE UInv'
<1>1. /\ pc = "entries" /\ pc' = "entries" /\ at <= Len(prog) /\ prog[at].kernel
      /\ nextId' = nextId + Reserved.num /\ w0' = w0 + 1
      /\ entp' = [entp EXCEPT ![w0 + 1] = Reserved] /\ entries' = Append(entries, Entry)
      /\ UNCHANGED << prog, made, variables >>
  BY DEF EntryPoint
<1>2. PICK x \in Nat, l \in Nat, f \in Nat :
          x = nextId /\ l = Low /\ l <= x /\ f = FirstId
  BY <1>1, LowOK, UniqueParts, TInvParts, ProgramAssumption DEF IdsOK, Reserving, Early
<1>3. PICK r \in EntpType : r = Reserved
  BY <1>1, ReservedOK
<1>4. PICK w \in Nat : w = w0 /\ w + 1 \in 1..NumEntp
  BY <1>1, NextFunction
<1>5. /\ r.id = f + w /\ r.fn = at /\ r.io = x /\ r.num = Interfaces(prog[r.fn])
  BY <1>2, <1>3, <1>4 DEF Reserved, Anchor
<1>6. PICK n \in Nat : n = r.num
  BY <1>3 DEF EntpType
<1>7. nextId' = x + n /\ x + n \in Nat /\ x <= x + n /\ l <= x + n
  BY <1>1, <1>2, <1>3, <1>6
<1>8. /\ DOMAIN entp = DOMAIN entp' /\ w + 1 \in DOMAIN entp /\ entp'[w + 1] = r
      /\ \A k \in DOMAIN entp : k # w + 1 => entp'[k] = entp[k]
      /\ \A k \in DOMAIN entp : k \in Nat /\ entp[k] \in EntpType
  <2>1. entp \in Seq(EntpType) /\ Len(entp) = NumEntp
    BY <1>1, TInvParts DEF EntpOK, Phases
  <2>2. QED
    BY <1>1, <1>3, <1>4, <2>1
<1>9. ASSUME NEW k \in DOMAIN entp, entp[k].fn # 0 PROVE k <= w
  BY <1>1, <1>4, <1>9, UniqueParts DEF Reserving
<1>10. Blocks(entp, Low, x + n)
  <2>1. ASSUME NEW k \in DOMAIN entp, entp[k].fn # 0 PROVE entp[k].io + entp[k].num <= x + n
    <3>1. PICK io \in Nat, num \in Nat : io = entp[k].io /\ num = entp[k].num
      BY <1>8 DEF EntpType
    <3>2. io + num <= x
      BY <1>2, <2>1, <3>1, UniqueParts DEF Blocks
    <3>3. QED
      BY <1>7, <3>1, <3>2
  <2>2. QED
    BY <2>1, UniqueParts DEF Blocks
<1>11. Blocks(entp', Low, nextId')
  <2>1. ASSUME NEW k \in DOMAIN entp', entp'[k].fn # 0
        PROVE  /\ entp'[k].id = FirstId + k - 1 /\ entp'[k].id < Low
               /\ entp'[k].num = Interfaces(prog[entp'[k].fn])
               /\ Low <= entp'[k].io /\ entp'[k].io + entp'[k].num <= nextId'
    <3>1. CASE k = w + 1
      <4>1. f + w = f + (w + 1) - 1
        BY <1>2
      <4>2. f + w < Low
        <5>1. PICK n2 \in Nat : n2 = NumEntp /\ w + 1 <= n2
          BY <1>4, PhaseFacts
        <5>2. f + w < f + n2
          BY <5>1
        <5>3. QED
          BY <1>2, <5>1, <5>2 DEF Low
      <4>3. QED
        BY <1>2, <1>5, <1>6, <1>7, <1>8, <3>1, <4>1, <4>2
    <3>2. CASE k # w + 1
      <4>1. entp'[k] = entp[k] /\ k \in DOMAIN entp
        BY <1>8, <3>2
      <4>2. QED
        BY <1>7, <1>10, <2>1, <4>1 DEF Blocks
    <3>3. QED
      BY <3>1, <3>2
  <2>2. ASSUME NEW k \in DOMAIN entp', NEW j \in DOMAIN entp', k < j,
               entp'[k].fn # 0, entp'[j].fn # 0
        PROVE  entp'[k].io + entp'[k].num <= entp'[j].io
    <3>1. CASE k = w + 1
      <4>1. j \in Nat /\ j # w + 1 /\ j \in DOMAIN entp /\ entp'[j] = entp[j]
        BY <1>8, <2>2, <3>1
      <4>2. j <= w
        BY <1>9, <2>2, <4>1
      <4>3. QED
        BY <2>2, <3>1, <4>1, <4>2
    <3>2. CASE k # w + 1 /\ j = w + 1
      <4>1. k \in DOMAIN entp /\ entp'[k] = entp[k] /\ entp[k].fn # 0
        BY <1>8, <2>2, <3>2
      <4>2. entp[k].io + entp[k].num <= x
        BY <1>2, <4>1, UniqueParts DEF Blocks
      <4>3. QED
        BY <1>5, <1>8, <3>2, <4>1, <4>2
    <3>3. CASE k # w + 1 /\ j # w + 1
      <4>1. /\ k \in DOMAIN entp /\ entp'[k] = entp[k]
            /\ j \in DOMAIN entp /\ entp'[j] = entp[j]
        BY <1>8, <3>3
      <4>2. QED
        BY <2>2, <4>1, UniqueParts DEF Blocks
    <3>4. QED
      BY <3>1, <3>2, <3>3
  <2>3. QED
    BY <2>1, <2>2 DEF Blocks
<1>12. \A k \in DOMAIN entp' : entp'[k].fn # 0 => k <= w0'
  <2>1. ASSUME NEW k \in DOMAIN entp', entp'[k].fn # 0 PROVE k <= w + 1
    <3>1. k \in Nat /\ (k = w + 1 \/ entp'[k] = entp[k])
      BY <1>8
    <3>2. k = w + 1 \/ k <= w
      BY <1>8, <1>9, <2>1, <3>1
    <3>3. QED
      BY <3>1, <3>2
  <2>2. QED
    BY <1>1, <1>4, <2>1
<1>13. \A i \in DOMAIN entries' : entries'[i].id = FirstId + i - 1
  <2>1. Entry \in EntryType /\ Entry.id = f + w /\ entries \in Seq(EntryType) /\ Len(entries) = w
    BY <1>1, <1>3, <1>4, <1>5, ReservedOK, TInvParts DEF Entry, EntpOK, Counted
  <2>2. PICK e \in EntryType : e = Entry
    BY <2>1
  <2>3. PICK W : W = entries' /\ W = Append(entries, e)
    BY <1>1, <2>2
  <2>4. PICK m \in Nat : /\ DOMAIN entries = 1..m /\ DOMAIN W = 1..(m + 1) /\ W[m + 1] = e
                         /\ \A i \in DOMAIN W : i # m + 1 =>
                               i \in DOMAIN entries /\ W[i] = entries[i]
    BY <2>1, <2>3, Appended
  <2>5. m = w
    BY <2>1, <2>4
  <2>6. ASSUME NEW i \in DOMAIN W PROVE W[i].id = FirstId + i - 1
    <3>1. CASE i = m + 1
      <4>1. f + w = f + (w + 1) - 1
        BY <1>2
      <4>2. QED
        BY <1>2, <2>1, <2>2, <2>4, <2>5, <3>1, <4>1
    <3>2. CASE i # m + 1
      <4>1. i \in DOMAIN entries /\ W[i] = entries[i]
        BY <2>4, <3>2
      <4>2. QED
        BY <4>1, UniqueParts DEF Reserving
    <3>3. QED
      BY <3>1, <3>2
  <2>7. QED
    BY <2>3, <2>6
<1>14. nextId' >= Low
  BY <1>2, <1>7
<1>15. DOMAIN made' = {} /\ variables' = << >>
  BY <1>1, EarlyParts
<1>16. QED
  BY <1>1, <1>11, <1>12, <1>13, <1>14, <1>15, EarlyUInv DEF Early
------------------------------------------------------------------------------
LEMMA InitUInv == Init => UInv
<1> SUFFICES ASSUME Init PROVE UInv
  OBVIOUS
<1>1. /\ pc = "conf" /\ DOMAIN made = {} /\ entp = << >> /\ entries = << >> /\ variables = << >>
  BY DEF Init
<1>2. Reserving
  BY <1>1 DEF Reserving, Early
<1>3. Apart
  BY <1>1 DEF Apart, Blocks, MadeApart, VariablesApart
<1>4. Visiting /\ Frontier
  BY <1>1 DEF Visiting, Frontier, Declares
<1>5. QED
  BY <1>2, <1>3, <1>4 DEF UInv

LEMMA UnchangedUInv == ASSUME UInv, UNCHANGED vars PROVE UInv'
<1>1. UNCHANGED << prog, pc, at, nextId, made, w0, entp, entries, variables, visit, fails >>
  BY DEF vars, sections, history
<1>2. Kernels' = Kernels /\ NumEntp' = NumEntp /\ Low' = Low
  BY <1>1, CountsKept, LowKept
<1>3. ASSUME fails = 0 PROVE Apart'
  <2>1. Blocks(entp, Low, nextId') /\ MadeApart(entp, made', Low, nextId')
        /\ VariablesApart(entp, made', variables', Low, nextId')
    BY <1>1, <1>3, UniqueParts
  <2>2. QED
    BY <1>1, <2>1, ApartKept
<1>4. ASSUME fails = 0 PROVE Reserving' /\ Frontier'
  BY <1>1, <1>2, <1>4, UniqueParts DEF Reserving, Frontier
<1>5. ASSUME fails = 0 PROVE Visiting'
  BY <1>1, <1>2, <1>5, UniqueParts DEF Visiting, Held, Listed, InputsBefore
<1>6. QED
  BY <1>1, <1>3, <1>4, <1>5 DEF UInv

LEMMA NextUInv == ASSUME TInv, Counted, UInv, [Next]_vars PROVE UInv'
<1>1. CASE UNCHANGED vars
  BY <1>1, UnchangedUInv
<1>2. CASE Next /\ fails' # 0
  BY <1>2 DEF UInv
<1>3. CASE Next /\ fails' = 0
  <2>1. fails = 0 /\ ~AllocFails
    BY <1>3, FailsKept
  <2>2. CASE CountFails \/ EntryPointFails \/ BindableFails \/ LocalFails \/ EndKernelFails
             \/ BodyFails
    BY <2>1, <2>2 DEF CountFails, EntryPointFails, BindableFails, LocalFails, EndKernelFails,
       BodyFails
  <2>3. CASE Finished
    BY <1>1, <2>3 DEF Finished
  <2>4. CASE Conf \/ Count \/ Helper \/ EntryPoint \/ EntriesEnd \/ NotAKernel \/ Hollow
             \/ BeginKernel \/ DeclareEnds
    BY <2>1, <2>4, ConfUInv, CountUInv, HelperUInv, EntryPointUInv, LaterUInv, HollowUInv,
       BeginKernelUInv
  <2>5. CASE Scalar \/ Bindable \/ Local \/ Located \/ Refused \/ NoTable
    BY <2>1, <2>5, ScalarUInv, BindableUInv, LocalUInv, LocatedUInv, RefusedUInv, NoTableUInv
  <2>6. CASE KernelBroken \/ EndKernel \/ Body \/ BodyNotNoted \/ BodyNoTable \/ Assemble
    BY <2>1, <2>6, LaterUInv, EndKernelUInv
  <2>7. QED
    BY <1>3, <2>2, <2>3, <2>4, <2>5, <2>6 DEF Next
<1>4. QED
  BY <1>1, <1>2, <1>3

\* What IdsUnique says follows from where the blocks are.
LEMMA BlocksApart == ASSUME TInv, Counted, UInv PROVE IdsUnique
<1> DEFINE e == { r \in Range(entp) : r.fn # 0 }
           declared == { v.id : v \in Range(variables) }
<1> SUFFICES ASSUME fails = 0
             PROVE  /\ Injective([i \in DOMAIN variables |-> variables[i].id])
                    /\ Injective(made)
                    /\ Injective([i \in DOMAIN entries |-> entries[i].id])
                    /\ declared \cap Range(made) = {}
                    /\ { r.id : r \in e } \cap (declared \cup Range(made)) = {}
                    /\ Range(made) \cap UNION { r.io..(r.io + r.num - 1) : r \in e } = {}
                    /\ \A r, q \in e : r.num > 0 => q.id \notin r.io..(r.io + r.num - 1)
                    /\ \A id \in declared \cup Range(made) \cup { r.id : r \in e } : id < nextId
  BY DEF IdsUnique
<1>1. PICK x, f, l \in Nat : x = nextId /\ f = FirstId /\ l = Low
  BY LowOK, TInvParts, ProgramAssumption DEF IdsOK
<1>2. Injective([i \in DOMAIN variables |-> variables[i].id])
  BY UniqueParts DEF VariablesApart, Injective
<1>3. Injective(made)
  BY UniqueParts DEF MadeApart, Injective
<1>4. Injective([i \in DOMAIN entries |-> entries[i].id])
  <2>1. entries \in Seq(EntryType)
    BY TInvParts DEF EntpOK
  <2>2. ASSUME NEW i \in DOMAIN entries, NEW j \in DOMAIN entries, entries[i].id = entries[j].id
        PROVE  i = j
    <3>1. i \in Nat /\ j \in Nat
      BY <2>1
    <3>2. f + i - 1 = f + j - 1
      BY <1>1, <2>2, UniqueParts DEF Reserving
    <3>3. QED
      BY <3>1, <3>2
  <2>3. QED
    BY <2>2 DEF Injective
<1>5. ASSUME NEW id \in declared
      PROVE  id \in l..(x - 1) /\ id \notin Range(made)
  <2>1. PICK i \in DOMAIN variables : id = variables[i].id
    BY DEF Range
  <2>2. QED
    BY <1>1, <2>1, UniqueParts DEF VariablesApart, Range
<1>6. ASSUME NEW id \in Range(made)
      PROVE  id \in l..(x - 1) /\ ~Listed(entp, id)
  <2>1. PICK i \in DOMAIN made : id = made[i]
    BY DEF Range
  <2>2. QED
    BY <1>1, <2>1, UniqueParts DEF MadeApart
<1>7. ASSUME NEW r \in e
      PROVE  /\ \E k \in DOMAIN entp : r = entp[k] /\ r.fn # 0
             /\ r.id \in Nat /\ r.id < l
             /\ r.io \in Nat /\ r.num \in Nat /\ l <= r.io /\ l <= x
  <2>1. PICK k \in DOMAIN entp : r = entp[k] /\ r.fn # 0
    BY DEF Range
  <2>2. entp # << >> /\ entp \in Seq(EntpType)
    BY <2>1, TInvParts DEF EntpOK
  <2>3. r \in EntpType /\ r.id < l /\ l <= r.io
    BY <1>1, <2>1, <2>2, UniqueParts DEF Blocks
  <2>4. l <= x
    BY <1>1, <2>2, UniqueParts DEF Reserving
  <2>5. QED
    BY <2>1, <2>3, <2>4 DEF EntpType
<1> HIDE DEF e, declared
<1>8. { r.id : r \in e } \cap (declared \cup Range(made)) = {}
  <2>1. ASSUME NEW r \in e, r.id \in declared \cup Range(made) PROVE FALSE
    <3>1. r.id \in Nat /\ r.id < l
      BY <1>7
    <3>2. r.id \in l..(x - 1)
      BY <1>5, <1>6, <2>1
    <3>3. QED
      BY <3>1, <3>2
  <2>2. QED
    BY <2>1
<1>9. Range(made) \cap UNION { r.io..(r.io + r.num - 1) : r \in e } = {}
  <2>1. ASSUME NEW id \in Range(made), NEW r \in e, id \in r.io..(r.io + r.num - 1) PROVE FALSE
    <3>1. PICK k \in DOMAIN entp : r = entp[k] /\ r.fn # 0
      BY <1>7
    <3>2. PICK io \in Nat, num \in Nat : io = r.io /\ num = r.num
      BY <1>7
    <3>3. io <= id /\ id < io + num
      BY <2>1, <3>2
    <3>4. Listed(entp, id)
      BY <3>1, <3>2, <3>3 DEF Listed
    <3>5. QED
      BY <1>6, <3>4
  <2>2. QED
    BY <2>1
<1>10. ASSUME NEW r \in e, NEW q \in e, q.id \in r.io..(r.io + r.num - 1) PROVE FALSE
  <2>1. PICK io \in Nat, num \in Nat, d \in Nat : io = r.io /\ num = r.num /\ d = q.id
    BY <1>7
  <2>2. l <= io /\ d < l
    BY <1>7, <2>1
  <2>3. QED
    BY <1>10, <2>1, <2>2
<1>11. ASSUME NEW id \in declared \cup Range(made) \cup { r.id : r \in e } PROVE id < x
  <2>1. CASE id \in declared \cup Range(made)
    <3>1. id \in l..(x - 1)
      BY <1>5, <1>6, <2>1
    <3>2. QED
      BY <3>1
  <2>2. CASE id \in { r.id : r \in e }
    <3>1. PICK r \in e : id = r.id
      BY <2>2
    <3>2. id \in Nat /\ id < l /\ l <= x
      BY <1>7, <3>1
    <3>3. QED
      BY <3>2
  <2>3. QED
    BY <1>11, <2>1, <2>2
<1>12. declared \cap Range(made) = {}
  BY <1>5
<1>13. QED
  BY <1>1, <1>2, <1>3, <1>4, <1>8, <1>9, <1>10, <1>11, <1>12

\* No two definitions of the module share an id, and every id lies below the
\* bound: for any number of kernels and helpers in any order, with parameters of
\* any kinds, and whatever types and constants they need.
THEOREM IdsAreUnique == Spec => []IdsUnique
<1>1. Init => Counted
  BY DEF Init, Counted, Early, Declares
<1>2. TInv /\ Counted /\ UInv => IdsUnique
  BY BlocksApart
<1>3. QED
  BY <1>1, <1>2, InitTInv, InitUInv, NextTInv, NextCounted, NextUInv, PTL DEF Spec
------------------------------------------------------------------------------
(***************************************************************************)
(* The interfaces: what an entry point lists was reserved from one count   *)
(* of the parameters, and is declared by another.                          *)
(***************************************************************************)
\* The first n ids that kernel k lists are declared, as inputs of its own.
Complete(E, V, k, n) ==
    \A j \in Nat : j < n => \E i \in DOMAIN V :
        V[i].id = E[Before(k) + 1].io + j /\ V[i].class = "Input" /\ V[i].fn = k

AllDeclared(E, V, k) == Complete(E, V, k, PointerInputs(prog[k]))

Within(r, n, id) == r.io <= id /\ id < r.io + n

\* The input v has one of the ids reserved for the annotated pointers.
OwnId(E, v) == Within(E[Before(v.fn) + 1], PointerInputs(prog[v.fn]), v.id)

Owned(E, V) ==
    \A i \in DOMAIN V : V[i].class = "Input" => V[i].fn \in Kernels /\ OwnId(E, V[i])

Lists(L, E) == \A i \in DOMAIN L : L[i].io = [j \in 1..E[i].num |-> E[i].io + j - 1]

\* The visit broke off with an error, which ends the declarations.
Abandoned == visit.prm > Len(prog[at].params) /\ err # OK

Reached ==
    pc = "params" =>
        /\ Complete(entp, variables, at, visit.io)
        /\ Abandoned \/ visit.io = InputsBefore(visit.prm)

InterInv ==
    Clean =>
        /\ Lists(entries, entp) /\ Owned(entp, variables)
        /\ pc \in Declares => \A k \in Kernels : k < at => AllDeclared(entp, variables, k)
        /\ pc = "bodies" \/ output => \A k \in Kernels : AllDeclared(entp, variables, k)
        /\ output => Len(entp) = NumEntp
        /\ Reached

LEMMA InterParts ==
    ASSUME InterInv, Clean
    PROVE  /\ Lists(entries, entp) /\ Owned(entp, variables) /\ Reached /\ fails = 0
           /\ pc \in Declares => \A k \in Kernels : k < at => AllDeclared(entp, variables, k)
           /\ pc = "bodies" \/ output => \A k \in Kernels : AllDeclared(entp, variables, k)
           /\ output => Len(entp) = NumEntp
BY DEF InterInv, Clean

LEMMA CleanKept ==
    ASSUME TInv, Next, Clean' PROVE Clean /\ fails = 0 /\ ~AllocFails /\ broken' = broken
<1>1. fails = 0 /\ ~AllocFails
  BY FailsKept DEF Clean
<1>2. broken \subseteq broken'
  BY DEF Next, Conf, Count, CountFails, Helper, EntryPoint, EntryPointFails, EntriesEnd,
     NotAKernel, Hollow, BeginKernel, DeclareEnds, Scalar, Bindable, BindableFails, Local,
     LocalFails, Located, Refused, NoTable, KernelBroken, EndKernel, EndKernelFails, Body,
     BodyNotNoted, BodyNoTable, BodyFails, Assemble, Finished, vars, history, BreakOff
<1>3. QED
  BY <1>1, <1>2 DEF Clean

\* The sequence v goes on as w.
Grown(v, w) == \A i \in DOMAIN v : i \in DOMAIN w /\ w[i] = v[i]

LEMMA CompleteGrows ==
    ASSUME NEW E, NEW V, NEW W, Grown(V, W), NEW k, NEW n, Complete(E, V, k, n)
    PROVE  Complete(E, W, k, n)
<1> SUFFICES ASSUME NEW j \in Nat, j < n
             PROVE  \E i \in DOMAIN W : /\ W[i].id = E[Before(k) + 1].io + j
                                        /\ W[i].class = "Input" /\ W[i].fn = k
  BY DEF Complete
<1>1. PICK i \in DOMAIN V : /\ V[i].id = E[Before(k) + 1].io + j
                            /\ V[i].class = "Input" /\ V[i].fn = k
  BY DEF Complete
<1>2. i \in DOMAIN W /\ W[i] = V[i]
  BY DEF Grown
<1>3. QED
  BY <1>1, <1>2

LEMMA AllGrow ==
    ASSUME NEW E, NEW V, NEW W, Grown(V, W), NEW k, AllDeclared(E, V, k)
    PROVE  AllDeclared(E, W, k)
BY CompleteGrows DEF AllDeclared

\* What a step must show.
LEMMA InterStep ==
    ASSUME prog' = prog, Lists(entries', entp'), Owned(entp', variables'),
           pc' \in Declares => \A k \in Kernels : k < at' => AllDeclared(entp', variables', k),
           pc' = "bodies" \/ output' => \A k \in Kernels : AllDeclared(entp', variables', k),
           output' => Len(entp') = NumEntp,
           pc' = "params" => /\ at' = at /\ Complete(entp', variables', at, visit'.io)
                             /\ Abandoned' \/ visit'.io = InputsBefore(visit'.prm)
    PROVE  InterInv'
<1>1. Kernels' = Kernels /\ NumEntp' = NumEntp /\ \A i : Before(i)' = Before(i)
  BY CountsKept
<1>2. Lists(entries, entp)' /\ Owned(entp, variables)'
  BY <1>1 DEF Lists, Owned, OwnId, Within, PointerInputs
<1>3. ASSUME NEW k, NEW n PROVE Complete(entp, variables, k, n)' <=> Complete(entp', variables', k, n)
  BY <1>1 DEF Complete
<1>4. ASSUME NEW k PROVE AllDeclared(entp, variables, k)' <=> AllDeclared(entp', variables', k)
  BY <1>1 DEF AllDeclared, Complete, PointerInputs
<1>5. Reached'
  BY <1>1 DEF Reached, Complete, InputsBefore
<1>6. QED
  BY <1>1, <1>2, <1>4, <1>5 DEF InterInv

\* Nothing is declared.
LEMMA QuietInter ==
    ASSUME TInv, InterInv, Clean, UNCHANGED << prog, entp, entries, variables >>,
           pc' \notin {"params"},
           pc' = "declare" => \A k \in Kernels : k < at' => AllDeclared(entp, variables, k),
           pc' = "bodies" \/ output' => \A k \in Kernels : AllDeclared(entp, variables, k),
           output' => Len(entp) = NumEntp
    PROVE  InterInv'
<1>1. Lists(entries', entp') /\ Owned(entp', variables')
  BY InterParts
<1>2. QED
  BY <1>1, InterStep DEF Declares

\* A step of the visit of the parameters.
LEMMA ParamInter ==
    ASSUME TInv, Counted, InterInv, Clean, pc = "params",
           UNCHANGED << prog, pc, at, entp, entries, output >>,
           Grown(variables, variables'), Owned(entp, variables'),
           Complete(entp, variables', at, visit'.io),
           Abandoned' \/ visit'.io = InputsBefore(visit'.prm)
    PROVE  InterInv'
<1>1. Lists(entries', entp') /\ ~output'
  BY InterParts DEF Counted
<1>2. ASSUME NEW k \in Kernels, k < at PROVE AllDeclared(entp, variables', k)
  BY <1>2, InterParts, AllGrow DEF Declares
<1>3. QED
  BY <1>1, <1>2, InterStep
------------------------------------------------------------------------------
\* The step of the visit that declares a variable for a parameter.
Introduces(v) ==
    /\ pc = "params" /\ visit.prm <= Len(prog[at].params) /\ tables # << >>
    /\ UNCHANGED << prog, pc, at, w0, entp, entries, fns, output, broken >>
    /\ v \in VariableType /\ v.fn = at /\ v.prm = visit.prm
    /\ variables' = Append(variables, v) /\ tables' = WithSlot(v.id)
    /\ Param.kind \notin Scalars /\ v.class # "PushConstant"
    /\ v.class = "Input" <=> Param.kind = "input"
    /\ v.class = "Input" => v.id = entp[w0 + 1].io + visit.io
    /\ bindings \subseteq bindings'
    /\ Param.kind \in {"global", "constant"} =>
           [id |-> v.id, binding |-> visit.bind] \in bindings'

Goes ==
    /\ visit'.arg = visit.arg + 1 /\ visit'.prm = visit.prm + 1
    /\ visit'.push = visit.push
    /\ visit'.bind = IF Param.kind \in {"global", "constant"} THEN visit.bind + 1 ELSE visit.bind
    /\ visit'.io = IF Param.kind = "input" THEN visit.io + 1 ELSE visit.io

LEMMA BindableIntroduces ==
    ASSUME TInv, Bindable PROVE (\E v : Introduces(v)) /\ Goes
<1>1. /\ pc = "params" /\ visit.prm <= Len(prog[at].params) /\ tables # << >>
      /\ Param.kind \in {"global", "constant"}
      /\ UNCHANGED << prog, pc, at, w0, entp, entries, fns, output, broken >>
      /\ tables' = WithSlot(nextId)
      /\ bindings' = bindings \cup {[id |-> nextId, binding |-> visit.bind]}
      /\ visit' = [visit EXCEPT !.bind = NextBinding, !.arg = @ + 1, !.prm = @ + 1]
  BY DEF Bindable, Fetching, Param
<1>2. PICK typed \in BOOLEAN :
          variables' = Append(variables, Variable(nextId,
                IF Param.kind = "constant" THEN "Uniform" ELSE "StorageBuffer",
                Param.kind = "constant" \/ typed))
  BY DEF Bindable
<1>3. PICK class \in {"StorageBuffer", "Uniform"}, b \in BOOLEAN :
           variables' = Append(variables, Variable(nextId, class, b))
  <2>1. PICK b \in BOOLEAN : b = (Param.kind = "constant" \/ typed)
    OBVIOUS
  <2>2. QED
    BY <1>2, <2>1
<1>4. PICK v : v = Variable(nextId, class, b) /\ pc = "params" /\ nextId \in Nat
  BY <1>1, TInvParts DEF IdsOK
<1>5. /\ v \in VariableType /\ v.id = nextId /\ v.class \in {"StorageBuffer", "Uniform"}
      /\ v.fn = at /\ v.prm = visit.prm
  BY <1>4, VariableIs
<1>6. Introduces(v)
  BY <1>1, <1>3, <1>4, <1>5 DEF Introduces, Scalars
<1>7. visit \in [Fields -> Nat]
  BY <1>1, ParamsFacts
<1>8. Goes
  BY <1>1, <1>7 DEF Goes, Fields, NextBinding
<1>9. QED
  BY <1>6, <1>8

LEMMA LocalIntroduces ==
    ASSUME TInv, ~AllocFails, Local PROVE (\E v : Introduces(v)) /\ Goes
<1>1. /\ pc = "params" /\ visit.prm <= Len(prog[at].params) /\ tables # << >>
      /\ Param.kind = "local" /\ LocalTypes \in Seq(Name)
      /\ UNCHANGED << prog, pc, at, w0, entp, entries, fns, output, broken, bindings >>
      /\ visit' = [visit EXCEPT !.arg = @ + 1, !.prm = @ + 1]
  BY LocalTypesOK DEF Local, Fetching, Param
<1>2. PICK typed \in BOOLEAN :
        LET s == MkAll(Typing(StorageTypes, typed), LocalTypes)
        IN  /\ tables' = WithSlot(s.next + 5)
            /\ variables' = Append(variables, Variable(s.next + 5, "Workgroup", TRUE))
  BY DEF Local, LocalId
<1>3. PICK t : t = Typing(StorageTypes, typed)
  OBVIOUS
<1>4. PICK u : u = MkAll(t, LocalTypes)
  OBVIOUS
<1>5. Extends(t.made, t.next, u.made, u.next)
  <2>1. IdsIn(t.made, t.next)
    BY <1>1, <1>3, TypingGrows
  <2>2. QED
    BY <1>1, <1>4, <2>1, MkAllExtends
<1>6. PICK x \in Nat, b \in BOOLEAN : x = u.next + 5 /\ b = TRUE
  <2>1. u.next \in Nat
    BY <1>5 DEF Extends
  <2>2. u.next + 5 \in Nat /\ TRUE \in BOOLEAN
    BY <2>1
  <2>3. QED
    BY <2>2, Zenon
<1>7. tables' = WithSlot(x) /\ variables' = Append(variables, Variable(x, "Workgroup", b))
  <2>1. /\ tables' = WithSlot(u.next + 5)
        /\ variables' = Append(variables, Variable(u.next + 5, "Workgroup", TRUE))
    BY <1>2, <1>3, <1>4, Zenon
  <2>2. QED
    BY <1>6, <2>1, Zenon
<1>8. PICK v : v = Variable(x, "Workgroup", b) /\ pc = "params"
  BY <1>1
<1>9. /\ v \in VariableType /\ v.id = x /\ v.class = "Workgroup"
      /\ v.fn = at /\ v.prm = visit.prm
  BY <1>8, VariableIs
<1>10. Introduces(v)
  BY <1>1, <1>7, <1>8, <1>9 DEF Introduces, Scalars
<1>11. visit \in [Fields -> Nat]
  BY <1>1, ParamsFacts
<1>12. Goes
  BY <1>1, <1>11 DEF Goes, Fields
<1>13. QED
  BY <1>10, <1>12

LEMMA LocatedIntroduces ==
    ASSUME TInv, ~AllocFails, Located PROVE (\E v : Introduces(v)) /\ Goes
<1> DEFINE id == entp[w0 + 1].io + visit.io
<1>1. /\ pc = "params" /\ visit.prm <= Len(prog[at].params) /\ tables # << >>
      /\ Param.kind = "input"
      /\ UNCHANGED << prog, pc, at, w0, entp, entries, fns, output, broken, bindings >>
      /\ visit' = [visit EXCEPT !.io = NextIo, !.arg = @ + 1, !.prm = @ + 1]
      /\ tables' = WithSlot(id) /\ variables' = Append(variables, Variable(id, "Input", TRUE))
  BY DEF Located, Fetching, Param
<1>2. visit \in [Fields -> Nat] /\ entp[w0 + 1] \in EntpType
  BY <1>1, ParamsFacts, EntpHere
<1>3. PICK x \in Nat, b \in BOOLEAN : x = id /\ b = TRUE
  <2>1. id \in Nat /\ TRUE \in BOOLEAN
    BY <1>2 DEF Fields, EntpType
  <2>2. QED
    BY <2>1, Zenon
<1> HIDE DEF id
<1>4. PICK v : v = Variable(x, "Input", b) /\ pc = "params"
  BY <1>1
<1>5. /\ v \in VariableType /\ v.id = x /\ v.class = "Input"
      /\ v.fn = at /\ v.prm = visit.prm
  BY <1>4, VariableIs
<1>6. tables' = WithSlot(v.id) /\ variables' = Append(variables, v)
  BY <1>1, <1>3, <1>4, <1>5, Zenon
<1>7. Introduces(v)
  BY <1>1, <1>3, <1>5, <1>6 DEF Introduces, Scalars, id
<1>8. Goes
  BY <1>1, <1>2 DEF Goes, Fields, NextIo
<1>9. QED
  BY <1>7, <1>8
------------------------------------------------------------------------------
LEMMA OwnedGrows ==
    ASSUME NEW E, NEW V \in Seq(VariableType), Owned(E, V), NEW v \in VariableType,
           v.class = "Input" => v.fn \in Kernels /\ OwnId(E, v),
           NEW W, W = Append(V, v)
    PROVE  Owned(E, W) /\ Grown(V, W)
<1>1. PICK l \in Nat : /\ W[l + 1] = v
                       /\ \A i \in DOMAIN W : i # l + 1 => i \in DOMAIN V /\ W[i] = V[i]
                       /\ \A i \in DOMAIN V : i \in DOMAIN W /\ W[i] = V[i]
  BY Appended
<1>2. ASSUME NEW i \in DOMAIN W, W[i].class = "Input"
      PROVE  W[i].fn \in Kernels /\ OwnId(E, W[i])
  <2>1. CASE i = l + 1
    BY <1>1, <1>2, <2>1
  <2>2. CASE i # l + 1
    <3>1. i \in DOMAIN V /\ W[i] = V[i]
      BY <1>1, <2>2
    <3>2. QED
      BY <1>2, <3>1 DEF Owned
  <2>3. QED
    BY <2>1, <2>2
<1>3. QED
  BY <1>1, <1>2 DEF Owned, Grown

\* The count of the inputs and the visit go hand in hand.
LEMMA InputsGo ==
    ASSUME TInv, InterInv, Clean, pc = "params", visit.prm <= Len(prog[at].params)
    PROVE  \E p \in Nat, q \in Nat :
             /\ p = visit.prm /\ q = visit.io /\ q = InputsBefore(p) /\ p + 1 \in Nat
             /\ p \in DOMAIN prog[at].params /\ prog[at].params[p] = Param
             /\ InputsBefore(p + 1) = IF Param.kind = "input" THEN q + 1 ELSE q
             /\ InputsBefore(p + 1) <= PointerInputs(prog[at])
<1>1. visit \in [Fields -> Nat] /\ prog[at].params \in Seq(Parameter) /\ visit.prm >= 1
  BY ParamsFacts, TInvParts DEF Slots
<1>2. PICK p \in Nat, q \in Nat, l \in Nat :
          p = visit.prm /\ q = visit.io /\ l = Len(prog[at].params) /\ p + 1 \in Nat
  BY <1>1 DEF Fields
<1>3. p \in DOMAIN prog[at].params /\ prog[at].params[p] = Param /\ ~(p > l)
  BY <1>1, <1>2 DEF Param
<1>4. q = InputsBefore(p)
  BY <1>2, <1>3, InterParts DEF Reached, Abandoned
<1>5. /\ InputsBefore(p + 1) <= PointerInputs(prog[at])
      /\ InputsBefore(p + 1) = IF Param.kind = "input" THEN InputsBefore(p) + 1
                               ELSE InputsBefore(p)
  BY <1>2, <1>3, InputsCounted
<1>6. QED
  BY <1>2, <1>3, <1>4, <1>5

LEMMA IntroducesInter ==
    ASSUME TInv, Counted, UInv, InterInv, Clean, NEW v, Introduces(v), Goes PROVE InterInv'
<1>1. /\ pc = "params" /\ UNCHANGED << prog, pc, at, w0, entp, entries, output >>
      /\ v \in VariableType /\ v.fn = at /\ variables' = Append(variables, v)
      /\ v.class = "Input" <=> Param.kind = "input"
      /\ v.class = "Input" => v.id = entp[w0 + 1].io + visit.io
      /\ visit.prm <= Len(prog[at].params) /\ variables \in Seq(VariableType)
  BY PhaseFacts DEF Introduces
<1>2. PICK p \in Nat, q \in Nat :
             /\ p = visit.prm /\ q = visit.io /\ q = InputsBefore(p) /\ p + 1 \in Nat
             /\ InputsBefore(p + 1) = IF Param.kind = "input" THEN q + 1 ELSE q
             /\ InputsBefore(p + 1) <= PointerInputs(prog[at])
  BY <1>1, InputsGo
<1>3. /\ visit'.prm = p + 1 /\ visit'.io = IF Param.kind = "input" THEN q + 1 ELSE q
      /\ visit'.io = InputsBefore(visit'.prm)
  BY <1>2 DEF Goes
<1>4. /\ w0 + 1 \in DOMAIN entp /\ entp[w0 + 1] \in EntpType /\ at \in Kernels
      /\ w0 = Before(at) /\ prog[at] \in Function
  <2>1. at <= Len(prog) /\ prog[at].kernel
    BY <1>1, ParamsFacts, PhaseFacts
  <2>2. QED
    BY <1>1, <2>1, PhaseFacts, NotedHere DEF Declares, Clean
<1>5. PICK io \in Nat, num \in Nat : io = entp[w0 + 1].io /\ num = PointerInputs(prog[at])
  BY <1>4, InterfacesNat DEF EntpType
<1>6. v.class = "Input" => OwnId(entp, v)
  <2>1. ASSUME v.class = "Input" PROVE v.id = io + q /\ q + 1 <= num
    BY <1>1, <1>2, <1>4, <1>5, <2>1
  <2>2. QED
    BY <1>1, <1>4, <1>5, <2>1 DEF OwnId, Within
<1>7. PICK W : W = variables' /\ W = Append(variables, v)
  BY <1>1
<1>8. Owned(entp, W) /\ Grown(variables, W)
  BY <1>1, <1>4, <1>6, <1>7, InterParts, OwnedGrows
<1>9. Complete(entp, W, at, visit'.io)
  <2>1. Complete(entp, W, at, q)
    BY <1>1, <1>2, <1>8, InterParts, CompleteGrows DEF Reached
  <2>2. CASE Param.kind # "input"
    BY <1>3, <2>1, <2>2
  <2>3. CASE Param.kind = "input"
    <3>1. PICK m \in DOMAIN W : W[m] = v
      <4>1. PICK l \in Nat : DOMAIN W = 1..(l + 1) /\ l + 1 \in 1..(l + 1) /\ W[l + 1] = v
        BY <1>1, <1>7, Appended
      <4>2. QED
        BY <4>1
    <3>2. ASSUME NEW j \in Nat, j < q + 1
          PROVE  \E i \in DOMAIN W : /\ W[i].id = entp[Before(at) + 1].io + j
                                     /\ W[i].class = "Input" /\ W[i].fn = at
      <4>1. CASE j < q
        BY <2>1, <4>1 DEF Complete
      <4>2. CASE j = q
        BY <1>1, <1>2, <1>4, <2>3, <3>1, <4>2
      <4>3. QED
        BY <3>2, <4>1, <4>2
    <3>3. QED
      BY <1>3, <2>3, <3>2 DEF Complete
  <2>4. QED
    BY <2>2, <2>3
<1>10. QED
  BY <1>1, <1>3, <1>7, <1>8, <1>9, ParamInter

LEMMA ScalarInter == ASSUME TInv, Counted, InterInv, Clean, Scalar PROVE InterInv'
<1>1. /\ pc = "params" /\ UNCHANGED << prog, pc, at, entp, entries, output, variables >>
      /\ visit.prm <= Len(prog[at].params) /\ Param.kind \in Scalars
      /\ \E psh : visit' = [visit EXCEPT !.push = @ + 1, !.psh = psh, !.prm = @ + 1]
  BY DEF Scalar, Fetching, sections, Param
<1>2. PICK p \in Nat, q \in Nat :
             /\ p = visit.prm /\ q = visit.io /\ q = InputsBefore(p)
             /\ InputsBefore(p + 1) = IF Param.kind = "input" THEN q + 1 ELSE q
  BY <1>1, InputsGo
<1>3. visit'.io = q /\ visit'.prm = p + 1
  BY <1>1, <1>2, ParamsFacts DEF Fields
<1>4. visit'.io = InputsBefore(visit'.prm)
  BY <1>1, <1>2, <1>3 DEF Scalars
<1>5. Grown(variables, variables')
  BY <1>1 DEF Grown
<1>6. Owned(entp, variables') /\ Complete(entp, variables', at, visit'.io)
  BY <1>1, <1>2, <1>3, InterParts DEF Reached
<1>7. QED
  BY <1>1, <1>4, <1>5, <1>6, ParamInter

\* A parameter is refused, or there is no table for it.
LEMMA VisitAbandoned == ASSUME TInv, Refused \/ NoTable PROVE Abandoned' /\ BreakVisit
<1>1. pc = "params" /\ UNCHANGED << prog, at >> /\ BreakVisit /\ err' # OK
  BY DEF Refused, NoTable, Fetching, ALLOC_FAILED, OK, Why, MET_INVAL, Param
<1>2. prog[at].params \in Seq(Parameter) /\ visit \in [Fields -> Nat]
  BY <1>1, ParamsFacts
<1>3. PICK l \in Nat : l = Len(prog[at].params) /\ l + 1 > l
  BY <1>2
<1>4. visit'.prm = l + 1
  BY <1>1, <1>2, <1>3 DEF BreakVisit, Fields
<1>5. QED
  BY <1>1, <1>3, <1>4 DEF Abandoned

LEMMA AbandonedInter ==
    ASSUME TInv, Counted, InterInv, Clean, Refused \/ NoTable PROVE InterInv'
<1>1. /\ pc = "params" /\ UNCHANGED << prog, pc, at, entp, entries, output, variables >>
      /\ visit.prm <= Len(prog[at].params)
  BY DEF Refused, NoTable, Fetching, sections
<1>2. Abandoned' /\ BreakVisit
  BY VisitAbandoned
<1>3. visit'.io = visit.io
  BY <1>1, <1>2, BrokenVisit
<1>4. Grown(variables, variables')
  BY <1>1 DEF Grown
<1>5. Owned(entp, variables') /\ Complete(entp, variables', at, visit'.io)
  BY <1>1, <1>3, InterParts DEF Reached
<1>6. QED
  BY <1>1, <1>2, <1>4, <1>5, ParamInter
------------------------------------------------------------------------------
\* The kernels before the next function.
LEMMA KernelsUpTo ==
    ASSUME TInv, NEW k \in Kernels
    PROVE  /\ k < at + 1 => k < at \/ k = at
           /\ at > Len(prog) => k < at
           /\ ~(k < 1) /\ k \in Nat
<1>1. k \in Nat /\ 1 <= k /\ k <= Len(prog)
  BY PhaseFacts, KernelsFinite
<1>2. PICK a \in Nat, l \in Nat : a = at /\ l = Len(prog)
  BY PhaseFacts
<1>3. QED
  BY <1>1, <1>2

\* A kernel's declarations end: all its interface is declared.
LEMMA CloseInter ==
    ASSUME TInv, Counted, InterInv, Clean, pc \in Declares, CloseTable,
           UNCHANGED << prog, entp, entries, output >>,
           Grown(variables, variables'), Owned(entp, variables'),
           AllDeclared(entp, variables, at)
    PROVE  InterInv'
<1>1. ~output' /\ pc' \in {"crashed", "declare"} /\ (pc' = "declare" => at' = at + 1)
  BY DEF CloseTable, Counted, Declares
<1>2. ASSUME NEW k \in Kernels, k < at + 1 PROVE AllDeclared(entp, variables', k)
  <2>1. AllDeclared(entp, variables, k)
    BY <1>2, InterParts, KernelsUpTo
  <2>2. QED
    BY <2>1, AllGrow
<1>3. Lists(entries', entp')
  BY InterParts
<1>4. QED
  BY <1>1, <1>2, <1>3, InterStep DEF Declares

LEMMA EndKernelInter ==
    ASSUME TInv, Counted, UInv, InterInv, Clean, EndKernel PROVE InterInv'
<1>1. /\ pc = "params" /\ visit.prm > Len(prog[at].params) /\ err = OK /\ CloseTable
      /\ UNCHANGED << prog, entp, entries, output >>
      /\ variables' = variables \/ variables' = Append(variables, PushVariable)
  BY DEF EndKernel, Fetched
<1>2. visit.io = PointerInputs(prog[at])
  <2>1. visit.io = InputsBefore(visit.prm) /\ visit.prm \in Nat
    BY <1>1, InterParts, ParamsFacts DEF Reached, Abandoned, Fields
  <2>2. QED
    BY <1>1, <2>1, InputsCounted
<1>3. AllDeclared(entp, variables, at)
  BY <1>1, <1>2, InterParts DEF Reached, AllDeclared
<1>4. Grown(variables, variables') /\ Owned(entp, variables')
  <2>1. CASE variables' = variables
    BY <2>1, InterParts DEF Grown
  <2>2. CASE variables' = Append(variables, PushVariable)
    <3>1. PICK W, v : W = variables' /\ v = PushVariable
      OBVIOUS
    <3>2. W = Append(variables, v) /\ v \in VariableType /\ v.class # "Input"
      BY <1>1, <2>2, <3>1, PushVariableOK
    <3>3. Owned(entp, W) /\ Grown(variables, W)
      BY <3>2, InterParts, PhaseFacts, OwnedGrows
    <3>4. QED
      BY <3>1, <3>3
  <2>3. QED
    BY <1>1, <2>1, <2>2
<1>5. QED
  BY <1>1, <1>3, <1>4, CloseInter DEF Declares

LEMMA HollowInter ==
    ASSUME TInv, Counted, UInv, InterInv, Clean, Hollow PROVE InterInv'
<1>1. /\ pc = "declare" /\ at <= Len(prog) /\ prog[at].kernel /\ prog[at].params = << >>
      /\ CloseTable /\ UNCHANGED << prog, entp, entries, output, variables >>
  BY DEF Hollow, Declaring, sections
<1>2. /\ w0 = Before(at) /\ entp[w0 + 1].fn = at /\ entp[w0 + 1].fn # 0
      /\ w0 + 1 \in DOMAIN entp
  BY <1>1, NotedHere DEF Declares, Clean
<1>3. PointerInputs(prog[at]) = 0
  <2>1. { i \in DOMAIN prog[at].params : prog[at].params[i].kind = "input" } = {}
    BY <1>1
  <2>2. QED
    BY <2>1, FS_EmptySet DEF PointerInputs
<1>4. AllDeclared(entp, variables, at)
  <2>1. \A j \in Nat : ~(j < 0)
    OBVIOUS
  <2>2. QED
    BY <1>3, <2>1 DEF AllDeclared, Complete
<1>5. Grown(variables, variables') /\ Owned(entp, variables')
  BY <1>1, InterParts DEF Grown
<1>6. QED
  BY <1>1, <1>4, <1>5, CloseInter DEF Declares

LEMMA BeginKernelInter ==
    ASSUME TInv, Counted, InterInv, Clean, ~AllocFails, BeginKernel PROVE InterInv'
<1>1. /\ pc = "declare" /\ at <= Len(prog) /\ pc' = "params" /\ visit' = NoVisit
      /\ UNCHANGED << prog, at, entp, entries, variables, output >>
  BY DEF BeginKernel, Declaring, sections
<1>2. visit'.io = 0 /\ visit'.prm = 1
  BY <1>1 DEF NoVisit
<1>3. InputsBefore(1) = 0
  BY <1>1, PhaseFacts, InputsFirst
<1>4. Complete(entp', variables', at, visit'.io)
  <2>1. \A j \in Nat : ~(j < 0)
    OBVIOUS
  <2>2. QED
    BY <1>2, <2>1 DEF Complete
<1>5. ~output'
  BY <1>1 DEF Counted
<1>6. QED
  BY <1>1, <1>2, <1>3, <1>4, <1>5, InterParts, InterStep DEF Declares

\* The steps that declare nothing.
LEMMA LaterInter ==
    ASSUME TInv, Counted, InterInv, Clean, ~AllocFails, broken' = broken,
           \/ NotAKernel \/ DeclareEnds \/ KernelBroken \/ EntriesEnd
           \/ Body \/ BodyNotNoted \/ BodyNoTable \/ Assemble
    PROVE  InterInv'
<1>1. UNCHANGED << prog, entp, entries, variables >> /\ pc' # "params"
  BY DEF NotAKernel, DeclareEnds, KernelBroken, EntriesEnd, Body, BodyNotNoted, BodyNoTable,
         Assemble, Declaring, Fetched, BreakOff, Cleanup, sections
<1>2. CASE NotAKernel
  <2>1. /\ pc = "declare" /\ pc' = pc /\ at' = at + 1 /\ ~prog[at].kernel /\ output' = output
    BY <1>2 DEF NotAKernel, Declaring, sections
  <2>2. ASSUME NEW k \in Kernels, k < at + 1 PROVE AllDeclared(entp, variables, k)
    <3>1. k # at
      BY <2>1 DEF Kernels
    <3>2. QED
      BY <2>1, <2>2, <3>1, InterParts, KernelsUpTo DEF Declares
  <2>3. ~output'
    BY <2>1 DEF Counted
  <2>4. QED
    BY <1>1, <2>1, <2>2, <2>3, QuietInter
<1>3. CASE DeclareEnds
  <2>1. pc = "declare" /\ pc' = "bodies" /\ at > Len(prog)
    BY <1>3 DEF DeclareEnds
  <2>2. \A k \in Kernels : AllDeclared(entp, variables, k)
    BY <2>1, InterParts, KernelsUpTo DEF Declares
  <2>3. ~output'
    BY <1>3, <2>1 DEF DeclareEnds, Counted, sections
  <2>4. QED
    BY <1>1, <2>1, <2>2, <2>3, QuietInter
<1>4. CASE KernelBroken
  <2>1. err # OK /\ broken' = broken \cup {err} /\ broken = {}
    BY <1>4 DEF KernelBroken, BreakOff, Clean
  <2>2. QED
    BY <2>1
<1>5. CASE EntriesEnd
  <2>1. pc' = "declare" /\ at' = 1 /\ output' = output /\ pc = "entries"
    BY <1>5 DEF EntriesEnd, sections
  <2>2. ~output'
    BY <2>1 DEF Counted
  <2>3. QED
    BY <1>1, <2>1, <2>2, KernelsUpTo, QuietInter
<1>6. CASE Body \/ BodyNotNoted \/ BodyNoTable \/ Assemble
  <2>1. pc = "bodies" /\ pc' # "declare"
    BY <1>6 DEF Body, BodyNotNoted, BodyNoTable, Assemble, Cleanup
  <2>2. /\ \A k \in Kernels : AllDeclared(entp, variables, k)
        /\ Len(entp) = NumEntp
    BY <2>1, InterParts, TInvParts DEF Phases
  <2>3. QED
    BY <1>1, <2>1, <2>2, QuietInter
<1>7. QED
  BY <1>2, <1>3, <1>4, <1>5, <1>6

LEMMA EarlyInter ==
    ASSUME TInv, Counted, UInv, InterInv, Clean, pc \in Early \cup {"entries"},
           prog' = prog, variables' = variables, output' = output,
           pc' \in Early \cup {"entries"}, Lists(entries', entp')
    PROVE  InterInv'
<1>1. variables' = << >> /\ ~output'
  BY EarlyParts DEF Counted, Early, Clean
<1>2. Owned(entp', variables')
  BY <1>1 DEF Owned
<1>3. QED
  BY <1>1, <1>2, InterStep DEF Early, Declares

LEMMA CountingInter ==
    ASSUME TInv, Counted, UInv, InterInv, Clean, ~AllocFails, Conf \/ Count \/ Helper
    PROVE  InterInv'
<1>1. /\ pc \in Early \cup {"entries"} /\ pc' \in Early \cup {"entries"}
      /\ UNCHANGED << prog, variables, output, entries >>
  BY DEF Conf, Count, Helper, Early, sections
<1>2. CASE Conf \/ Helper
  <2>1. entp' = entp
    BY <1>2 DEF Conf, Helper
  <2>2. QED
    BY <1>1, <2>1, InterParts, EarlyInter
<1>3. CASE Count
  <2>1. entries' = << >>
    BY <1>1, <1>3, EarlyParts DEF Count, Early, Clean
  <2>2. Lists(entries', entp')
    BY <2>1 DEF Lists
  <2>3. QED
    BY <1>1, <2>2, EarlyInter
<1>4. QED
  BY <1>2, <1>3

LEMMA EntryPointInter ==
    ASSUME TInv, Counted, UInv, InterInv, Clean, EntryPoint PROVE InterInv'
<1>1. /\ pc = "entries" /\ pc' = "entries" /\ at <= Len(prog) /\ prog[at].kernel
      /\ entp' = [entp EXCEPT ![w0 + 1] = Reserved] /\ entries' = Append(entries, Entry)
      /\ UNCHANGED << prog, variables, output >>
  BY DEF EntryPoint
<1>2. PICK r \in EntpType : r = Reserved
  BY <1>1, ReservedOK
<1>3. PICK w \in Nat : w = w0 /\ w + 1 \in 1..NumEntp
  BY <1>1, NextFunction
<1>4. /\ w + 1 \in DOMAIN entp /\ entp'[w + 1] = r
      /\ \A k \in DOMAIN entp : k # w + 1 => entp'[k] = entp[k]
      /\ DOMAIN entp = 1..NumEntp
  <2>1. entp \in Seq(EntpType) /\ Len(entp) = NumEntp
    BY <1>1, TInvParts DEF EntpOK, Phases
  <2>2. QED
    BY <1>1, <1>2, <1>3, <2>1
<1>5. PICK e \in EntryType : e = Entry
  BY <1>1, ReservedOK
<1>6. e.io = [j \in 1..r.num |-> r.io + j - 1]
  BY <1>2, <1>5 DEF Entry
<1>7. entries \in Seq(EntryType) /\ Len(entries) = w
  BY <1>1, <1>3, TInvParts DEF EntpOK, Counted, Clean
<1>8. PICK W : W = entries' /\ W = Append(entries, e)
  BY <1>1, <1>5
<1>9. PICK m \in Nat : /\ DOMAIN entries = 1..m /\ DOMAIN W = 1..(m + 1) /\ W[m + 1] = e
                       /\ \A i \in DOMAIN W : i # m + 1 =>
                             i \in DOMAIN entries /\ W[i] = entries[i]
  BY <1>7, <1>8, Appended
<1>10. m = w
  BY <1>7, <1>9
<1>11. ASSUME NEW i \in DOMAIN W PROVE W[i].io = [j \in 1..entp'[i].num |-> entp'[i].io + j - 1]
  <2>1. CASE i = m + 1
    BY <1>4, <1>6, <1>9, <1>10, <2>1
  <2>2. CASE i # m + 1
    <3>1. i \in DOMAIN entries /\ W[i] = entries[i]
      BY <1>9, <2>2
    <3>2. i \in DOMAIN entp
      <4>1. PICK n \in Nat : n = NumEntp
        BY PhaseFacts
      <4>2. i \in 1..w /\ w + 1 <= n
        BY <1>3, <1>9, <1>10, <3>1, <4>1
      <4>3. QED
        BY <1>4, <4>1, <4>2
    <3>3. entp'[i] = entp[i]
      BY <1>4, <1>10, <2>2, <3>2
    <3>4. QED
      BY <3>1, <3>3, InterParts DEF Lists
  <2>3. QED
    BY <2>1, <2>2
<1>12. Lists(entries', entp')
  BY <1>8, <1>11 DEF Lists
<1>13. QED
  BY <1>1, <1>12, EarlyInter

LEMMA InitInter == Init => InterInv
<1> SUFFICES ASSUME Init PROVE InterInv
  OBVIOUS
<1>1. pc = "conf" /\ entries = << >> /\ variables = << >> /\ ~output
  BY DEF Init
<1>2. QED
  BY <1>1 DEF InterInv, Lists, Owned, Reached, Declares

LEMMA UnchangedInter == ASSUME InterInv, UNCHANGED vars PROVE InterInv'
<1>1. UNCHANGED << prog, pc, at, err, entp, entries, variables, visit, output, broken, fails >>
  BY DEF vars, sections, history
<1>2. CASE Clean
  <2>1. Lists(entries', entp') /\ Owned(entp', variables')
    BY <1>1, <1>2, InterParts
  <2>2. Abandoned' <=> Abandoned
    BY <1>1 DEF Abandoned
  <2>3. pc' = "params" => /\ at' = at /\ Complete(entp', variables', at, visit'.io)
                          /\ Abandoned' \/ visit'.io = InputsBefore(visit'.prm)
    BY <1>1, <1>2, <2>2, InterParts DEF Reached
  <2>4. QED
    BY <1>1, <1>2, <2>1, <2>3, InterParts, InterStep
<1>3. CASE ~Clean
  BY <1>1, <1>3 DEF InterInv, Clean
<1>4. QED
  BY <1>2, <1>3

LEMMA NextInter == ASSUME TInv, Counted, UInv, InterInv, [Next]_vars PROVE InterInv'
<1>1. CASE UNCHANGED vars
  BY <1>1, UnchangedInter
<1>2. CASE Next /\ ~Clean'
  BY <1>2 DEF InterInv
<1>3. CASE Next /\ Clean'
  <2>1. Clean /\ fails = 0 /\ ~AllocFails /\ broken' = broken
    BY <1>3, CleanKept
  <2>2. CASE CountFails \/ EntryPointFails \/ BindableFails \/ LocalFails \/ EndKernelFails
             \/ BodyFails
    BY <2>1, <2>2 DEF CountFails, EntryPointFails, BindableFails, LocalFails, EndKernelFails,
       BodyFails
  <2>3. CASE Finished
    BY <1>1, <2>3 DEF Finished
  <2>4. CASE Conf \/ Count \/ Helper \/ EntryPoint \/ EntriesEnd \/ NotAKernel \/ Hollow
             \/ BeginKernel \/ DeclareEnds
    BY <2>1, <2>4, CountingInter, EntryPointInter, LaterInter, HollowInter, BeginKernelInter
  <2>5. CASE Scalar \/ Bindable \/ Local \/ Located \/ Refused \/ NoTable
    BY <2>1, <2>5, ScalarInter, AbandonedInter, BindableIntroduces, LocalIntroduces,
       LocatedIntroduces, IntroducesInter
  <2>6. CASE KernelBroken \/ EndKernel \/ Body \/ BodyNotNoted \/ BodyNoTable \/ Assemble
    BY <2>1, <2>6, LaterInter, EndKernelInter
  <2>7. QED
    BY <1>3, <2>2, <2>3, <2>4, <2>5, <2>6 DEF Next
<1>4. QED
  BY <1>1, <1>2, <1>3

LEMMA ListsDeclared == ASSUME TInv, Counted, UInv, InterInv PROVE InterfacesDeclared
<1> SUFFICES ASSUME output, Clean
             PROVE  /\ \A k \in Kernels : \A m \in DOMAIN EntryOf(k).io :
                          (\E v \in Range(variables) : /\ v.id = EntryOf(k).io[m]
                                                        /\ v.class = "Input" /\ v.fn = k)
                          <=> m <= PointerInputs(prog[k])
                    /\ \A v \in Range(variables) : v.class = "Input" =>
                          v.fn \in Kernels /\ v.id \in Range(EntryOf(v.fn).io)
  BY DEF InterfacesDeclared
<1>1. /\ Len(entries) = NumEntp /\ entries \in Seq(EntryType) /\ NumEntp \in Nat
      /\ entp \in Seq(EntpType) /\ \A k \in Kernels : Noted(k)
  BY PhaseFacts, TInvParts DEF Counted, Clean, EntpOK
<1>2. ASSUME NEW k \in Kernels
      PROVE  \E io \in Nat, num \in Nat, n \in Nat :
                /\ EntryOf(k).io = [j \in 1..num |-> io + j - 1]
                /\ io = entp[Before(k) + 1].io /\ n = PointerInputs(prog[k]) /\ n <= num
  <2>1. PICK b \in Nat, n \in Nat : b = Before(k) /\ n = NumEntp /\ b < n
    BY <1>1, PhaseFacts, KernelsFinite, BeforeGrows
  <2>2. b + 1 \in DOMAIN entries
    BY <1>1, <2>1
  <2>3. EntryOf(k).io = [j \in 1..entp[b + 1].num |-> entp[b + 1].io + j - 1]
    BY <2>1, <2>2, InterParts DEF Lists, EntryOf
  <2>4. entp[b + 1] \in EntpType
    <3>1. Len(entp) = Len(entries)
      BY <1>1, InterParts
    <3>2. QED
      BY <1>1, <2>2, <3>1
  <2>5. PICK io \in Nat, num \in Nat : io = entp[b + 1].io /\ num = entp[b + 1].num
    BY <2>4 DEF EntpType
  <2>6. num = Interfaces(prog[k])
    <3>1. Noted(k) /\ b + 1 \in DOMAIN entp
      BY <1>1, <2>2, InterParts
    <3>2. entp[b + 1].fn = k /\ k # 0
      BY <2>1, <3>1, KernelsFinite, PhaseFacts DEF Noted
    <3>3. QED
      BY <2>5, <3>1, <3>2, UniqueParts DEF Blocks, Clean
  <2>7. PointerInputs(prog[k]) \in Nat /\ PointerInputs(prog[k]) <= num
    <3>1. prog[k] \in Function
      BY PhaseFacts, KernelsFinite DEF Kernels
    <3>2. QED
      BY <2>6, <3>1, InterfacesNat
  <2>8. QED
    BY <2>1, <2>3, <2>5, <2>6, <2>7
<1>3. ASSUME NEW k \in Kernels, NEW m \in DOMAIN EntryOf(k).io
      PROVE  (\E v \in Range(variables) : /\ v.id = EntryOf(k).io[m]
                                           /\ v.class = "Input" /\ v.fn = k)
             <=> m <= PointerInputs(prog[k])
  <2>1. PICK io \in Nat, num \in Nat, n \in Nat :
                /\ EntryOf(k).io = [j \in 1..num |-> io + j - 1]
                /\ io = entp[Before(k) + 1].io /\ n = PointerInputs(prog[k])
    BY <1>2
  <2>2. m \in 1..num /\ EntryOf(k).io[m] = io + m - 1
    <3>1. PICK s : s = EntryOf(k).io
      OBVIOUS
    <3>2. QED
      BY <1>3, <2>1, <3>1
  <2>3. PICK d \in Nat : d = m - 1 /\ EntryOf(k).io[m] = io + d /\ (d < n <=> m <= n)
    BY <2>1, <2>2
  <2>4. ASSUME m <= n
        PROVE  \E v \in Range(variables) : /\ v.id = EntryOf(k).io[m]
                                            /\ v.class = "Input" /\ v.fn = k
    <3>1. AllDeclared(entp, variables, k)
      BY InterParts
    <3>2. PICK i \in DOMAIN variables :
              variables[i].id = io + d /\ variables[i].class = "Input" /\ variables[i].fn = k
      BY <2>1, <2>3, <2>4, <3>1 DEF AllDeclared, Complete
    <3>3. QED
      BY <2>3, <3>2 DEF Range
  <2>5. ASSUME NEW v \in Range(variables), v.id = EntryOf(k).io[m], v.class = "Input", v.fn = k
        PROVE  m <= n
    <3>1. PICK i \in DOMAIN variables : v = variables[i]
      BY DEF Range
    <3>2. OwnId(entp, v)
      BY <2>5, <3>1, InterParts DEF Owned
    <3>3. v.id = io + d /\ v.id < io + n
      BY <2>1, <2>3, <2>5, <3>2 DEF OwnId, Within
    <3>4. QED
      BY <2>3, <3>3
  <2>6. QED
    BY <2>1, <2>4, <2>5
<1>4. ASSUME NEW v \in Range(variables), v.class = "Input"
      PROVE  v.fn \in Kernels /\ v.id \in Range(EntryOf(v.fn).io)
  <2>1. PICK i \in DOMAIN variables : v = variables[i]
    BY DEF Range
  <2>2. v.fn \in Kernels /\ OwnId(entp, v)
    BY <1>4, <2>1, InterParts DEF Owned
  <2>3. PICK io \in Nat, num \in Nat, n \in Nat :
                /\ EntryOf(v.fn).io = [j \in 1..num |-> io + j - 1] /\ n <= num
                /\ io = entp[Before(v.fn) + 1].io /\ n = PointerInputs(prog[v.fn])
    <3>1. PICK f \in Kernels : f = v.fn
      BY <2>2
    <3>2. PICK io \in Nat, num \in Nat, n \in Nat :
                /\ EntryOf(f).io = [j \in 1..num |-> io + j - 1]
                /\ io = entp[Before(f) + 1].io /\ n = PointerInputs(prog[f]) /\ n <= num
      BY <1>2
    <3>3. QED
      BY <3>1, <3>2
  <2>4. v \in VariableType
    BY <2>1, PhaseFacts
  <2>5. PICK d \in Nat : d = v.id /\ io <= d /\ d < io + num
    BY <2>2, <2>3, <2>4 DEF VariableType, OwnId, Within
  <2>6. PICK j \in 1..num : d = io + j - 1
    <3>1. d - io + 1 \in 1..num /\ d = io + (d - io + 1) - 1
      BY <2>5
    <3>2. QED
      BY <3>1
  <2>7. PICK s : s = EntryOf(v.fn).io
    OBVIOUS
  <2>8. j \in DOMAIN s /\ s[j] = d
    BY <2>3, <2>6, <2>7
  <2>9. QED
    BY <2>2, <2>5, <2>7, <2>8 DEF Range
<1>5. QED
  BY <1>3, <1>4

\* The interface an entry point lists was reserved before any variable was
\* emitted, from another count of the parameters.  The ids of the annotated
\* pointers are declared as inputs of the kernel that lists them, those of the
\* annotated scalars are not declared, and no input is left out: for any kernels
\* with any parameters, in a compilation that was not broken off.
THEOREM ListedAreDeclared == Spec => []InterfacesDeclared
<1>1. Init => Counted
  BY DEF Init, Counted, Early, Declares
<1>2. TInv /\ Counted /\ UInv /\ InterInv => InterfacesDeclared
  BY ListsDeclared
<1>3. QED
  BY <1>1, <1>2, InitTInv, InitUInv, InitInter, NextTInv, NextCounted, NextUInv, NextInter,
     PTL DEF Spec
------------------------------------------------------------------------------
(***************************************************************************)
(* The tables: a slot for every pointer and array, with the variable that  *)
(* was declared for it, in the table of its kernel.                        *)
(***************************************************************************)
\* What slot s says is true of parameter i of kernel k.
Serves(V, B, s, k, i) ==
    /\ s.prm = i /\ s.entp = Before(k)
    /\ \E j \in DOMAIN V : V[j].id = s.var /\ V[j].fn = k /\ V[j].prm = i
    /\ i \in Bindables(k, i) =>
          [id |-> s.var, binding |-> Cardinality(Bindables(k, i - 1))] \in B

OneSlotEach(t) == \A p, q \in DOMAIN t : t[p].prm = t[q].prm => p = q

IsPush(v, k) == v.class = "PushConstant" /\ v.fn = k

HasScalar(k, n) == \E i \in DOMAIN prog[k].params : i < n /\ prog[k].params[i].kind \in Scalars

PushedOnce(V, k) ==
    /\ (\E i \in DOMAIN V : IsPush(V[i], k))
          <=> \E i \in DOMAIN prog[k].params : prog[k].params[i].kind \in Scalars
    /\ \A i, j \in DOMAIN V : IsPush(V[i], k) /\ IsPush(V[j], k) => i = j

TableDone(V, B, t, k) ==
    /\ OneSlotEach(t)
    /\ \A i \in DOMAIN prog[k].params : prog[k].params[i].kind \notin Scalars =>
          \E p \in DOMAIN t : Serves(V, B, t[p], k, i)
    /\ PushedOnce(V, k)

Done(V, B, T, k) == TableDone(V, B, T[Before(k) + 1], k)

\* The table of kernel a, of which the visit u has seen some parameters: a slot
\* behind u.arg is overwritten by the next.
Filling(V, B, t, a, u) ==
    /\ u.prm <= Len(prog[a].params) + 1
    /\ u.bind = Cardinality(Bindables(a, u.prm - 1))
    /\ u.push > 0 <=> HasScalar(a, u.prm)
    /\ OneSlotEach(t)
    /\ \A p \in DOMAIN t : t[p].prm < u.prm
    /\ \A i \in DOMAIN prog[a].params : i < u.prm /\ prog[a].params[i].kind \notin Scalars =>
          \E p \in DOMAIN t : p <= u.arg /\ Serves(V, B, t[p], a, i)

PushesBelow(V, a) == \A i \in DOMAIN V : V[i].class = "PushConstant" => V[i].fn < a

Owners(E) == \A i \in DOMAIN E : E[i].fn # 0 => E[i].fn \in Kernels /\ Before(E[i].fn) + 1 = i

Bodies(F, T) ==
    \A i \in DOMAIN F : /\ F[i].fn \in Kernels /\ F[i].id = Anchor + Before(F[i].fn)
                        /\ F[i].table = T[Before(F[i].fn) + 1]

TabInv ==
    Clean =>
        /\ pc \in Early \cup {"entries"} => tables = << << >> >>
        /\ Owners(entp) /\ Bodies(fns, tables)
        /\ pc \in Declares =>
              /\ Len(tables) = w0 + 1 /\ PushesBelow(variables, at)
              /\ \A k \in Kernels : k < at => Done(variables, bindings, tables, k)
        /\ pc = "declare" => tables[w0 + 1] = << >>
        /\ pc = "bodies" \/ fns # << >> =>
              /\ Len(tables) = NumEntp + 1
              /\ \A k \in Kernels : Done(variables, bindings, tables, k)
        /\ pc = "params" =>
              Abandoned \/ Filling(variables, bindings, tables[w0 + 1], at, visit)

LEMMA TabParts ==
    ASSUME TabInv, Clean
    PROVE  /\ pc \in Early \cup {"entries"} => tables = << << >> >>
           /\ Owners(entp) /\ Bodies(fns, tables) /\ fails = 0
           /\ pc \in Declares =>
                 /\ Len(tables) = w0 + 1 /\ PushesBelow(variables, at)
                 /\ \A k \in Kernels : k < at => Done(variables, bindings, tables, k)
           /\ pc = "declare" => tables[w0 + 1] = << >>
           /\ pc = "bodies" \/ fns # << >> =>
                 /\ Len(tables) = NumEntp + 1
                 /\ \A k \in Kernels : Done(variables, bindings, tables, k)
           /\ pc = "params" =>
                 Abandoned \/ Filling(variables, bindings, tables[w0 + 1], at, visit)
BY DEF TabInv, Clean

LEMMA ServesGrows ==
    ASSUME NEW V, NEW W, Grown(V, W), NEW B, NEW C, B \subseteq C, NEW s, NEW k, NEW i,
           Serves(V, B, s, k, i)
    PROVE  Serves(W, C, s, k, i)
<1>1. PICK j \in DOMAIN V : V[j].id = s.var /\ V[j].fn = k /\ V[j].prm = i
  BY DEF Serves
<1>2. j \in DOMAIN W /\ W[j] = V[j]
  BY DEF Grown
<1>3. QED
  BY <1>1, <1>2 DEF Serves

LEMMA DoneGrows ==
    ASSUME NEW V, NEW W, Grown(V, W), NEW B, NEW C, B \subseteq C, NEW t, NEW k,
           \A i \in DOMAIN W : i \in DOMAIN V \/ ~IsPush(W[i], k),
           TableDone(V, B, t, k)
    PROVE  TableDone(W, C, t, k)
<1>1. ASSUME NEW i \in DOMAIN prog[k].params, prog[k].params[i].kind \notin Scalars
      PROVE  \E p \in DOMAIN t : Serves(W, C, t[p], k, i)
  <2>1. PICK p \in DOMAIN t : Serves(V, B, t[p], k, i)
    BY <1>1 DEF TableDone
  <2>2. QED
    BY <2>1, ServesGrows
<1>2. \A i \in DOMAIN W : IsPush(W[i], k) => i \in DOMAIN V /\ IsPush(V[i], k)
  BY DEF Grown
<1>3. \A i \in DOMAIN V : IsPush(V[i], k) => i \in DOMAIN W /\ IsPush(W[i], k)
  BY DEF Grown
<1>4. PushedOnce(W, k)
  BY <1>2, <1>3 DEF TableDone, PushedOnce
<1>5. QED
  BY <1>1, <1>4 DEF TableDone

\* What a step must show.
LEMMA TabStep ==
    ASSUME prog' = prog,
           pc' \in Early \cup {"entries"} => tables' = << << >> >>,
           Owners(entp'), Bodies(fns', tables'),
           pc' \in Declares =>
              /\ Len(tables') = w0' + 1 /\ PushesBelow(variables', at')
              /\ \A k \in Kernels : k < at' => Done(variables', bindings', tables', k),
           pc' = "declare" => tables'[w0' + 1] = << >>,
           pc' = "bodies" \/ fns' # << >> =>
              /\ Len(tables') = NumEntp + 1
              /\ \A k \in Kernels : Done(variables', bindings', tables', k),
           pc' = "params" =>
              Abandoned' \/ Filling(variables', bindings', tables'[w0' + 1], at', visit')
    PROVE  TabInv'
<1>1. Kernels' = Kernels /\ NumEntp' = NumEntp /\ \A i : Before(i)' = Before(i)
  BY CountsKept
<1>2. Owners(entp)' /\ Bodies(fns, tables)' /\ PushesBelow(variables, at)' = PushesBelow(variables', at')
  BY <1>1 DEF Owners, Bodies, PushesBelow, Anchor
<1>3. \A f, n : Bindables(f, n)' = Bindables(f, n)
  BY DEF Bindables
<1>4. ASSUME NEW s, NEW k, NEW i
      PROVE  Serves(variables, bindings, s, k, i)' <=> Serves(variables', bindings', s, k, i)
  BY <1>1, <1>3 DEF Serves
<1>5. ASSUME NEW k PROVE PushedOnce(variables, k)' <=> PushedOnce(variables', k)
  BY DEF PushedOnce, IsPush
<1>6. ASSUME NEW k PROVE Done(variables, bindings, tables, k)' <=> Done(variables', bindings', tables', k)
  BY <1>1, <1>3, <1>5 DEF Done, TableDone, OneSlotEach, Serves
<1>7. ASSUME NEW t, NEW a, NEW u
      PROVE  Filling(variables, bindings, t, a, u)' <=> Filling(variables', bindings', t, a, u)
  <2>1. Filling(variables, bindings, t, a, u)' =
          (/\ u.prm <= Len(prog[a].params) + 1
           /\ u.bind = Cardinality(Bindables(a, u.prm - 1))
           /\ u.push > 0 <=> HasScalar(a, u.prm)
           /\ OneSlotEach(t)
           /\ \A p \in DOMAIN t : t[p].prm < u.prm
           /\ \A i \in DOMAIN prog[a].params : i < u.prm /\ prog[a].params[i].kind \notin Scalars =>
                 \E p \in DOMAIN t : p <= u.arg /\ Serves(variables, bindings, t[p], a, i)')
    BY <1>3 DEF Filling, HasScalar
  <2>2. QED
    BY <1>4, <2>1 DEF Filling
<1>8. QED
  <2>1. Filling(variables, bindings, tables[w0 + 1], at, visit)'
          <=> Filling(variables', bindings', tables'[w0' + 1], at', visit')
    <3>1. PICK t, a, u : t = tables'[w0' + 1] /\ a = at' /\ u = visit'
      OBVIOUS
    <3>2. QED
      BY <1>7, <3>1
  <2>2. QED
    BY <1>1, <1>2, <1>6, <2>1 DEF TabInv

\* The phases that declare nothing, and the last steps.
LEMMA QuietTab ==
    ASSUME TInv, TabInv, Clean, UNCHANGED << prog, entp, variables, bindings, tables, fns >>,
           pc' \notin Early \cup {"entries", "params"},
           pc' = "declare" =>
              /\ Len(tables) = w0' + 1 /\ tables[w0' + 1] = << >>
              /\ PushesBelow(variables, at')
              /\ \A k \in Kernels : k < at' => Done(variables, bindings, tables, k),
           pc' = "bodies" \/ fns # << >> =>
              /\ Len(tables) = NumEntp + 1
              /\ \A k \in Kernels : Done(variables, bindings, tables, k)
    PROVE  TabInv'
<1>1. Owners(entp') /\ Bodies(fns', tables')
  BY TabParts
<1>2. QED
  BY <1>1, TabStep DEF Declares

LEMMA EarlyTab ==
    ASSUME TInv, Counted, UInv, TabInv, Clean, pc \in Early \cup {"entries"},
           UNCHANGED << prog, variables, bindings, tables, fns >>,
           pc' \in Early \cup {"entries"}, Owners(entp')
    PROVE  TabInv'
<1>1. fns' = << >> /\ tables' = << << >> >>
  BY TabParts DEF Counted, Clean
<1>2. Bodies(fns', tables')
  BY <1>1 DEF Bodies
<1>3. pc' \notin {"declare", "params", "bodies"}
  BY DEF Early
<1>4. QED
  BY <1>1, <1>2, <1>3, TabStep DEF Declares

\* A step of the visit of the parameters: only the last table changes.
LEMMA ParamTab ==
    ASSUME TInv, Counted, TabInv, Clean, pc = "params",
           UNCHANGED << prog, pc, at, w0, entp, fns >>,
           Grown(variables, variables'), bindings \subseteq bindings',
           \A i \in DOMAIN variables' : i \in DOMAIN variables \/ variables'[i].class # "PushConstant",
           Len(tables') = Len(tables),
           \A i \in DOMAIN tables : i # w0 + 1 => tables'[i] = tables[i],
           Abandoned' \/ Filling(variables', bindings', tables'[w0 + 1], at, visit')
    PROVE  TabInv'
<1>1. /\ fns' = << >> /\ Len(tables) = w0 + 1 /\ PushesBelow(variables, at)
      /\ \A k \in Kernels : k < at => Done(variables, bindings, tables, k)
      /\ Owners(entp)
  BY TabParts DEF Counted, Clean, Declares
<1>2. Bodies(fns', tables')
  BY <1>1 DEF Bodies
<1>3. PushesBelow(variables', at)
  BY <1>1 DEF PushesBelow, Grown
<1>4. ASSUME NEW k \in Kernels, k < at PROVE Done(variables', bindings', tables', k)
  <2>1. Before(k) + 1 \in DOMAIN tables /\ Before(k) + 1 # w0 + 1
    <3>1. PICK b \in Nat, w \in Nat : b = Before(k) /\ w = w0 /\ b < w
      <4>1. at \in Nat /\ w0 = Before(at) /\ w0 \in Nat
        BY ParamsFacts
      <4>2. PICK a \in Int : a = at /\ k < a /\ prog \in Seq(Function)
        BY <1>4, <4>1, PhaseFacts
      <4>3. Before(k) \in Nat
        BY <4>2, KernelsFinite
      <4>4. Before(k) < Before(a)
        BY <4>2, BeforeGrows
      <4>5. QED
        BY <4>1, <4>2, <4>3, <4>4
    <3>2. tables \in Seq(Seq(Slot)) /\ Len(tables) = w + 1
      BY <1>1, <3>1, PhaseFacts
    <3>3. QED
      BY <3>1, <3>2
  <2>2. tables'[Before(k) + 1] = tables[Before(k) + 1]
    BY <2>1
  <2>3. \A i \in DOMAIN variables' : i \in DOMAIN variables \/ ~IsPush(variables'[i], k)
    BY DEF IsPush
  <2>4. TableDone(variables, bindings, tables[Before(k) + 1], k)
    BY <1>1, <1>4 DEF Done
  <2>5. TableDone(variables', bindings', tables[Before(k) + 1], k)
    BY <2>3, <2>4, DoneGrows
  <2>6. QED
    BY <2>2, <2>5 DEF Done
<1>5. pc' \notin Early \cup {"entries", "declare", "bodies"}
  BY DEF Early
<1>6. QED
  BY <1>1, <1>2, <1>3, <1>4, <1>5, TabStep
------------------------------------------------------------------------------
\* The slot that is written, and those before it.
LEMMA WithSlotIs ==
    ASSUME TInv, TabInv, Clean, pc = "params", NEW var \in Nat, NEW T, T = WithSlot(var)
    PROVE  \E a \in Nat :
             /\ a = visit.arg /\ Len(T) = Len(tables)
             /\ \A i \in DOMAIN tables : i # w0 + 1 => T[i] = tables[i]
             /\ DOMAIN T[w0 + 1] = 1..(a + 1)
             /\ T[w0 + 1][a + 1] = [prm |-> visit.prm, entp |-> w0, var |-> var]
             /\ \A p \in 1..a : /\ p \in DOMAIN tables[w0 + 1]
                                /\ T[w0 + 1][p] = tables[w0 + 1][p]
<1> DEFINE last == tables[w0 + 1]
           slot == [prm |-> visit.prm, entp |-> w0, var |-> var]
<1>1. tables \in Seq(Seq(Slot)) /\ Len(tables) = w0 + 1 /\ visit.arg <= Len(last)
  <2>1. Len(tables) = w0 + 1
    BY TabParts DEF Declares
  <2>2. tables \in Seq(Seq(Slot)) /\ w0 \in Nat
    BY PhaseFacts, ParamsFacts
  <2>3. tables # << >>
    BY <2>1, <2>2
  <2>4. QED
    BY <2>1, <2>2, <2>3, TInvParts DEF Slots
<1>2. PICK a \in Nat, w \in Nat : a = visit.arg /\ w = w0
  BY ParamsFacts DEF Fields
<1>3. w + 1 \in DOMAIN tables /\ last \in Seq(Slot)
  BY <1>1, <1>2
<1>4. slot \in Slot
  BY <1>1, <1>2, ParamsFacts, TInvParts DEF Slot, Slots, Fields
<1>5. PICK m \in Nat : m = Len(last) /\ a <= m /\ DOMAIN last = 1..m
  BY <1>1, <1>2, <1>3
<1>6. PICK s : s = SubSeq(last, 1, a)
  OBVIOUS
<1>7. s \in Seq(Slot) /\ Len(s) = a /\ \A p \in 1..a : s[p] = last[p]
  <2>1. \A p \in 1..a : last[p] \in Slot /\ p \in 1..m
    BY <1>3, <1>5
  <2>2. QED
    BY <1>3, <1>6, <2>1, SubSeqProperties
<1>8. PICK t : t = Append(s, slot)
  OBVIOUS
<1>9. DOMAIN t = 1..(a + 1) /\ t[a + 1] = slot /\ \A p \in 1..a : t[p] = s[p]
  <2> HIDE DEF slot
  <2>1. t \in Seq(Slot) /\ Len(t) = a + 1 /\ t[a + 1] = slot /\ \A p \in 1..a : t[p] = s[p]
    BY <1>4, <1>7, <1>8, AppendProperties
  <2>2. QED
    BY <2>1
<1>10. T = [tables EXCEPT ![w + 1] = t]
  BY <1>1, <1>2, <1>6, <1>8 DEF WithSlot
<1> HIDE DEF slot
<1>11. /\ Len(T) = Len(tables) /\ T[w + 1] = t
       /\ \A i \in DOMAIN tables : i # w + 1 => T[i] = tables[i]
  BY <1>1, <1>3, <1>10
<1>12. \A p \in 1..a : p \in DOMAIN last /\ t[p] = last[p]
  <2>1. \A p \in 1..a : p \in 1..m
    BY <1>5
  <2>2. QED
    BY <1>5, <1>7, <1>9, <2>1
<1>13. QED
  BY <1>2, <1>9, <1>11, <1>12 DEF slot

\* The pointers to bind, left to right.
LEMMA BindablesCounted ==
    ASSUME TInv, pc = "params", NEW p \in DOMAIN prog[at].params
    PROVE  /\ Cardinality(Bindables(at, p - 1)) \in Nat
           /\ Cardinality(Bindables(at, p)) =
                 IF prog[at].params[p].kind \in {"global", "constant"}
                 THEN Cardinality(Bindables(at, p - 1)) + 1
                 ELSE Cardinality(Bindables(at, p - 1))
<1> DEFINE P == prog[at].params
           B(n) == { i \in 1..n : P[i].kind \in {"global", "constant"} }
<1>1. PICK l \in Nat : l = Len(P) /\ DOMAIN P = 1..l /\ p \in 1..l
  BY ParamsFacts
<1>2. IsFiniteSet(B(p - 1)) /\ Cardinality(B(p - 1)) \in Nat
  <2>1. 1 \in Int /\ p - 1 \in Int
    BY <1>1
  <2>2. IsFiniteSet(1..(p - 1)) /\ B(p - 1) \in SUBSET (1..(p - 1))
    BY <2>1, FS_Interval
  <2>3. QED
    BY <2>2, FS_Subset, FS_CardinalityType
<1>3. \A i : i \in 1..p <=> i \in 1..(p - 1) \/ i = p
  BY <1>1
<1>4. ~(p \in 1..(p - 1))
  BY <1>1
<1>5. CASE P[p].kind \in {"global", "constant"}
  <2>1. B(p) = B(p - 1) \cup {p} /\ p \notin B(p - 1)
    BY <1>3, <1>4, <1>5
  <2>2. Cardinality(B(p - 1) \cup {p}) = Cardinality(B(p - 1)) + 1
    BY <1>2, <2>1, FS_AddElement
  <2>3. QED
    BY <1>2, <1>5, <2>1, <2>2 DEF Bindables
<1>6. CASE ~(P[p].kind \in {"global", "constant"})
  <2>1. B(p) = B(p - 1)
    BY <1>3, <1>6
  <2>2. QED
    BY <1>2, <1>6, <2>1 DEF Bindables
<1>7. QED
  BY <1>5, <1>6

\* The table of the kernel after a slot was written: those that serve the
\* parameters before it stay.
Written(T, V, C, var) ==
    /\ Len(T) = Len(tables) /\ \A i \in DOMAIN tables : i # w0 + 1 => T[i] = tables[i]
    /\ \E p, a, r :
         /\ p \in Nat /\ a \in Nat
         /\ p = visit.prm /\ a = visit.arg /\ r = T[w0 + 1] /\ p >= 1
         /\ DOMAIN r = 1..(a + 1) /\ r[a + 1] = [prm |-> p, entp |-> w0, var |-> var]
         /\ OneSlotEach(r) /\ \A q \in DOMAIN r : r[q].prm < p + 1
         /\ \A i \in DOMAIN prog[at].params : i < p /\ prog[at].params[i].kind \notin Scalars =>
               \E q \in DOMAIN r : q <= a /\ Serves(V, C, r[q], at, i)

LEMMA SlotsKept ==
    ASSUME TInv, TabInv, Clean, pc = "params", visit.prm <= Len(prog[at].params),
           NEW var \in Nat, NEW T, T = WithSlot(var),
           NEW V, Grown(variables, V), NEW C, bindings \subseteq C
    PROVE  /\ Filling(variables, bindings, tables[w0 + 1], at, visit)
           /\ Written(T, V, C, var)
<1>1. PICK p \in Nat : p = visit.prm /\ p >= 1
  BY ParamsFacts, TInvParts DEF Slots, Fields
<1>2. PICK l \in Nat : l = Len(prog[at].params) /\ p <= l
  BY <1>1, ParamsFacts
<1>3. ~Abandoned
  BY <1>1, <1>2 DEF Abandoned
<1>4. Filling(variables, bindings, tables[w0 + 1], at, visit)
  BY <1>3, TabParts
<1>5. PICK a \in Nat :
             /\ a = visit.arg /\ Len(T) = Len(tables)
             /\ \A i \in DOMAIN tables : i # w0 + 1 => T[i] = tables[i]
             /\ DOMAIN T[w0 + 1] = 1..(a + 1)
             /\ T[w0 + 1][a + 1] = [prm |-> visit.prm, entp |-> w0, var |-> var]
             /\ \A q \in 1..a : /\ q \in DOMAIN tables[w0 + 1]
                                /\ T[w0 + 1][q] = tables[w0 + 1][q]
  BY WithSlotIs, SMTT(30)
<1>6. PICK r, t : r = T[w0 + 1] /\ t = tables[w0 + 1]
  OBVIOUS
<1>7. /\ OneSlotEach(t) /\ \A q \in DOMAIN t : t[q].prm < p
      /\ \A i \in DOMAIN prog[at].params : i < p /\ prog[at].params[i].kind \notin Scalars =>
            \E q \in DOMAIN t : q <= a /\ Serves(variables, bindings, t[q], at, i)
  BY <1>1, <1>4, <1>5, <1>6 DEF Filling
<1>8. /\ DOMAIN r = 1..(a + 1) /\ a + 1 \in DOMAIN r /\ r[a + 1].prm = p
      /\ \A q \in DOMAIN r : q # a + 1 => q \in 1..a
      /\ \A q \in 1..a : q \in DOMAIN r /\ q \in DOMAIN t /\ r[q] = t[q]
  BY <1>1, <1>5, <1>6
<1>9. t \in Seq(Slot)
  <2>1. Len(tables) = w0 + 1
    BY TabParts DEF Declares
  <2>2. tables \in Seq(Seq(Slot)) /\ w0 \in Nat
    BY PhaseFacts, ParamsFacts
  <2>3. w0 + 1 \in DOMAIN tables
    BY <2>1, <2>2
  <2>4. QED
    BY <1>6, <2>2, <2>3
<1>10. \A q \in 1..a : r[q].prm \in Nat /\ r[q].prm < p
  <2>1. \A q \in DOMAIN t : t[q].prm \in Nat /\ t[q].prm < p
    <3>1. \A q \in DOMAIN t : t[q] \in Slot
      BY <1>9
    <3>2. \A x \in Slot : x.prm \in Nat
      BY DEF Slot
    <3>3. QED
      BY <1>7, <3>1, <3>2
  <2>2. QED
    BY <1>8, <2>1
<1>11. \A q \in DOMAIN r : r[q].prm < p + 1
  BY <1>1, <1>8, <1>10
<1>12. OneSlotEach(r)
  <2> SUFFICES ASSUME NEW x \in DOMAIN r, NEW y \in DOMAIN r, r[x].prm = r[y].prm
               PROVE  x = y
    BY DEF OneSlotEach
  <2>1. CASE x = a + 1 \/ y = a + 1
    BY <1>8, <1>10, <2>1
  <2>2. CASE x # a + 1 /\ y # a + 1
    <3>1. /\ x \in DOMAIN t /\ r[x] = t[x]
          /\ y \in DOMAIN t /\ r[y] = t[y]
      BY <1>8, <2>2
    <3>2. QED
      BY <1>7, <3>1 DEF OneSlotEach
  <2>3. QED
    BY <2>1, <2>2
<1>13. ASSUME NEW i \in DOMAIN prog[at].params, i < p, prog[at].params[i].kind \notin Scalars
       PROVE  \E q \in DOMAIN r : q <= a /\ Serves(V, C, r[q], at, i)
  <2>1. PICK q \in DOMAIN t : q <= a /\ Serves(variables, bindings, t[q], at, i)
    BY <1>7, <1>13
  <2>2. Serves(V, C, t[q], at, i)
    BY <2>1, ServesGrows
  <2>3. q \in 1..a
    BY <1>9, <2>1
  <2>4. QED
    BY <1>8, <2>1, <2>2, <2>3
<1>14. r[a + 1] = [prm |-> p, entp |-> w0, var |-> var]
  BY <1>1, <1>5, <1>6
<1>15. QED
  BY <1>1, <1>4, <1>5, <1>6, <1>8, <1>11, <1>12, <1>13, <1>14 DEF Written

LEMMA IntroducesTab ==
    ASSUME TInv, Counted, TabInv, Clean, NEW v, Introduces(v), Goes PROVE TabInv'
<1>1. /\ pc = "params" /\ UNCHANGED << prog, pc, at, w0, entp, fns >>
      /\ v \in VariableType /\ v.fn = at /\ v.prm = visit.prm /\ v.id \in Nat
      /\ variables' = Append(variables, v) /\ tables' = WithSlot(v.id)
      /\ Param.kind \notin Scalars /\ v.class # "PushConstant"
      /\ bindings \subseteq bindings'
      /\ visit.prm <= Len(prog[at].params) /\ variables \in Seq(VariableType)
      /\ w0 = Before(at)
  BY PhaseFacts, ParamsFacts DEF Introduces, VariableType
<1>2. PICK W, C, T : W = variables' /\ C = bindings' /\ T = tables' /\ W = Append(variables, v)
                     /\ T = WithSlot(v.id) /\ bindings \subseteq C
  BY <1>1
<1>3. PICK m \in Nat : /\ m + 1 \in DOMAIN W /\ W[m + 1] = v
                       /\ \A i \in DOMAIN W : i # m + 1 => i \in DOMAIN variables /\ W[i] = variables[i]
                       /\ \A i \in DOMAIN variables : i \in DOMAIN W /\ W[i] = variables[i]
  <2>1. PICK m \in Nat : /\ DOMAIN W = 1..(m + 1) /\ W[m + 1] = v
                         /\ \A i \in DOMAIN W : i # m + 1 => i \in DOMAIN variables /\ W[i] = variables[i]
                         /\ \A i \in DOMAIN variables : i \in DOMAIN W /\ W[i] = variables[i]
    BY <1>1, <1>2, Appended
  <2>2. m + 1 \in 1..(m + 1)
    OBVIOUS
  <2>3. QED
    BY <2>1, <2>2
<1>4. Grown(variables, W)
  BY <1>3 DEF Grown
<1>5. /\ Filling(variables, bindings, tables[w0 + 1], at, visit)
      /\ Written(T, W, C, v.id)
  <2>1. pc = "params" /\ visit.prm <= Len(prog[at].params) /\ v.id \in Nat
    BY <1>1
  <2>2. T = WithSlot(v.id) /\ bindings \subseteq C
    BY <1>2
  <2>3. QED
    BY <1>4, <2>1, <2>2, SlotsKept
<1>6. PICK p, a, r :
            /\ p \in Nat /\ a \in Nat
            /\ p = visit.prm /\ a = visit.arg /\ r = T[w0 + 1] /\ p >= 1
            /\ DOMAIN r = 1..(a + 1) /\ r[a + 1] = [prm |-> p, entp |-> w0, var |-> v.id]
            /\ OneSlotEach(r) /\ \A q \in DOMAIN r : r[q].prm < p + 1
            /\ \A i \in DOMAIN prog[at].params : i < p /\ prog[at].params[i].kind \notin Scalars =>
                  \E q \in DOMAIN r : q <= a /\ Serves(W, C, r[q], at, i)
  BY <1>5 DEF Written
<1>7. /\ visit'.prm = p + 1 /\ visit'.arg = a + 1 /\ visit'.push = visit.push
      /\ visit'.bind = IF Param.kind \in {"global", "constant"} THEN visit.bind + 1 ELSE visit.bind
  <2>1. p = visit.prm /\ a = visit.arg
    BY <1>6
  <2>2. QED
    BY <2>1 DEF Goes
<1>8. PICK l \in Nat : /\ l = Len(prog[at].params) /\ DOMAIN prog[at].params = 1..l
                       /\ p <= l /\ p \in DOMAIN prog[at].params /\ prog[at].params[p] = Param
  BY <1>1, <1>6, ParamsFacts DEF Param
<1>9. PICK b \in Nat : /\ b = visit.bind /\ b = Cardinality(Bindables(at, p - 1))
                       /\ visit'.bind = Cardinality(Bindables(at, p))
  <2>1. visit.bind = Cardinality(Bindables(at, p - 1))
    BY <1>5, <1>6 DEF Filling
  <2>2. /\ Cardinality(Bindables(at, p - 1)) \in Nat
        /\ Cardinality(Bindables(at, p)) =
                 IF Param.kind \in {"global", "constant"}
                 THEN Cardinality(Bindables(at, p - 1)) + 1
                 ELSE Cardinality(Bindables(at, p - 1))
    BY <1>1, <1>8, BindablesCounted
  <2>3. QED
    BY <1>7, <2>1, <2>2
<1>10. Serves(W, C, r[a + 1], at, p)
  <2>1. p \in Bindables(at, p) => Param.kind \in {"global", "constant"}
    BY <1>8 DEF Bindables
  <2>2. p \in Bindables(at, p) => [id |-> v.id, binding |-> Cardinality(Bindables(at, p - 1))] \in C
    BY <1>2, <1>9, <2>1 DEF Introduces
  <2>3. PICK s : s = r[a + 1] /\ s.prm = p /\ s.entp = Before(at) /\ s.var = v.id
    BY <1>1, <1>6
  <2>4. \E i \in DOMAIN W : W[i].id = s.var /\ W[i].fn = at /\ W[i].prm = p
    <3>1. v.fn = at /\ v.prm = p
      BY <1>1, <1>6
    <3>2. QED
      BY <1>3, <2>3, <3>1
  <2>5. QED
    BY <2>2, <2>3, <2>4 DEF Serves
<1>11. ASSUME NEW i \in DOMAIN prog[at].params, i < p + 1, prog[at].params[i].kind \notin Scalars
       PROVE  \E q \in DOMAIN r : q <= a + 1 /\ Serves(W, C, r[q], at, i)
  <2>1. CASE i = p
    <3>1. a + 1 \in DOMAIN r /\ a + 1 <= a + 1
      BY <1>6
    <3>2. QED
      BY <1>10, <2>1, <3>1
  <2>2. CASE i # p
    <3>1. i < p
      BY <1>8, <1>11, <2>2
    <3>2. PICK q \in DOMAIN r : q <= a /\ Serves(W, C, r[q], at, i)
      BY <1>6, <1>11, <3>1
    <3>3. q <= a + 1
      <4>1. q \in 1..(a + 1)
        BY <1>6, <3>2
      <4>2. QED
        BY <4>1
    <3>4. QED
      BY <3>2, <3>3
  <2>3. QED
    BY <2>1, <2>2
<1>12. HasScalar(at, p + 1) <=> HasScalar(at, p)
  <2>1. \A i \in DOMAIN prog[at].params : i < p + 1 => i < p \/ i = p
    BY <1>8
  <2>2. \A i \in DOMAIN prog[at].params : i < p => i < p + 1
    BY <1>8
  <2>3. QED
    BY <1>1, <1>8, <2>1, <2>2 DEF HasScalar
<1>13. Filling(W, C, r, at, visit')
  <2>1. p + 1 <= l + 1 /\ (p + 1) - 1 = p
    BY <1>8
  <2>2. visit'.push > 0 <=> HasScalar(at, p + 1)
    BY <1>5, <1>6, <1>7, <1>12 DEF Filling
  <2>3. QED
    BY <1>6, <1>7, <1>8, <1>9, <1>11, <2>1, <2>2 DEF Filling
<1>14. \A i \in DOMAIN W : i \in DOMAIN variables \/ W[i].class # "PushConstant"
  BY <1>1, <1>3
<1>15. QED
  <2>1. Len(T) = Len(tables) /\ \A i \in DOMAIN tables : i # w0 + 1 => T[i] = tables[i]
    BY <1>5 DEF Written
  <2>2. Filling(W, C, T[w0 + 1], at, visit')
    BY <1>6, <1>13
  <2>3. QED
    BY <1>1, <1>2, <1>4, <1>14, <2>1, <2>2, ParamTab

\* A scalar is written behind the slots that count, and overwritten.
LEMMA ScalarTab == ASSUME TInv, Counted, TabInv, Clean, Scalar PROVE TabInv'
<1>1. /\ pc = "params" /\ UNCHANGED << prog, pc, at, w0, entp, fns, variables, bindings >>
      /\ visit.prm <= Len(prog[at].params) /\ Param.kind \in Scalars
      /\ visit \in [Fields -> Nat] /\ nextId \in Nat
  BY ParamsFacts, TInvParts DEF Scalar, Fetching, sections, Param, IdsOK
<1>2. PICK psh \in Nat : /\ tables' = WithSlot(psh)
                         /\ visit' = [visit EXCEPT !.push = @ + 1, !.psh = psh, !.prm = @ + 1]
  <2>1. PICK psh : /\ psh = IF visit.push = 0 THEN nextId ELSE visit.psh
                   /\ tables' = WithSlot(psh)
                   /\ visit' = [visit EXCEPT !.push = @ + 1, !.psh = psh, !.prm = @ + 1]
    BY DEF Scalar
  <2>2. visit.psh \in Nat
    BY <1>1 DEF Fields
  <2>3. QED
    BY <1>1, <2>1, <2>2
<1>3. PICK T : T = tables' /\ T = WithSlot(psh)
  BY <1>2
<1>4. Grown(variables, variables) /\ Grown(variables, variables') /\ bindings \subseteq bindings
  BY <1>1 DEF Grown
<1>5. Filling(variables, bindings, tables[w0 + 1], at, visit) /\ Written(T, variables, bindings, psh)
  <2>1. pc = "params" /\ visit.prm <= Len(prog[at].params)
    BY <1>1
  <2>2. QED
    BY <1>3, <1>4, <2>1, SlotsKept
<1>6. PICK p, a, r :
            /\ p \in Nat /\ a \in Nat
            /\ p = visit.prm /\ a = visit.arg /\ r = T[w0 + 1] /\ p >= 1
            /\ DOMAIN r = 1..(a + 1)
            /\ OneSlotEach(r) /\ \A q \in DOMAIN r : r[q].prm < p + 1
            /\ \A i \in DOMAIN prog[at].params : i < p /\ prog[at].params[i].kind \notin Scalars =>
                  \E q \in DOMAIN r : q <= a /\ Serves(variables, bindings, r[q], at, i)
  BY <1>5 DEF Written
<1>7. /\ visit'.prm = p + 1 /\ visit'.arg = a /\ visit'.push > 0 /\ visit'.bind = visit.bind
  <2>1. p = visit.prm /\ a = visit.arg
    BY <1>6
  <2>2. QED
    BY <1>1, <1>2, <2>1 DEF Fields
<1>8. PICK l \in Nat : /\ l = Len(prog[at].params) /\ DOMAIN prog[at].params = 1..l
                       /\ p <= l /\ p \in DOMAIN prog[at].params /\ prog[at].params[p] = Param
  BY <1>1, <1>6, ParamsFacts DEF Param
<1>9. visit'.bind = Cardinality(Bindables(at, p))
  <2>1. visit.bind = Cardinality(Bindables(at, p - 1))
    BY <1>5, <1>6 DEF Filling
  <2>2. Cardinality(Bindables(at, p)) = Cardinality(Bindables(at, p - 1))
    BY <1>1, <1>8, BindablesCounted DEF Scalars
  <2>3. QED
    BY <1>7, <2>1, <2>2
<1>10. ASSUME NEW i \in DOMAIN prog[at].params, i < p + 1, prog[at].params[i].kind \notin Scalars
       PROVE  \E q \in DOMAIN r : q <= a /\ Serves(variables, bindings, r[q], at, i)
  <2>1. i # p
    BY <1>1, <1>8, <1>10
  <2>2. i < p
    BY <1>8, <1>10, <2>1
  <2>3. QED
    BY <1>6, <1>10, <2>2
<1>11. HasScalar(at, p + 1)
  <2>1. p < p + 1
    BY <1>6
  <2>2. QED
    BY <1>1, <1>8, <2>1 DEF HasScalar
<1>12. Filling(variables, bindings, r, at, visit')
  <2>1. p + 1 <= l + 1 /\ (p + 1) - 1 = p
    BY <1>8
  <2>2. QED
    BY <1>6, <1>7, <1>8, <1>9, <1>10, <1>11, <2>1 DEF Filling
<1>13. Len(T) = Len(tables) /\ \A i \in DOMAIN tables : i # w0 + 1 => T[i] = tables[i]
  BY <1>5 DEF Written
<1>14. \A i \in DOMAIN variables' : i \in DOMAIN variables
  BY <1>1
<1>15. Filling(variables', bindings', tables'[w0 + 1], at, visit')
  BY <1>1, <1>3, <1>6, <1>12
<1>16. bindings \subseteq bindings'
  BY <1>1
<1>17. QED
  <2>1. pc = "params" /\ UNCHANGED << prog, pc, at, w0, entp, fns >>
    BY <1>1
  <2>2. /\ Len(tables') = Len(tables)
        /\ \A i \in DOMAIN tables : i # w0 + 1 => tables'[i] = tables[i]
    BY <1>3, <1>13
  <2>3. QED
    BY <1>4, <1>14, <1>15, <1>16, <2>1, <2>2, ParamTab

LEMMA OtherTables ==
    ASSUME TInv, TabInv, Clean, pc = "params", NEW var \in Nat, NEW T, T = WithSlot(var)
    PROVE  Len(T) = Len(tables) /\ \A i \in DOMAIN tables : i # w0 + 1 => T[i] = tables[i]
<1>1. \E a \in Nat :
         /\ a = visit.arg /\ Len(T) = Len(tables)
         /\ \A i \in DOMAIN tables : i # w0 + 1 => T[i] = tables[i]
         /\ DOMAIN T[w0 + 1] = 1..(a + 1)
         /\ T[w0 + 1][a + 1] = [prm |-> visit.prm, entp |-> w0, var |-> var]
         /\ \A p \in 1..a : /\ p \in DOMAIN tables[w0 + 1]
                            /\ T[w0 + 1][p] = tables[w0 + 1][p]
  BY WithSlotIs, SMTT(30)
<1>2. QED
  BY <1>1, Zenon

LEMMA RefusedTab ==
    ASSUME TInv, Counted, TabInv, Clean, ~AllocFails, Refused \/ NoTable PROVE TabInv'
<1>1. /\ pc = "params" /\ UNCHANGED << prog, pc, at, w0, entp, fns, variables, bindings >>
      /\ tables # << >> => Refused /\ tables' = WithSlot(nextId)
  BY DEF Refused, NoTable, Fetching, sections
<1>2. tables # << >>
  <2>1. Len(tables) = w0 + 1 /\ w0 \in Nat
    BY <1>1, TabParts, ParamsFacts DEF Declares
  <2>2. QED
    BY <2>1
<1>3. PICK n \in Nat : n = nextId /\ tables' = WithSlot(n)
  BY <1>1, <1>2, TInvParts DEF IdsOK
<1>4. PICK T : T = tables' /\ T = WithSlot(n)
  BY <1>3
<1>5. Len(T) = Len(tables) /\ \A i \in DOMAIN tables : i # w0 + 1 => T[i] = tables[i]
  <2>1. pc = "params" /\ T = WithSlot(n)
    BY <1>1, <1>4
  <2>2. QED
    BY <2>1, OtherTables
<1>6. Abandoned'
  BY VisitAbandoned
<1>7. Grown(variables, variables') /\ bindings \subseteq bindings'
  BY <1>1 DEF Grown
<1>8. \A i \in DOMAIN variables' : i \in DOMAIN variables
  BY <1>1
<1>9. QED
  BY <1>1, <1>4, <1>5, <1>6, <1>7, <1>8, ParamTab
------------------------------------------------------------------------------
\* A kernel's declarations end, and its table with them.
LEMMA CloseTab ==
    ASSUME TInv, Counted, TabInv, Clean, ~AllocFails, pc \in Declares, at \in Kernels, CloseTable,
           UNCHANGED << prog, entp, fns, bindings >>,
           Grown(variables, variables'),
           \A i \in DOMAIN variables' : i \in DOMAIN variables \/ variables'[i].fn = at,
           TableDone(variables', bindings, tables[w0 + 1], at)
    PROVE  TabInv'
<1>1. /\ fns' = << >> /\ Len(tables) = w0 + 1 /\ PushesBelow(variables, at)
      /\ \A k \in Kernels : k < at => Done(variables, bindings, tables, k)
      /\ Owners(entp')
  BY TabParts DEF Counted, Clean, Declares
<1>2. PICK w \in Nat, a \in Nat : w = w0 /\ a = at /\ w = Before(at) /\ tables \in Seq(Seq(Slot))
  BY PhaseFacts, TInvParts DEF Phases, Declares
<1>3. tables # << >> /\ w + 1 \in DOMAIN tables /\ DOMAIN tables = 1..(w + 1)
  BY <1>1, <1>2
<1>4. /\ tables' = Append(tables, << >>)
      /\ pc' = "declare" /\ at' = a + 1 /\ w0' = w + 1
  BY <1>2, <1>3 DEF CloseTable, Closed
<1>5. PICK T : T = tables' /\ T = Append(tables, << >>)
  BY <1>4
<1>6. /\ Len(T) = w0' + 1 /\ T[w0' + 1] = << >>
      /\ \A i \in DOMAIN tables : T[i] = tables[i]
  <2>1. << >> \in Seq(Slot)
    OBVIOUS
  <2>2. /\ Len(T) = Len(tables) + 1 /\ T[Len(tables) + 1] = << >>
        /\ \A i \in 1..Len(tables) : T[i] = tables[i]
    BY <1>2, <1>5, <2>1, AppendProperties
  <2>3. QED
    BY <1>1, <1>2, <1>3, <1>4, <2>2
<1>7. PushesBelow(variables', a + 1)
  <2> SUFFICES ASSUME NEW i \in DOMAIN variables', variables'[i].class = "PushConstant"
               PROVE  variables'[i].fn < a + 1
    BY DEF PushesBelow
  <2>1. CASE variables'[i].fn = at
    BY <1>2, <2>1
  <2>2. CASE i \in DOMAIN variables
    <3>1. variables'[i] = variables[i] /\ variables[i] \in VariableType
      BY <2>2, PhaseFacts DEF Grown
    <3>2. variables[i].fn < at /\ variables[i].fn \in Nat
      BY <1>1, <2>2, <3>1 DEF PushesBelow, VariableType
    <3>3. PICK f \in Nat : f = variables'[i].fn /\ f < a
      BY <1>2, <3>1, <3>2
    <3>4. QED
      BY <3>3
  <2>3. QED
    BY <2>1, <2>2
<1>8. ASSUME NEW k \in Kernels, k < a + 1 PROVE Done(variables', bindings, T, k)
  <2>1. CASE k = at
    <3>1. T[Before(k) + 1] = tables[w0 + 1]
      BY <1>2, <1>3, <1>6, <2>1
    <3>2. QED
      BY <2>1, <3>1 DEF Done
  <2>2. CASE k # at
    <3>1. k < at
      BY <1>2, <1>8, <2>2, KernelsUpTo
    <3>2. TableDone(variables, bindings, tables[Before(k) + 1], k)
      BY <1>1, <3>1 DEF Done
    <3>3. \A i \in DOMAIN variables' : i \in DOMAIN variables \/ ~IsPush(variables'[i], k)
      BY <2>2 DEF IsPush
    <3>4. TableDone(variables', bindings, tables[Before(k) + 1], k)
      BY <3>2, <3>3, DoneGrows
    <3>5. T[Before(k) + 1] = tables[Before(k) + 1]
      <4>1. PICK b \in Nat : b = Before(k) /\ b < w
        <5>1. prog \in Seq(Function) /\ a \in Int /\ k < a
          BY <1>2, <3>1, PhaseFacts
        <5>2. Before(k) \in Nat
          BY <5>1, KernelsFinite
        <5>3. Before(k) < Before(a)
          BY <5>1, BeforeGrows
        <5>4. QED
          BY <1>2, <5>2, <5>3
      <4>2. b + 1 \in DOMAIN tables
        BY <1>3, <4>1
      <4>3. QED
        BY <1>6, <4>1, <4>2
    <3>6. QED
      BY <3>4, <3>5 DEF Done
  <2>3. QED
    BY <2>1, <2>2
<1>9. Bodies(fns', tables')
  BY <1>1 DEF Bodies
<1>10. QED
  BY <1>1, <1>4, <1>5, <1>6, <1>7, <1>8, <1>9, TabStep DEF Early, Declares

LEMMA EndKernelTab ==
    ASSUME TInv, Counted, TabInv, Clean, ~AllocFails, EndKernel PROVE TabInv'
<1>1. /\ pc = "params" /\ visit.prm > Len(prog[at].params) /\ err = OK /\ CloseTable
      /\ UNCHANGED << prog, entp, fns, bindings >> /\ at \in Kernels
      /\ IF visit.push > 0 THEN variables' = Append(variables, PushVariable)
         ELSE variables' = variables
  BY TInvParts DEF EndKernel, Fetched, Pushes, Phases
<1>2. PICK t, V : t = tables[w0 + 1] /\ V = variables'
  OBVIOUS
<1>3. Filling(variables, bindings, t, at, visit) /\ PushesBelow(variables, at)
  BY <1>1, <1>2, TabParts DEF Abandoned, Declares
<1>4. PICK p \in Nat, l \in Nat, f \in Nat :
          /\ p = visit.prm /\ l = Len(prog[at].params) /\ p > l /\ f = at
          /\ DOMAIN prog[at].params = 1..l
  BY <1>1, ParamsFacts DEF Fields
<1>5. \A i \in DOMAIN prog[at].params : i < p
  BY <1>4
<1>6. /\ visit.push > 0 <=> \E i \in DOMAIN prog[at].params : prog[at].params[i].kind \in Scalars
      /\ OneSlotEach(t)
      /\ \A i \in DOMAIN prog[at].params : prog[at].params[i].kind \notin Scalars =>
            \E q \in DOMAIN t : Serves(variables, bindings, t[q], at, i)
  BY <1>3, <1>4, <1>5 DEF Filling, HasScalar
<1>7. \A i \in DOMAIN variables : ~IsPush(variables[i], at)
  <2>1. ~(f < f)
    OBVIOUS
  <2>2. QED
    BY <1>3, <1>4, <2>1 DEF PushesBelow, IsPush
<1>8. /\ Grown(variables, V) /\ PushedOnce(V, at)
      /\ \A i \in DOMAIN V : i \in DOMAIN variables \/ V[i].fn = at
  <2>1. CASE visit.push > 0
    <3>1. PICK v : v = PushVariable /\ V = Append(variables, v)
      BY <1>1, <1>2, <2>1
    <3>2. v \in VariableType /\ IsPush(v, at)
      BY <1>1, <3>1, PushVariableOK DEF IsPush
    <3>3. variables \in Seq(VariableType)
      BY PhaseFacts
    <3>4. PICK m \in Nat : /\ DOMAIN variables = 1..m /\ DOMAIN V = 1..(m + 1)
                           /\ m + 1 \in 1..(m + 1) /\ V[m + 1] = v
                           /\ \A i \in DOMAIN V : i # m + 1 => i \in DOMAIN variables /\ V[i] = variables[i]
                           /\ \A i \in DOMAIN variables : i \in DOMAIN V /\ V[i] = variables[i]
      <4>1. v \in VariableType /\ V = Append(variables, v)
        BY <3>1, <3>2
      <4>2. QED
        BY <3>3, <4>1, Appended
    <3>5. m + 1 \in DOMAIN V /\ IsPush(V[m + 1], at)
      BY <3>2, <3>4
    <3>6. \A i \in DOMAIN V : IsPush(V[i], at) => i = m + 1
      BY <1>7, <3>4
    <3>7. PushedOnce(V, at)
      BY <1>6, <2>1, <3>5, <3>6 DEF PushedOnce
    <3>8. QED
      BY <3>2, <3>4, <3>7 DEF Grown, IsPush
  <2>2. CASE ~(visit.push > 0)
    <3>1. V = variables
      BY <1>1, <1>2, <2>2
    <3>2. QED
      BY <1>6, <1>7, <2>2, <3>1 DEF Grown, PushedOnce
  <2>3. QED
    BY <2>1, <2>2
<1>9. TableDone(V, bindings, t, at)
  <2>1. ASSUME NEW i \in DOMAIN prog[at].params, prog[at].params[i].kind \notin Scalars
        PROVE  \E q \in DOMAIN t : Serves(V, bindings, t[q], at, i)
    <3>1. PICK q \in DOMAIN t : Serves(variables, bindings, t[q], at, i)
      BY <1>6, <2>1
    <3>2. Serves(V, bindings, t[q], at, i)
      BY <1>8, <3>1, ServesGrows
    <3>3. QED
      BY <3>2
  <2>2. QED
    BY <1>6, <1>8, <2>1 DEF TableDone
<1>10. QED
  BY <1>1, <1>2, <1>8, <1>9, CloseTab DEF Declares

LEMMA HollowTab ==
    ASSUME TInv, Counted, TabInv, Clean, ~AllocFails, Hollow PROVE TabInv'
<1>1. /\ pc = "declare" /\ prog[at].params = << >> /\ CloseTable /\ at \in Kernels
      /\ UNCHANGED << prog, entp, fns, bindings, variables >> /\ at \in Nat
  BY PhaseFacts DEF Hollow, Declaring, Kernels, sections
<1>2. tables[w0 + 1] = << >> /\ PushesBelow(variables, at)
  BY <1>1, TabParts DEF Declares
<1>3. \A i \in DOMAIN variables : ~IsPush(variables[i], at)
  <2>1. ~(at < at)
    BY <1>1
  <2>2. QED
    BY <1>2, <2>1 DEF PushesBelow, IsPush
<1>4. TableDone(variables, bindings, << >>, at)
  BY <1>1, <1>3 DEF TableDone, OneSlotEach, PushedOnce
<1>5. Grown(variables, variables') /\ \A i \in DOMAIN variables' : i \in DOMAIN variables
  BY <1>1 DEF Grown
<1>6. QED
  BY <1>1, <1>2, <1>4, <1>5, CloseTab DEF Declares

LEMMA BeginKernelTab ==
    ASSUME TInv, Counted, TabInv, Clean, ~AllocFails, BeginKernel PROVE TabInv'
<1>1. /\ pc = "declare" /\ pc' = "params" /\ visit' = NoVisit
      /\ at <= Len(prog) /\ prog[at].kernel
      /\ UNCHANGED << prog, at, w0, entp, tables, variables, bindings, fns >>
  BY DEF BeginKernel, Declaring, sections
<1>2. /\ tables[w0 + 1] = << >> /\ fns' = << >> /\ Owners(entp)
      /\ Len(tables) = w0 + 1 /\ PushesBelow(variables, at)
      /\ \A k \in Kernels : k < at => Done(variables, bindings, tables, k)
  BY <1>1, TabParts DEF Counted, Clean, Declares
<1>3. visit'.prm = 1 /\ visit'.bind = 0 /\ visit'.push = 0
  BY <1>1 DEF NoVisit
<1>4. PICK l \in Nat : l = Len(prog[at].params) /\ DOMAIN prog[at].params = 1..l
  <2>1. prog[at] \in Function
    BY <1>1, PhaseFacts
  <2>2. prog[at].params \in Seq(Parameter)
    BY <2>1 DEF Function
  <2>3. QED
    BY <2>2
<1>5. \A i \in DOMAIN prog[at].params : ~(i < 1)
  BY <1>4
<1>6. Cardinality(Bindables(at, 1 - 1)) = 0
  <2>1. Bindables(at, 1 - 1) = {}
    BY DEF Bindables
  <2>2. QED
    BY <2>1, FS_EmptySet
<1>7. Filling(variables, bindings, << >>, at, visit')
  <2>1. 1 <= l + 1 /\ ~(0 > 0)
    BY <1>4
  <2>2. ~HasScalar(at, 1)
    BY <1>5 DEF HasScalar
  <2>3. QED
    BY <1>3, <1>4, <1>5, <1>6, <2>1, <2>2 DEF Filling, OneSlotEach
<1>8. Bodies(fns', tables')
  BY <1>2 DEF Bodies
<1>9. QED
  BY <1>1, <1>2, <1>7, <1>8, TabStep DEF Early, Declares
------------------------------------------------------------------------------
\* The steps outside of the declarations.
LEMMA LaterTab ==
    ASSUME TInv, Counted, UInv, TabInv, Clean, ~AllocFails,
           NotAKernel \/ DeclareEnds \/ EntriesEnd \/ BodyNotNoted \/ BodyNoTable \/ Assemble
    PROVE  TabInv'
<1>1. UNCHANGED << prog, entp, variables, bindings, tables, fns >>
  BY DEF NotAKernel, DeclareEnds, EntriesEnd, BodyNotNoted, BodyNoTable, Assemble, Declaring,
         sections
<1>2. CASE NotAKernel
  <2>1. pc = "declare" /\ pc' = pc /\ at' = at + 1 /\ w0' = w0 /\ ~prog[at].kernel
    BY <1>2 DEF NotAKernel, Declaring
  <2>2. /\ fns = << >> /\ Len(tables) = w0' + 1 /\ tables[w0' + 1] = << >>
        /\ PushesBelow(variables, at)
        /\ \A k \in Kernels : k < at => Done(variables, bindings, tables, k)
    BY <2>1, TabParts DEF Counted, Clean, Declares
  <2>3. ASSUME NEW k \in Kernels, k < at + 1 PROVE Done(variables, bindings, tables, k)
    <3>1. k # at
      BY <2>1 DEF Kernels
    <3>2. QED
      BY <2>2, <2>3, <3>1, KernelsUpTo
  <2>4. PushesBelow(variables, at + 1)
    <3> SUFFICES ASSUME NEW i \in DOMAIN variables, variables[i].class = "PushConstant"
                 PROVE  variables[i].fn < at + 1
      BY DEF PushesBelow
    <3>1. variables[i] \in VariableType /\ at \in Nat /\ variables[i].fn < at
      BY <2>2, PhaseFacts DEF PushesBelow
    <3>2. PICK f \in Nat, a \in Nat : f = variables[i].fn /\ a = at /\ f < a
      BY <3>1 DEF VariableType
    <3>3. QED
      BY <3>2
  <2>5. pc' \notin Early \cup {"entries", "params", "bodies"}
    BY <2>1 DEF Early
  <2>6. QED
    BY <1>1, <2>1, <2>2, <2>3, <2>4, <2>5, QuietTab
<1>3. CASE DeclareEnds
  <2>1. pc = "declare" /\ pc' = "bodies" /\ at > Len(prog)
    BY <1>3 DEF DeclareEnds
  <2>2. /\ fns = << >> /\ Len(tables) = w0 + 1
        /\ \A k \in Kernels : k < at => Done(variables, bindings, tables, k)
    BY <2>1, TabParts DEF Counted, Clean, Declares
  <2>3. w0 = NumEntp
    <3>1. w0 = Before(at) /\ at \in Nat /\ prog \in Seq(Function)
      BY <2>1, PhaseFacts, TInvParts DEF Phases, Declares
    <3>2. QED
      BY <2>1, <3>1, BeforeEnds
  <2>4. \A k \in Kernels : Done(variables, bindings, tables, k)
    BY <2>1, <2>2, KernelsUpTo
  <2>5. pc' \notin Early \cup {"entries", "params", "declare"}
    BY <2>1 DEF Early
  <2>6. QED
    BY <1>1, <2>2, <2>3, <2>4, <2>5, QuietTab
<1>4. CASE EntriesEnd
  <2>1. pc = "entries" /\ pc' = "declare" /\ at' = 1 /\ w0' = 0
    BY <1>4 DEF EntriesEnd
  <2>2. tables = << << >> >> /\ fns = << >>
    BY <2>1, TabParts DEF Counted, Clean
  <2>3. variables = << >>
    BY <2>1, EarlyParts DEF Clean
  <2>4. PushesBelow(variables, 1)
    BY <2>3 DEF PushesBelow
  <2>5. Len(tables) = 0 + 1 /\ tables[0 + 1] = << >>
    BY <2>2
  <2>6. pc' \notin Early \cup {"entries", "params", "bodies"}
    BY <2>1 DEF Early
  <2>7. \A k \in Kernels : ~(k < 1)
    BY KernelsUpTo
  <2>8. QED
    BY <1>1, <2>1, <2>2, <2>4, <2>5, <2>6, <2>7, QuietTab
<1>5. CASE BodyNotNoted \/ BodyNoTable \/ Assemble
  <2>1. pc = "bodies" /\ pc' = "done"
    BY <1>5 DEF BodyNotNoted, BodyNoTable, Assemble, Cleanup
  <2>2. Len(tables) = NumEntp + 1 /\ \A k \in Kernels : Done(variables, bindings, tables, k)
    BY <2>1, TabParts
  <2>3. pc' \notin Early \cup {"entries", "params", "declare", "bodies"}
    BY <2>1 DEF Early
  <2>4. QED
    BY <1>1, <2>2, <2>3, QuietTab
<1>6. QED
  BY <1>2, <1>3, <1>4, <1>5

\* The body of a kernel is compiled with the table of that kernel.
LEMMA BodyTab == ASSUME TInv, Counted, TabInv, Clean, Body PROVE TabInv'
<1>1. /\ pc = "bodies" /\ pc' = pc /\ w0 > 0 /\ entp[w0].fn # 0
      /\ fns' = Append(fns, [id |-> FunctionId, fn |-> entp[w0].fn,
                             table |-> IF HasTable THEN tables[w0] ELSE << >>])
      /\ UNCHANGED << prog, entp, variables, bindings, tables >>
  BY DEF Body
<1>2. /\ Owners(entp) /\ Bodies(fns, tables) /\ Len(tables) = NumEntp + 1
      /\ \A k \in Kernels : Done(variables, bindings, tables, k)
  BY <1>1, TabParts
<1>3. PICK w \in Nat, n \in Nat : /\ w = w0 /\ n = NumEntp /\ w > 0 /\ w <= n
                                  /\ Len(entp) = n /\ entp \in Seq(EntpType)
  BY <1>1, PhaseFacts, TInvParts DEF Phases, EntpOK
<1>4. w \in DOMAIN entp /\ w \in DOMAIN tables /\ w <= Len(tables) /\ tables # << >>
  <2>1. tables \in Seq(Seq(Slot))
    BY PhaseFacts
  <2>2. QED
    BY <1>2, <1>3, <2>1
<1>5. PICK k : k = entp[w].fn /\ k \in Kernels /\ Before(k) + 1 = w
  BY <1>1, <1>2, <1>3, <1>4 DEF Owners
<1>6. PICK b \in Nat : b = Before(k) /\ b + 1 = w
  BY <1>5, PhaseFacts, KernelsFinite
<1>7. FunctionId = Anchor + b
  BY <1>3, <1>6, ProgramAssumption DEF FunctionId, Anchor
<1>8. HasTable
  BY <1>3, <1>4 DEF HasTable
<1>9. PICK f : /\ f = [id |-> Anchor + b, fn |-> k, table |-> tables[w]]
               /\ fns' = Append(fns, f)
  BY <1>1, <1>3, <1>5, <1>7, <1>8
<1>10. f.fn = k /\ f.id = Anchor + Before(k) /\ f.table = tables[Before(k) + 1]
  BY <1>5, <1>6, <1>9
<1>11. \A i \in DOMAIN fns' : fns'[i] = f \/ (i \in DOMAIN fns /\ fns'[i] = fns[i])
  <2>1. fns \in Seq(FnType)
    BY TInvParts DEF EntpOK
  <2>2. PICK m \in Nat : m = Len(fns) /\ DOMAIN fns = 1..m
    BY <2>1
  <2>3. PICK F : F = fns' /\ F = Append(fns, f)
    BY <1>9
  <2>4. /\ DOMAIN F = 1..(m + 1) /\ F[m + 1] = f
        /\ \A i \in 1..m : F[i] = fns[i]
    BY <2>1, <2>2, <2>3
  <2>5. \A i \in 1..(m + 1) : i = m + 1 \/ i \in 1..m
    OBVIOUS
  <2>6. QED
    BY <2>2, <2>3, <2>4, <2>5
<1>12. Bodies(fns', tables)
  BY <1>2, <1>5, <1>10, <1>11 DEF Bodies
<1>13. QED
  BY <1>1, <1>2, <1>12, TabStep DEF Early, Declares

LEMMA CountingTab ==
    ASSUME TInv, Counted, UInv, TabInv, Clean, ~AllocFails, Conf \/ Count \/ Helper \/ EntryPoint
    PROVE  TabInv'
<1>1. /\ pc \in Early \cup {"entries"} /\ pc' \in Early \cup {"entries"}
      /\ UNCHANGED << prog, variables, bindings, tables, fns >>
  BY DEF Conf, Count, Helper, EntryPoint, Early, sections
<1>2. Owners(entp)
  BY TabParts
<1>3. Owners(entp')
  <2>1. CASE Conf \/ Helper
    BY <1>2, <2>1 DEF Conf, Helper
  <2>2. CASE Count
    <3>1. entp' = [i \in 1..NumEntp |-> [id |-> 0, fn |-> 0, io |-> 0, num |-> 0]]
      BY <2>2 DEF Count
    <3>2. \A i \in DOMAIN entp' : entp'[i].fn = 0
      BY <3>1
    <3>3. QED
      BY <3>2 DEF Owners
  <2>3. CASE EntryPoint
    <3>1. /\ pc = "entries" /\ entp' = [entp EXCEPT ![w0 + 1] = Reserved]
          /\ at <= Len(prog) /\ prog[at].kernel
      BY <2>3 DEF EntryPoint
    <3>2. at \in Kernels /\ Before(at) + 1 = w0 + 1
      BY <3>1, PhaseFacts, TInvParts DEF Phases, Declares, Kernels
    <3>3. Reserved.fn = at
      BY DEF Reserved
    <3>4. PICK E, r, w : E = entp' /\ r = Reserved /\ w = w0 + 1 /\ E = [entp EXCEPT ![w] = r]
      BY <3>1
    <3>5. DOMAIN E = DOMAIN entp /\ \A i \in DOMAIN entp : E[i] = IF i = w THEN r ELSE entp[i]
      BY <3>4
    <3>6. r.fn = at /\ Before(at) + 1 = w
      BY <3>2, <3>3, <3>4
    <3>7. ASSUME NEW i \in DOMAIN E, E[i].fn # 0
          PROVE  E[i].fn \in Kernels /\ Before(E[i].fn) + 1 = i
      <4>1. CASE i = w
        BY <3>2, <3>5, <3>6, <4>1
      <4>2. CASE i # w
        BY <1>2, <3>5, <3>7, <4>2 DEF Owners
      <4>3. QED
        BY <4>1, <4>2
    <3>8. QED
      BY <3>4, <3>7 DEF Owners
  <2>4. QED
    BY <2>1, <2>2, <2>3
<1>4. QED
  BY <1>1, <1>3, EarlyTab

LEMMA InitTab == Init => TabInv
<1> SUFFICES ASSUME Init PROVE TabInv
  OBVIOUS
<1>1. pc = "conf" /\ entp = << >> /\ fns = << >> /\ tables = << << >> >>
  BY DEF Init
<1>2. Owners(entp) /\ Bodies(fns, tables)
  BY <1>1 DEF Owners, Bodies
<1>3. QED
  BY <1>1, <1>2 DEF TabInv, Declares

LEMMA UnchangedTab == ASSUME TabInv, UNCHANGED vars PROVE TabInv'
<1>1. UNCHANGED << prog, pc, at, err, w0, entp, variables, bindings, tables, fns, visit,
                   broken, fails >>
  BY DEF vars, sections, history
<1>2. CASE Clean
  <2>1. Owners(entp') /\ Bodies(fns', tables')
    BY <1>1, <1>2, TabParts
  <2>2. Abandoned' <=> Abandoned
    BY <1>1 DEF Abandoned
  <2>3. pc' = "params" =>
              Abandoned' \/ Filling(variables', bindings', tables'[w0' + 1], at', visit')
    BY <1>1, <1>2, <2>2, TabParts
  <2>4. pc' \in Declares =>
              /\ Len(tables') = w0' + 1 /\ PushesBelow(variables', at')
              /\ \A k \in Kernels : k < at' => Done(variables', bindings', tables', k)
    BY <1>1, <1>2, TabParts
  <2>5. /\ pc' \in Early \cup {"entries"} => tables' = << << >> >>
        /\ pc' = "declare" => tables'[w0' + 1] = << >>
        /\ pc' = "bodies" \/ fns' # << >> =>
              /\ Len(tables') = NumEntp + 1
              /\ \A k \in Kernels : Done(variables', bindings', tables', k)
    BY <1>1, <1>2, TabParts
  <2>6. QED
    BY <1>1, <2>1, <2>3, <2>4, <2>5, TabStep
<1>3. CASE ~Clean
  BY <1>1, <1>3 DEF TabInv, Clean
<1>4. QED
  BY <1>2, <1>3

LEMMA NextTab == ASSUME TInv, Counted, UInv, TabInv, [Next]_vars PROVE TabInv'
<1>1. CASE UNCHANGED vars
  BY <1>1, UnchangedTab
<1>2. CASE Next /\ ~Clean'
  BY <1>2 DEF TabInv
<1>3. CASE Next /\ Clean'
  <2>1. Clean /\ fails = 0 /\ ~AllocFails /\ broken' = broken
    BY <1>3, CleanKept
  <2>2. CASE CountFails \/ EntryPointFails \/ BindableFails \/ LocalFails \/ EndKernelFails
             \/ BodyFails
    BY <2>1, <2>2 DEF CountFails, EntryPointFails, BindableFails, LocalFails, EndKernelFails,
       BodyFails
  <2>3. CASE KernelBroken
    <3>1. err # OK /\ broken' = broken \cup {err} /\ broken = {}
      BY <2>1, <2>3 DEF KernelBroken, BreakOff, Clean
    <3>2. QED
      BY <2>1, <3>1
  <2>4. CASE Conf \/ Count \/ Helper \/ EntryPoint \/ EntriesEnd \/ NotAKernel \/ Hollow
             \/ BeginKernel \/ DeclareEnds
    BY <2>1, <2>4, CountingTab, LaterTab, HollowTab, BeginKernelTab
  <2>5. CASE Scalar \/ Bindable \/ Local \/ Located \/ Refused \/ NoTable
    BY <2>1, <2>5, ScalarTab, RefusedTab, BindableIntroduces, LocalIntroduces,
       LocatedIntroduces, IntroducesTab
  <2>6. CASE EndKernel \/ Body \/ BodyNotNoted \/ BodyNoTable \/ Assemble
    BY <2>1, <2>6, EndKernelTab, BodyTab, LaterTab
  <2>7. CASE Finished
    BY <1>1, <2>7 DEF Finished
  <2>8. QED
    BY <1>3, <2>2, <2>3, <2>4, <2>5, <2>6, <2>7 DEF Next
<1>4. QED
  BY <1>1, <1>2, <1>3

LEMMA TabledAreBound == ASSUME TInv, TabInv PROVE ParamsBound
<1> SUFFICES ASSUME Clean, NEW body \in Range(fns)
             PROVE  /\ \A i \in DOMAIN prog[body.fn].params :
                          prog[body.fn].params[i].kind \notin Scalars => Bound(body, i)
                    /\ Cardinality(PushConstants(body.fn)) =
                          IF \E i \in DOMAIN prog[body.fn].params :
                                prog[body.fn].params[i].kind \in Scalars THEN 1 ELSE 0
  BY DEF ParamsBound
<1>1. PICK j \in DOMAIN fns : body = fns[j]
  BY DEF Range
<1>2. PICK k : /\ k \in Kernels /\ k = body.fn /\ body.id = Anchor + Before(k)
               /\ body.table = tables[Before(k) + 1]
  BY <1>1, TabParts DEF Bodies
<1>3. PICK t : t = body.table /\ TableDone(variables, bindings, t, k)
  <2>1. fns # << >>
    BY <1>1
  <2>2. QED
    BY <1>2, <2>1, TabParts DEF Done
<1>4. PICK b \in Nat : b = Before(k) /\ body.id - Anchor = b
  <2>1. PICK b \in Nat : b = Before(k)
    BY PhaseFacts, KernelsFinite
  <2>2. PICK c \in Nat : c = Anchor
    BY ProgramAssumption DEF Anchor
  <2>3. body.id = c + b
    BY <1>2, <2>1, <2>2
  <2>4. QED
    BY <2>1, <2>2, <2>3
<1>5. ASSUME NEW i \in DOMAIN prog[k].params, prog[k].params[i].kind \notin Scalars
      PROVE  Bound(body, i)
  <2>1. PICK p \in DOMAIN t : Serves(variables, bindings, t[p], k, i)
    BY <1>3, <1>5 DEF TableDone
  <2>2. PICK s : s = t[p] /\ s \in Range(t)
    BY DEF Range
  <2>3. { q \in Range(t) : q.prm = i } = {s}
    <3>1. s.prm = i
      BY <2>1, <2>2 DEF Serves
    <3>2. ASSUME NEW q \in Range(t), q.prm = i PROVE q = s
      <4>1. PICK x \in DOMAIN t : q = t[x]
        BY <3>2 DEF Range
      <4>2. x = p
        BY <1>3, <2>2, <3>1, <3>2, <4>1 DEF TableDone, OneSlotEach
      <4>3. QED
        BY <2>2, <4>1, <4>2
    <3>3. QED
      BY <2>2, <3>1, <3>2
  <2>4. s.entp = body.id - Anchor
    BY <1>4, <2>1, <2>2 DEF Serves
  <2>5. \E v \in Range(variables) : v.id = s.var /\ v.fn = body.fn /\ v.prm = i
    <3>1. PICK x \in DOMAIN variables :
              variables[x].id = s.var /\ variables[x].fn = k /\ variables[x].prm = i
      BY <2>1, <2>2 DEF Serves
    <3>2. variables[x] \in Range(variables)
      BY DEF Range
    <3>3. QED
      BY <1>2, <3>1, <3>2
  <2>6. HasBinding(body.fn, i, s.var)
    BY <1>2, <2>1, <2>2 DEF Serves, HasBinding
  <2>7. QED
    BY <1>3, <2>2, <2>3, <2>4, <2>5, <2>6 DEF Bound
<1>6. Cardinality(PushConstants(k)) =
         IF \E i \in DOMAIN prog[k].params : prog[k].params[i].kind \in Scalars THEN 1 ELSE 0
  <2>1. PushedOnce(variables, k)
    BY <1>3 DEF TableDone
  <2>2. CASE \E i \in DOMAIN prog[k].params : prog[k].params[i].kind \in Scalars
    <3>1. PICK x \in DOMAIN variables : IsPush(variables[x], k)
      BY <2>1, <2>2 DEF PushedOnce
    <3>2. PushConstants(k) = {x}
      BY <2>1, <3>1 DEF PushedOnce, PushConstants, IsPush
    <3>3. Cardinality({x}) = 1
      BY FS_Singleton
    <3>4. QED
      BY <2>2, <3>2, <3>3
  <2>3. CASE ~ \E i \in DOMAIN prog[k].params : prog[k].params[i].kind \in Scalars
    <3>1. PushConstants(k) = {}
      BY <2>1, <2>3 DEF PushedOnce, PushConstants, IsPush
    <3>2. QED
      BY <2>3, <3>1, FS_EmptySet
  <2>4. QED
    BY <2>2, <2>3
<1>7. QED
  BY <1>2, <1>5, <1>6

\* A body is compiled with the declarations of its own parameters, each found
\* once, bound by its place, and with one push constant for the scalars: for
\* any helpers and kernels with any parameters, in a compilation that was not
\* broken off.
THEOREM ParametersAreBound == Spec => []ParamsBound
<1>1. Init => Counted
  BY DEF Init, Counted, Early, Declares
<1>2. TInv /\ TabInv => ParamsBound
  BY TabledAreBound
<1>3. QED
  BY <1>1, <1>2, InitTInv, InitUInv, InitTab, NextTInv, NextCounted, NextUInv, NextTab,
     PTL DEF Spec
=============================================================================
