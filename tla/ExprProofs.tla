----------------------------- MODULE ExprProofs -----------------------------
(***************************************************************************)
(* The operand libclang visits next is the one the operand stack awaits    *)
(* (Awaited), ids are defined once (IdsDefinedOnce) and before they are    *)
(* used (OperandsDefined), and the code that is left is that of the tree   *)
(* (TranslatesExpression), for expressions of any size and any number of   *)
(* calls, in which the right operand of an operator is not an operator.    *)
(***************************************************************************)
EXTENDS Expr, SequenceTheorems, TLAPS

Place == [par : Nat, side : Sides]
VisitNode == [kind : AllKinds, par : Nat, side : Sides, id : Nat]
ScaleType == [n : {0, 2, Overrun}, nc : BOOLEAN, id : Nat, x : Nat, y : Nat]
TypesInstr == [op : {"Undefined", "Constant", "SpecConstantOp"}, id : Nat, args : Seq(Nat)]
FnInstr == [op : {"Undefined", "Load", "Convert", "Op", "SpecConstantOp"},
            id : Nat, args : Seq(Nat)]

\* The parts of TypeOK that a visit changes.
TreeOK == open \in Seq(Place) /\ visit \in Seq(VisitNode)
BufsOK == /\ stack \in Seq(Nat) /\ wrapped \in BOOLEAN
          /\ scales \in Seq(ScaleType) /\ counter \in Nat
CodeOK == types \in Seq(TypesInstr) /\ fnimpl \in Seq(FnInstr)
RestOK == /\ pc \in {"idle", "visiting", "answered", "crashed"}
          /\ notConst \in BOOLEAN /\ broken \in BOOLEAN
          /\ idReq \in Nat /\ nextId \in Nat
          /\ err \in {"OK", "ALLOC_FAILED"}
          /\ answer \in {"FAILURE", "SUCCESS", "SUCCESS_CONSTANT"}
          /\ mark \in Nat \X Nat
          /\ calls \in Nat /\ fails \in Nat

LEMMA TypeParts == TypeOK <=> TreeOK /\ BufsOK /\ CodeOK /\ RestOK
BY DEF TypeOK, TreeOK, BufsOK, CodeOK, RestOK, Place, VisitNode, ScaleType, TypesInstr, FnInstr

LEMMA CurrentIdNat == ASSUME BufsOK, RestOK PROVE CurrentId \in Nat
<1>1. CASE stack = << >>
  BY <1>1 DEF CurrentId, RestOK
<1>2. CASE stack # << >>
  <2>1. Len(stack) \in DOMAIN stack /\ stack \in Seq(Nat)
    BY <1>2 DEF BufsOK
  <2>2. stack[Len(stack)] \in Nat
    BY <2>1
  <2>3. QED
    BY <1>2, <2>2 DEF CurrentId, Top
<1>3. QED
  BY <1>1, <1>2

LEMMA PassedOK ==
    ASSUME TypeOK, NEW k \in AllKinds, open # << >>, NEW operands \in Seq(Place),
           Passed(k, operands)
    PROVE  TreeOK'
<1>1. /\ open \in Seq(Place) /\ visit \in Seq(VisitNode) /\ CurrentId \in Nat
  BY TypeParts, CurrentIdNat DEF TreeOK
<1>2. Head(open) \in Place /\ Tail(open) \in Seq(Place)
  BY <1>1
<1>3. [kind |-> k, par |-> Head(open).par, side |-> Head(open).side, id |-> CurrentId]
        \in VisitNode
  BY <1>1, <1>2 DEF Place, VisitNode
<1>4. visit' \in Seq(VisitNode)
  BY <1>1, <1>3 DEF Passed
<1>5. open' \in Seq(Place)
  BY <1>2 DEF Passed
<1>6. QED
  BY <1>4, <1>5 DEF TreeOK

LEMMA OperandsOK == ASSUME TypeOK PROVE Operands \in Seq(Place)
<1>1. Len(visit) + 1 \in Nat
  BY DEF TypeOK
<1>2. QED
  BY <1>1 DEF Operands, Place, Sides

LEMMA NewScaleOK == ASSUME TypeOK PROVE NewScale \in ScaleType
BY TypeParts, CurrentIdNat DEF NewScale, ScaleType, RestOK

LEMMA OverlappedOK ==
    ASSUME TypeOK
    PROVE  /\ Overlapped(scales) \in Seq(ScaleType)
           /\ Len(Overlapped(scales)) = Len(scales)
           /\ \A i \in 2..Len(scales) : Overlapped(scales)[i] = scales[i]
<1>1. scales \in Seq(ScaleType)
  BY TypeParts DEF BufsOK
<1>2. CASE Len(scales) # 1
  BY <1>1, <1>2 DEF Overlapped
<1>3. CASE Len(scales) = 1
  <2>1. scales[1] \in ScaleType
    <3>1. \A i \in 1..Len(scales) : scales[i] \in ScaleType
      BY <1>1
    <3>2. QED
      BY <3>1, <1>3
  <2>2. [scales[1] EXCEPT !.n = Overrun] \in ScaleType
    BY <2>1 DEF ScaleType
  <2>3. Overlapped(scales) = [scales EXCEPT ![1] = [scales[1] EXCEPT !.n = Overrun]]
    BY <1>3 DEF Overlapped
  <2>4. QED
    BY <1>1, <1>3, <2>2, <2>3
<1>4. QED
  BY <1>2, <1>3

LEMMA MarkedOK ==
    ASSUME TypeOK, NEW k
    PROVE  /\ Marked(k) \in Seq(ScaleType)
           /\ Len(Marked(k)) = Len(scales)
           /\ \A i \in DOMAIN scales : /\ Marked(k)[i].n = scales[i].n
                                       /\ Marked(k)[i].id = scales[i].id
                                       /\ Marked(k)[i].x = scales[i].x
                                       /\ Marked(k)[i].y = scales[i].y
<1> DEFINE last == Len(scales)
           s == [scales[last] EXCEPT !.nc = @ \/ k # "literal"]
<1>1. scales \in Seq(ScaleType)
  BY TypeParts DEF BufsOK
<1>2. Marked(k) = [scales EXCEPT ![last] = s]
  BY DEF Marked
<1>3. CASE last = 0
  <2> HIDE DEF s
  <2>1. DOMAIN scales = {} /\ scales = << >>
    BY <1>1, <1>3
  <2>2. DOMAIN Marked(k) = {} /\ Marked(k) = << >>
    BY <2>1, <1>2
  <2>3. QED
    BY <2>1, <2>2
<1>4. CASE last # 0
  <2>1. last \in DOMAIN scales /\ scales[last] \in ScaleType
    BY <1>1, <1>4
  <2>2. /\ s \in ScaleType /\ s.n = scales[last].n /\ s.id = scales[last].id
        /\ s.x = scales[last].x /\ s.y = scales[last].y
    BY <2>1 DEF ScaleType
  <2> HIDE DEF s
  <2>3. QED
    BY <1>1, <1>2, <2>1, <2>2
<1>5. QED
  BY <1>3, <1>4

LEMMA MarkedFlags ==
    ASSUME TypeOK, NEW k, NEW i \in DOMAIN scales
    PROVE  Marked(k)[i].nc => scales[i].nc \/ k # "literal"
<1>1. scales \in Seq(ScaleType)
  BY TypeParts DEF BufsOK
<1>2. scales[i] \in ScaleType /\ Len(scales) \in DOMAIN scales
  BY <1>1
<1>3. CASE i = Len(scales)
  BY <1>1, <1>2, <1>3 DEF Marked, ScaleType
<1>4. CASE i # Len(scales)
  BY <1>1, <1>2, <1>4 DEF Marked
<1>5. QED
  BY <1>3, <1>4

LEMMA FrontOK ==
    ASSUME NEW S, NEW s \in Seq(S), s # << >>
    PROVE  /\ Front(s) \in Seq(S) /\ Len(Front(s)) = Len(s) - 1
           /\ \A i \in 1..(Len(s) - 1) : Front(s)[i] = s[i]
<1>1. PICK m \in Nat : m = Len(s) - 1
  OBVIOUS
<1>2. \A i \in 1..m : s[i] \in S
  BY <1>1
<1>3. /\ Front(s) \in Seq(S)
      /\ Len(Front(s)) = IF 1 <= m THEN m - 1 + 1 ELSE 0
      /\ \A i \in 1..(m - 1 + 1) : Front(s)[i] = s[1 + i - 1]
  BY <1>1, <1>2, SubSeqProperties DEF Front
<1>4. Len(Front(s)) = m /\ m - 1 + 1 = m
  BY <1>3
<1>5. ASSUME NEW i \in 1..m PROVE Front(s)[i] = s[i]
  <2>1. 1 + i - 1 = i
    OBVIOUS
  <2>2. QED
    BY <1>3, <1>4, <2>1
<1>6. QED
  BY <1>1, <1>3, <1>4, <1>5

\* The scale behind a complete operator takes over its flag and nothing else.
LEMMA JoinedOK ==
    ASSUME NEW s \in Seq(ScaleType), Len(s) > 1
    PROVE  /\ Joined(s) \in Seq(ScaleType) /\ Len(Joined(s)) = Len(s) - 1
           /\ \A i \in 1..(Len(s) - 1) :
                 /\ Joined(s)[i].n = s[i].n /\ Joined(s)[i].id = s[i].id
                 /\ Joined(s)[i].x = s[i].x /\ Joined(s)[i].y = s[i].y
                 /\ Joined(s)[i].nc => s[i].nc \/ Top(s).nc
<1> DEFINE m == Len(s) - 1
           old == Front(s)[m]
           new == [old EXCEPT !.nc = @ \/ Top(s).nc]
<1>1. /\ Front(s) \in Seq(ScaleType) /\ Len(Front(s)) = m
      /\ \A i \in 1..m : Front(s)[i] = s[i]
  <2>1. s # << >>
    OBVIOUS
  <2>2. QED
    BY <2>1, FrontOK
<1>2. m \in 1..m /\ m \in Nat
  OBVIOUS
<1>3. old = s[m] /\ old \in ScaleType /\ Top(s) \in ScaleType
  BY <1>1, <1>2 DEF Top
<1>4. /\ new \in ScaleType /\ new.n = old.n /\ new.id = old.id /\ new.x = old.x
      /\ new.y = old.y /\ (new.nc => old.nc \/ Top(s).nc)
  BY <1>3 DEF ScaleType
<1>5. Joined(s) = [Front(s) EXCEPT ![m] = new]
  BY DEF Joined
<1> HIDE DEF new, old, m
<1>6. /\ Joined(s) \in Seq(ScaleType) /\ Len(Joined(s)) = m
      /\ Joined(s)[m] = new /\ \A i \in 1..m : i # m => Joined(s)[i] = s[i]
  BY <1>1, <1>2, <1>4, <1>5
<1>7. ASSUME NEW i \in 1..m
      PROVE  /\ Joined(s)[i].n = s[i].n /\ Joined(s)[i].id = s[i].id
             /\ Joined(s)[i].x = s[i].x /\ Joined(s)[i].y = s[i].y
             /\ Joined(s)[i].nc => s[i].nc \/ Top(s).nc
  BY <1>3, <1>4, <1>6
<1>8. QED
  BY <1>6, <1>7 DEF m

LEMMA EmittedOK ==
    ASSUME TypeOK, NEW k
    PROVE  /\ types \o Constants(k) \in Seq(TypesInstr)
           /\ fnimpl \o Loads(k) \in Seq(FnInstr)
           /\ nextId + IdsOf(k) \in Nat
<1>1. CurrentId \in Nat /\ nextId \in Nat
  BY TypeParts, CurrentIdNat DEF RestOK
<1>2. << >> \in Seq(Nat) /\ << nextId >> \in Seq(Nat)
  BY <1>1
<1>3. Instr("Constant", CurrentId, << >>) \in TypesInstr
  BY <1>1, <1>2 DEF Instr, TypesInstr
<1>4. Constants(k) \in Seq(TypesInstr)
  BY <1>3 DEF Constants
<1>5. /\ Instr("Load", CurrentId, << >>) \in FnInstr
      /\ Instr("Load", nextId, << >>) \in FnInstr
      /\ Instr("Convert", CurrentId, << nextId >>) \in FnInstr
  BY <1>1, <1>2 DEF Instr, FnInstr
<1>6. Loads(k) \in Seq(FnInstr)
  BY <1>5 DEF Loads
<1>7. types \in Seq(TypesInstr) /\ fnimpl \in Seq(FnInstr)
  BY TypeParts DEF CodeOK
<1>8. nextId + IdsOf(k) \in Nat
  BY <1>1 DEF IdsOf
<1>9. QED
  BY <1>4, <1>6, <1>7, <1>8

LEMMA OperationOK ==
    ASSUME NEW s \in ScaleType
    PROVE  /\ Operation(s) \in FnInstr
           /\ ~s.nc => Operation(s) \in TypesInstr
<1>1. s.id \in Nat /\ << s.x, s.y >> \in Seq(Nat)
  BY DEF ScaleType
<1>2. QED
  BY <1>1 DEF Operation, Instr, FnInstr, TypesInstr

LEMMA ScrambledOK ==
    /\ \A s \in Seq(TypesInstr) : Scrambled(s) \in Seq(TypesInstr)
    /\ \A s \in Seq(FnInstr) : Scrambled(s) \in Seq(FnInstr)
<1>1. << >> \in Seq(Nat)
  OBVIOUS
<1>2. Undefined \in TypesInstr /\ Undefined \in FnInstr
  BY <1>1 DEF Undefined, Instr, TypesInstr, FnInstr
<1>3. QED
  BY <1>2 DEF Scrambled

LEMMA PoppedOK ==
    ASSUME TypeOK
    PROVE  /\ Popped \in Seq(Nat)
           /\ stack # << >> => /\ Len(Popped) = Len(stack) - 1
                               /\ \A i \in 1..Len(Popped) : Popped[i] = stack[i]
<1>1. stack \in Seq(Nat)
  BY TypeParts DEF BufsOK
<1>2. CASE stack = << >>
  BY <1>2 DEF Popped
<1>3. CASE stack # << >>
  BY <1>1, <1>3, FrontOK DEF Popped
<1>4. QED
  BY <1>2, <1>3

LEMMA TypePartsNext == TypeOK' <=> TreeOK' /\ BufsOK' /\ CodeOK' /\ RestOK'
BY DEF TypeOK, TreeOK, BufsOK, CodeOK, RestOK, Place, VisitNode, ScaleType, TypesInstr, FnInstr

\* The flag of a scale is set only with the flag of the expression: what is
\* emitted to types is a constant.
FlagsAgree == (pc = "visiting" /\ ~notConst) => \A i \in DOMAIN scales : ~scales[i].nc

\* A scale with another above it waits for two operands or more.
Waits == (pc = "visiting" /\ Len(scales) > 1) =>
             \A i \in DOMAIN scales : scales[i].n \in {2, Overrun}

TInv == TypeOK /\ FlagsAgree /\ Waits

LEMMA OverrunNat == Overrun \in Nat /\ Overrun >= 2
BY DEF Overrun

LEMMA TInvParts ==
    ASSUME TInv
    PROVE  TypeOK /\ TreeOK /\ BufsOK /\ CodeOK /\ RestOK /\ FlagsAgree /\ Waits
BY TypeParts DEF TInv

LEMMA InitTInv == Init => TInv
<1> SUFFICES ASSUME Init PROVE TInv
  OBVIOUS
<1>1. FirstId \in Nat
  BY BoundAssumption
<1>2. TypeOK
  <2>1. TreeOK
    BY EmptySeq DEF Init, TreeOK
  <2>2. BufsOK
    BY EmptySeq DEF Init, BufsOK
  <2>3. CodeOK
    BY EmptySeq DEF Init, CodeOK
  <2>4. RestOK
    BY <1>1 DEF Init, RestOK
  <2>5. QED
    BY <2>1, <2>2, <2>3, <2>4, TypeParts
<1>3. FlagsAgree /\ Waits
  BY DEF Init, FlagsAgree, Waits
<1>4. QED
  BY <1>2, <1>3 DEF TInv

LEMMA AskedOK ==
    ASSUME TInv, Asked
    PROVE  /\ visit' = << >> /\ idReq' \in Nat /\ nextId' \in Nat /\ calls' \in Nat
           /\ mark' \in Nat \X Nat /\ CodeOK' /\ err' = err
<1>1. CodeOK /\ nextId \in Nat /\ calls \in Nat
  BY TInvParts DEF RestOK
<1>2. Len(types) \in Nat /\ Len(fnimpl) \in Nat
  BY <1>1 DEF CodeOK
<1>3. CodeOK'
  BY <1>1 DEF CodeOK, Asked, code
<1>4. QED
  BY <1>1, <1>2, <1>3 DEF Asked

LEMMA BeginTInv == ASSUME TInv, Begin PROVE TInv'
<1>1. Asked
  BY DEF Begin
<1>2. Boot \in ScaleType /\ ~Boot.nc
  BY DEF Boot, ScaleType
<1>3. TreeOK'
  BY <1>1, AskedOK DEF Begin, TreeOK, Place, Sides
<1>4. BufsOK'
  <2>1. << >> \in Seq(Nat) /\ << Boot >> \in Seq(ScaleType)
    BY <1>2, EmptySeq
  <2>2. QED
    BY <2>1 DEF Begin, BufsOK
<1>5. RestOK'
  BY <1>1, AskedOK, TInvParts DEF Begin, RestOK
<1>6. FlagsAgree' /\ Waits'
  BY <1>2 DEF Begin, FlagsAgree, Waits
<1>7. QED
  BY <1>1, <1>3, <1>4, <1>5, <1>6, AskedOK, TypePartsNext DEF TInv

LEMMA BeginFailsTInv == ASSUME TInv, BeginFails PROVE TInv'
<1>1. Asked
  BY DEF BeginFails
<1>2. TreeOK'
  BY <1>1, AskedOK DEF BeginFails, TreeOK
<1>3. BufsOK'
  BY TInvParts DEF BeginFails, BufsOK, bufs
<1>4. RestOK'
  BY <1>1, AskedOK, TInvParts DEF BeginFails, RestOK, AllocFails
<1>5. QED
  BY <1>1, <1>2, <1>3, <1>4, AskedOK, TypePartsNext DEF TInv, FlagsAgree, Waits, BeginFails

LEMMA TransparentTInv == ASSUME TInv, NEW k \in Kinds, Transparent(k) PROVE TInv'
<1> DEFINE operands == [i \in 1..Arity(k) |-> Head(open)]
<1>1. k \in AllKinds /\ open # << >>
  BY KindsAssumption DEF Transparent, Visits
<1>2. Head(open) \in Place /\ Arity(k) \in Nat
  BY <1>1, TInvParts DEF TreeOK, Arity
<1>3. operands \in Seq(Place)
  BY <1>2
<1>4. TreeOK'
  BY <1>1, <1>3, PassedOK, TInvParts DEF Transparent
<1>5. BufsOK' /\ CodeOK'
  BY TInvParts DEF Transparent, BufsOK, CodeOK, bufs, code
<1>6. RestOK'
  BY TInvParts DEF Transparent, RestOK, Goes
<1>7. FlagsAgree' /\ Waits'
  BY TInvParts DEF Transparent, FlagsAgree, Waits, Goes, bufs
<1>8. QED
  BY <1>4, <1>5, <1>6, <1>7, TypePartsNext DEF TInv

LEMMA GrownScales ==
    ASSUME TInv
    PROVE  /\ Append(Overlapped(scales), NewScale) \in Seq(ScaleType)
           /\ \A i \in DOMAIN Append(Overlapped(scales), NewScale) :
                 Append(Overlapped(scales), NewScale)[i].nc =>
                     i \in DOMAIN scales /\ scales[i].nc
           /\ (Waits /\ pc = "visiting" /\ Len(scales) # 0) =>
                 \A i \in DOMAIN Append(Overlapped(scales), NewScale) :
                     Append(Overlapped(scales), NewScale)[i].n \in {2, Overrun}
<1> DEFINE s == Overlapped(scales)
<1>1. /\ s \in Seq(ScaleType) /\ Len(s) = Len(scales) /\ NewScale \in ScaleType
      /\ scales \in Seq(ScaleType)
  BY OverlappedOK, NewScaleOK, TInvParts DEF BufsOK
<1>2. ~NewScale.nc
  BY DEF NewScale
<1>3. ASSUME NEW i \in DOMAIN scales PROVE s[i].nc = scales[i].nc
  <2>1. scales[i] \in ScaleType
    BY <1>1
  <2>2. CASE Len(scales) = 1
    <3>1. i = 1
      BY <1>1, <2>2
    <3>2. s = [scales EXCEPT ![1] = [scales[1] EXCEPT !.n = Overrun]]
      BY <2>2 DEF Overlapped
    <3>3. QED
      BY <1>1, <2>1, <3>1, <3>2 DEF ScaleType
  <2>3. CASE Len(scales) # 1
    BY <2>3 DEF Overlapped
  <2>4. QED
    BY <2>2, <2>3
<1>4. ASSUME Waits, pc = "visiting", NEW i \in DOMAIN scales PROVE s[i].n \in {2, Overrun}
  <2>1. CASE Len(scales) = 1
    <3>1. i = 1 /\ scales[i] \in ScaleType
      <4>1. scales[i] \in ScaleType /\ DOMAIN scales = 1..1
        BY <1>1, <2>1, LenProperties
      <4>2. QED
        BY <4>1
    <3>2. s = [scales EXCEPT ![1] = [scales[1] EXCEPT !.n = Overrun]]
      BY <2>1 DEF Overlapped
    <3>3. QED
      BY <1>1, <3>1, <3>2 DEF ScaleType
  <2>2. CASE Len(scales) # 1
    BY <1>1, <1>4, <2>2 DEF Overlapped, Waits
  <2>3. QED
    BY <2>1, <2>2
<1>5. NewScale.n = 2
  BY DEF NewScale
<1> HIDE DEF s
<1>6. QED
  BY <1>1, <1>2, <1>3, <1>4, <1>5 DEF s

LEMMA OperatorTInv == ASSUME TInv, Operator PROVE TInv'
<1>1. open # << >> /\ "op" \in AllKinds
  BY DEF Operator, Visits, AllKinds
<1>2. TreeOK'
  BY <1>1, PassedOK, OperandsOK, TInvParts DEF Operator
<1>3. nextId \in Nat /\ stack \in Seq(Nat)
  BY TInvParts DEF RestOK, BufsOK
<1>4. BufsOK'
  <2>1. << nextId + 1, nextId >> \in Seq(Nat)
    BY <1>3
  <2>2. stack' \in Seq(Nat)
    BY <1>3, <2>1 DEF Operator
  <2>3. QED
    BY <2>2, GrownScales, TInvParts DEF Operator, BufsOK
<1>5. CodeOK'
  BY TInvParts DEF Operator, CodeOK, code
<1>6. RestOK'
  BY <1>3, TInvParts DEF Operator, RestOK, Goes
<1>7. FlagsAgree'
  BY GrownScales, TInvParts DEF Operator, FlagsAgree, Goes
<1>8. Waits'
  <2>1. CASE Len(scales) # 0
    BY <2>1, GrownScales, TInvParts DEF Operator, Waits, Goes
  <2>2. CASE Len(scales) = 0
    <3>1. Len(scales') = 1
      BY <2>2, OverlappedOK, NewScaleOK, TInvParts DEF Operator
    <3>2. QED
      BY <3>1 DEF Waits
  <2>3. QED
    BY <2>1, <2>2
<1>9. QED
  BY <1>2, <1>4, <1>5, <1>6, <1>7, <1>8, TypePartsNext DEF TInv

\* A visit that is broken off leaves the tree and an answer.
LEMMA BreakOK ==
    ASSUME TInv, NEW nc, Break(nc)
    PROVE  /\ TreeOK' /\ pc' = "answered" /\ FlagsAgree' /\ Waits' /\ broken' \in BOOLEAN
           /\ answer' \in {"FAILURE", "SUCCESS", "SUCCESS_CONSTANT"}
           /\ idReq' \in Nat /\ mark' \in Nat \X Nat /\ calls' \in Nat
<1>1. TreeOK'
  BY TInvParts DEF Break, TreeOK
<1>2. QED
  BY <1>1, TInvParts DEF Break, Answer, RestOK, FlagsAgree, Waits

LEMMA OperatorFailsTInv == ASSUME TInv, OperatorFails PROVE TInv'
<1>1. Break(notConst) /\ AllocFails
  BY DEF OperatorFails
<1>2. nextId \in Nat /\ stack \in Seq(Nat)
  BY TInvParts DEF RestOK, BufsOK
<1>3. BufsOK'
  <2>1. << >> \in Seq(Nat) /\ << >> \in Seq(ScaleType)
    BY EmptySeq
  <2>2. stack' \in Seq(Nat) /\ scales' \in Seq(ScaleType)
    BY <1>2, <2>1, GrownScales, TInvParts DEF OperatorFails, BufsOK
  <2>3. QED
    BY <2>2, TInvParts DEF OperatorFails, BufsOK
<1>4. CodeOK'
  BY TInvParts DEF OperatorFails, CodeOK, code
<1>5. RestOK'
  BY <1>1, <1>2, BreakOK, TInvParts DEF OperatorFails, RestOK, AllocFails
<1>6. QED
  BY <1>1, <1>3, <1>4, <1>5, BreakOK, TypePartsNext DEF TInv

LEMMA RefusedTInv == ASSUME TInv, OperatorRefused \/ OperandForeign PROVE TInv'
<1>1. Break(notConst) /\ UNCHANGED << bufs, notConst, nextId, code, err, fails >>
  BY DEF OperatorRefused, OperandForeign
<1>2. BufsOK' /\ CodeOK'
  BY <1>1, TInvParts DEF BufsOK, CodeOK, bufs, code
<1>3. RestOK'
  BY <1>1, BreakOK, TInvParts DEF RestOK
<1>4. QED
  BY <1>1, <1>2, <1>3, BreakOK, TypePartsNext DEF TInv

LEMMA NotConstFlag ==
    ASSUME TInv, pc = "visiting", NEW k
    PROVE  /\ NotConst(k) \in BOOLEAN
           /\ ~NotConst(k) => \A i \in DOMAIN scales : ~Marked(k)[i].nc
BY TInvParts, MarkedFlags DEF NotConst, FlagsAgree, RestOK

LEMMA OperandTInv == ASSUME TInv, NEW k \in Kinds, Operand(k) PROVE TInv'
<1>1. k \in AllKinds /\ open # << >> /\ pc = "visiting"
  BY KindsAssumption DEF Operand, Value, Visits
<1>2. TreeOK'
  BY <1>1, EmptySeq, PassedOK, TInvParts DEF Operand
<1>3. BufsOK'
  <2>1. stack' \in Seq(Nat)
    BY PoppedOK, TInvParts DEF Operand
  <2>2. scales' \in Seq(ScaleType)
    BY MarkedOK, TInvParts DEF Operand
  <2>3. QED
    BY <2>1, <2>2, TInvParts DEF Operand, BufsOK
<1>4. CodeOK' /\ nextId' \in Nat
  BY EmittedOK, TInvParts DEF Operand, CodeOK
<1>5. RestOK'
  BY <1>1, <1>4, NotConstFlag, TInvParts DEF Operand, RestOK, Goes
<1>6. FlagsAgree'
  <2>1. DOMAIN scales' = DOMAIN scales
    BY MarkedOK, TInvParts DEF Operand, BufsOK
  <2>2. QED
    BY <1>1, <2>1, NotConstFlag DEF Operand, FlagsAgree
<1>7. Waits'
  <2>1. /\ scales' = Marked(k) /\ Len(Marked(k)) = Len(scales)
        /\ Marked(k) \in Seq(ScaleType) /\ scales \in Seq(ScaleType)
        /\ \A i \in DOMAIN scales : Marked(k)[i].n = scales[i].n
    BY MarkedOK, TInvParts DEF Operand, BufsOK
  <2>2. DOMAIN scales' = DOMAIN scales /\ Len(scales') = Len(scales)
    BY <2>1
  <2>3. QED
    BY <1>1, <2>1, <2>2, TInvParts DEF Waits
<1>8. QED
  BY <1>2, <1>3, <1>4, <1>5, <1>6, <1>7, TypePartsNext DEF TInv

LEMMA OperandLastTInv == ASSUME TInv, NEW k \in Kinds, OperandLast(k) PROVE TInv'
<1> DEFINE marked == Marked(k)
           op == << Operation(Top(marked)) >>
<1>1. k \in AllKinds /\ open # << >> /\ pc = "visiting" /\ Len(scales) > 1
  BY KindsAssumption DEF OperandLast, Value, Visits, Last
<1>2. /\ marked \in Seq(ScaleType) /\ Len(marked) = Len(scales)
      /\ scales \in Seq(ScaleType)
  BY MarkedOK, TInvParts DEF BufsOK
<1>3. Len(marked) \in DOMAIN scales /\ Top(marked) \in ScaleType
  BY <1>1, <1>2 DEF Top
<1>4. ~NotConst(k) => ~Top(marked).nc
  BY <1>1, <1>2, <1>3, NotConstFlag DEF Top
<1>5. TreeOK'
  BY <1>1, EmptySeq, PassedOK, TInvParts DEF OperandLast
<1>6. op \in Seq(FnInstr) /\ (~NotConst(k) => op \in Seq(TypesInstr))
  BY <1>3, <1>4, OperationOK
<1>7. CodeOK'
  <2>1. types' = types \o Constants(k) \o (IF NotConst(k) THEN << >> ELSE op)
    BY DEF OperandLast
  <2>2. fnimpl' = fnimpl \o Loads(k) \o (IF NotConst(k) THEN op ELSE << >>)
    BY DEF OperandLast
  <2>3. types \o Constants(k) \in Seq(TypesInstr) /\ fnimpl \o Loads(k) \in Seq(FnInstr)
    BY EmittedOK, TInvParts
  <2>4. /\ (IF NotConst(k) THEN << >> ELSE op) \in Seq(TypesInstr)
        /\ (IF NotConst(k) THEN op ELSE << >>) \in Seq(FnInstr)
    BY <1>6, EmptySeq
  <2> HIDE DEF op
  <2>5. types' \in Seq(TypesInstr)
    BY <2>1, <2>3, <2>4, ConcatProperties
  <2>6. fnimpl' \in Seq(FnInstr)
    BY <2>2, <2>3, <2>4, ConcatProperties
  <2>7. QED
    BY <2>5, <2>6 DEF CodeOK
<1>8. RestOK'
  <2>1. nextId' \in Nat
    BY EmittedOK, TInvParts DEF OperandLast
  <2>2. QED
    BY <1>1, <2>1, NotConstFlag, TInvParts DEF OperandLast, RestOK, Goes
<1>9. /\ Joined(marked) \in Seq(ScaleType) /\ Len(Joined(marked)) = Len(marked) - 1
      /\ \A i \in 1..(Len(marked) - 1) :
             /\ Joined(marked)[i].nc => marked[i].nc \/ Top(marked).nc
             /\ Joined(marked)[i].n \in {2, Overrun}
  <2>1. /\ Joined(marked) \in Seq(ScaleType) /\ Len(Joined(marked)) = Len(marked) - 1
        /\ \A i \in 1..(Len(marked) - 1) :
               /\ Joined(marked)[i].nc => marked[i].nc \/ Top(marked).nc
               /\ Joined(marked)[i].n = marked[i].n
    BY <1>1, <1>2, JoinedOK
  <2>2. \A i \in DOMAIN scales : marked[i].n \in {2, Overrun}
    BY <1>1, MarkedOK, TInvParts DEF Waits
  <2>3. \A i \in 1..(Len(marked) - 1) : i \in DOMAIN scales
    BY <1>2
  <2> HIDE DEF marked
  <2>4. QED
    BY <2>1, <2>2, <2>3
<1>10. BufsOK'
  <2>1. PICK n : n = Joined(marked)[Len(scales) - 1].n
    OBVIOUS
  <2>2. Len(scales) - 1 \in 1..(Len(marked) - 1)
    BY <1>1, <1>2
  <2>3. n \in Nat /\ n >= 2
    BY <1>9, <2>1, <2>2, OverrunNat
  <2>4. Popped \in Seq(Nat) /\ Len(Popped) \in Nat
    BY PoppedOK, TInvParts
  <2>5. CASE stack' = SubSeq(Popped, 1, Len(Popped) - (n - 1)) /\ UNCHANGED wrapped
    <3> DEFINE m == Len(Popped) - (n - 1)
    <3>1. m \in Int
      BY <2>3, <2>4
    <3>2. m <= Len(Popped)
      BY <2>3, <2>4, <3>1
    <3>3. \A i \in 1..m : Popped[i] \in Nat
      <4>1. \A i \in 1..Len(Popped) : Popped[i] \in Nat
        BY <2>4
      <4> HIDE DEF m
      <4>2. QED
        BY <2>4, <3>1, <3>2, <4>1
    <3>4. stack' \in Seq(Nat)
      BY <2>5, <3>1, <3>3, SubSeqProperties
    <3>5. QED
      BY <1>9, <2>5, <3>4, TInvParts DEF OperandLast, BufsOK
  <2>6. CASE stack' = << >> /\ wrapped' = TRUE
    BY <1>9, <2>6, EmptySeq DEF OperandLast, BufsOK
  <2>7. QED
    BY <2>1, <2>5, <2>6 DEF OperandLast
<1>11. FlagsAgree' /\ Waits'
  <2>1. ASSUME NEW i \in DOMAIN scales'
        PROVE  /\ ~NotConst(k) => ~scales'[i].nc
               /\ scales'[i].n \in {2, Overrun}
    <3>1. scales' = Joined(marked) /\ i \in 1..(Len(marked) - 1) /\ i \in DOMAIN scales
      BY <1>2, <1>9 DEF OperandLast
    <3>2. ~NotConst(k) => ~marked[i].nc /\ ~Top(marked).nc
      BY <1>1, <1>4, <3>1, NotConstFlag
    <3>3. QED
      BY <1>9, <3>1, <3>2
  <2>2. notConst' = NotConst(k)
    BY DEF OperandLast
  <2>3. QED
    BY <2>1, <2>2 DEF FlagsAgree, Waits
<1>12. QED
  BY <1>5, <1>7, <1>8, <1>10, <1>11, TypePartsNext DEF TInv

LEMMA OperandFailsTInv == ASSUME TInv, NEW k \in Kinds, OperandFails(k) PROVE TInv'
<1>1. Break(notConst) /\ AllocFails
  BY DEF OperandFails
<1>2. BufsOK'
  BY TInvParts DEF OperandFails, BufsOK, bufs
<1>3. << >> \in Seq(TypesInstr) /\ << >> \in Seq(FnInstr)
  BY EmptySeq
<1>4. CodeOK' /\ nextId' \in Nat
  BY <1>3, EmittedOK, TInvParts DEF OperandFails, CodeOK
<1>5. RestOK'
  BY <1>1, <1>4, BreakOK, TInvParts DEF OperandFails, RestOK, AllocFails
<1>6. QED
  BY <1>1, <1>2, <1>4, <1>5, BreakOK, TypePartsNext DEF TInv

LEMMA OperandLastFailsTInv == ASSUME TInv, NEW k \in Kinds, OperandLastFails(k) PROVE TInv'
<1> DEFINE marked == Marked(k)
           m == Len(scales) - 1
           s == [marked[m] EXCEPT !.nc = @ \/ Top(marked).nc]
<1>1. Break(NotConst(k)) /\ AllocFails /\ pc = "visiting"
  BY DEF OperandLastFails, Value, Visits
<1>2. /\ marked \in Seq(ScaleType) /\ Len(marked) = Len(scales) /\ Len(scales) > 1
      /\ scales \in Seq(ScaleType)
  BY MarkedOK, TInvParts DEF BufsOK, OperandLastFails, Last
<1>3. /\ m \in 1..Len(marked) /\ marked[m] \in ScaleType /\ Top(marked) \in ScaleType
  BY <1>2 DEF Top
<1>4. s \in ScaleType
  BY <1>3 DEF ScaleType
<1>5. scales' = [marked EXCEPT ![m] = s]
  BY DEF OperandLastFails
<1> HIDE DEF s, marked, m
<1>6. scales' \in Seq(ScaleType)
  BY <1>2, <1>3, <1>4, <1>5
<1>7. BufsOK'
  BY <1>6, PoppedOK, TInvParts DEF OperandLastFails, BufsOK
<1>8. CodeOK' /\ nextId' \in Nat
  BY ScrambledOK, EmittedOK, TInvParts DEF OperandLastFails, CodeOK
<1>9. RestOK'
  BY <1>1, <1>8, BreakOK, NotConstFlag, TInvParts DEF OperandLastFails, RestOK, AllocFails
<1>10. QED
  BY <1>1, <1>7, <1>8, <1>9, BreakOK, TypePartsNext DEF TInv

LEMMA NextTInv == ASSUME TInv, [Next]_vars PROVE TInv'
<1>1. CASE Begin \/ BeginFails
  BY <1>1, BeginTInv, BeginFailsTInv
<1>2. CASE \E k \in Kinds : Transparent(k) \/ Operand(k) \/ OperandLast(k)
  BY <1>2, TransparentTInv, OperandTInv, OperandLastTInv
<1>3. CASE \E k \in Kinds : OperandFails(k) \/ OperandLastFails(k)
  BY <1>3, OperandFailsTInv, OperandLastFailsTInv
<1>4. CASE Operator
  BY <1>4, OperatorTInv
<1>5. CASE OperatorFails
  BY <1>5, OperatorFailsTInv
<1>6. CASE OperatorRefused \/ OperandForeign
  BY <1>6, RefusedTInv
<1>7. ASSUME \/ Return \/ Wild \/ Finished \/ UNCHANGED vars PROVE TInv'
  <2>1. /\ UNCHANGED << tree, bufs, notConst, code, idReq, nextId, err, mark, broken,
                        calls, fails >>
        /\ pc' = pc \/ pc' \in {"answered", "crashed"}
        /\ answer' \in {answer, "SUCCESS", "SUCCESS_CONSTANT"}
    BY <1>7 DEF Return, Wild, Finished, vars, Answer
  <2>2. TreeOK' /\ BufsOK' /\ CodeOK'
    BY <2>1, TInvParts DEF TreeOK, BufsOK, CodeOK, tree, bufs, code
  <2>3. RestOK'
    BY <2>1, TInvParts DEF RestOK
  <2>4. FlagsAgree' /\ Waits'
    BY <2>1, TInvParts DEF FlagsAgree, Waits, bufs
  <2>5. QED
    BY <2>2, <2>3, <2>4, TypePartsNext DEF TInv
<1>8. QED
  BY <1>1, <1>2, <1>3, <1>4, <1>5, <1>6, <1>7 DEF Next

\* The variables of the expression compiler keep their types, and what is put
\* among the types of the module is a constant.
THEOREM TypeCorrect == Spec => []TypeOK
<1>1. Init => TInv
  BY InitTInv
<1>2. TInv /\ [Next]_vars => TInv'
  BY NextTInv
<1>3. TInv => TypeOK
  BY DEF TInv
<1>4. QED
  BY <1>1, <1>2, <1>3, PTL DEF Spec
------------------------------------------------------------------------------
\* What a visit leaves behind.  The k-th operator that is open has the scale
\* k + 1; its right operand is the k-th to come, from the end.
Depth == Len(scales) - 1

RightComes(k) ==
    LET place == open[Len(open) - k + 1]
        s == scales[k + 1]
    IN  /\ place.side = "right" /\ place.par \in DOMAIN visit
        /\ visit[place.par].id = s.id
        /\ s.n = 2

RightAwaits(k) == stack[2 * k - 1] = scales[k + 1].y
LeftAwaits(k) == stack[2 * k] = scales[k + 1].x

\* Before the first operator,
AtRoot == /\ Depth = 0 /\ counter = 0 /\ stack = << >>
          /\ Len(open) = 1 /\ open[1].side = "root" /\ open[1].par = 0

\* at the left operand of the innermost operator: both ids of all of them are
\* on the stack,
AtLeft == /\ Depth >= 1 /\ counter = 0
          /\ Len(open) = Depth + 1 /\ Len(stack) = 2 * Depth
          /\ open[1].side = "left" /\ open[1].par \in DOMAIN visit
          /\ visit[open[1].par].id = scales[Depth + 1].id
          /\ \A k \in 1..Depth : RightComes(k) /\ RightAwaits(k) /\ LeftAwaits(k)

\* and at its right one: the innermost left id is gone.
AtRight == /\ Depth >= 1 /\ counter = 1
           /\ Len(open) = Depth /\ Len(stack) = 2 * Depth - 1
           /\ \A k \in 1..Depth : RightComes(k) /\ RightAwaits(k)
           /\ \A k \in 1..(Depth - 1) : LeftAwaits(k)

Shape == (pc = "visiting" /\ LeftDeep /\ open # << >>) =>
             ~wrapped /\ (AtRoot \/ AtLeft \/ AtRight)

\* A node that is passed is the last of the visit, and its operands come next.
LEMMA PassedVisit ==
    ASSUME TypeOK, NEW k \in AllKinds, open # << >>, NEW operands \in Seq(Place),
           Passed(k, operands)
    PROVE  /\ \A i \in DOMAIN visit : i \in DOMAIN visit' /\ visit'[i] = visit[i]
           /\ Len(visit) + 1 \in DOMAIN visit' /\ visit'[Len(visit) + 1].id = CurrentId
           /\ LeftDeep' => /\ LeftDeep /\ k \notin {"unknown", "refused"}
                           /\ k = "op" => open[1].side # "right"
<1> DEFINE node == [kind |-> k, par |-> Head(open).par, side |-> Head(open).side,
                    id |-> CurrentId]
<1>1. visit \in Seq(VisitNode) /\ open \in Seq(Place) /\ Head(open) = open[1]
      /\ CurrentId \in Nat
  BY TypeParts, CurrentIdNat DEF TreeOK
<1>2. node \in VisitNode
  <2>1. Head(open) \in Place
    BY <1>1
  <2>2. QED
    BY <1>1, <2>1 DEF VisitNode, Place
<1>3. visit' = Append(visit, node)
  BY DEF Passed
<1>4. node.kind = k /\ node.side = open[1].side /\ node.id = CurrentId
  BY <1>1
<1> HIDE DEF node
<1>5. /\ Len(visit) \in Nat /\ DOMAIN visit = 1..Len(visit)
      /\ DOMAIN visit' = 1..(Len(visit) + 1)
      /\ \A i \in 1..Len(visit) : visit'[i] = visit[i]
      /\ visit'[Len(visit) + 1] = node
  BY <1>1, <1>2, <1>3
<1>6. \A i \in DOMAIN visit : i \in DOMAIN visit' /\ visit'[i] = visit[i]
  BY <1>5
<1>7. Len(visit) + 1 \in DOMAIN visit' /\ visit'[Len(visit) + 1] = node
  BY <1>5
<1>8. ASSUME LeftDeep'
      PROVE  /\ LeftDeep /\ k \notin {"unknown", "refused"}
             /\ k = "op" => open[1].side # "right"
  <2>1. \A i \in DOMAIN visit' :
            /\ visit'[i].kind \notin {"unknown", "refused"}
            /\ visit'[i].kind = "op" => visit'[i].side # "right"
    BY <1>8 DEF LeftDeep
  <2>2. LeftDeep
    BY <1>6, <2>1, Zenon DEF LeftDeep
  <2>3. QED
    BY <1>4, <1>7, <2>1, <2>2
<1>9. QED
  BY <1>4, <1>6, <1>7, <1>8

LEMMA PassedOpen ==
    ASSUME TypeOK, NEW k \in AllKinds, open # << >>, NEW operands \in Seq(Place),
           Passed(k, operands)
    PROVE  /\ open \in Seq(Place) /\ open' \in Seq(Place) /\ Len(open) \in Nat \ {0}
           /\ Len(open') = Len(operands) + Len(open) - 1
           /\ \A i \in 1..Len(operands) : open'[i] = operands[i]
           /\ \A i \in 1..(Len(open) - 1) : open'[Len(operands) + i] = open[i + 1]
<1>1. open \in Seq(Place) /\ Len(open) \in Nat \ {0}
  BY TypeParts DEF TreeOK
<1>2. /\ Tail(open) \in Seq(Place) /\ Len(Tail(open)) = Len(open) - 1
      /\ \A i \in 1..(Len(open) - 1) : Tail(open)[i] = open[i + 1]
  BY <1>1, HeadTailProperties
<1>3. open' = operands \o Tail(open)
  BY DEF Passed
<1>4. PICK m \in Nat : m = Len(operands)
  <2>1. Len(operands) \in Nat
    BY LenProperties
  <2>2. QED
    BY <2>1
<1>5. PICK n \in Nat : n = Len(Tail(open))
  <2>1. Len(Tail(open)) \in Nat
    BY <1>2, LenProperties
  <2>2. QED
    BY <2>1
<1>6. /\ open' \in Seq(Place) /\ Len(open') = m + n
      /\ \A i \in 1..(m + n) : open'[i] = IF i <= m THEN operands[i] ELSE Tail(open)[i - m]
  BY <1>2, <1>3, <1>4, <1>5, ConcatProperties
<1>7. \A i \in 1..m : open'[i] = operands[i]
  BY <1>6
<1>8. ASSUME NEW i \in 1..n PROVE open'[m + i] = Tail(open)[i]
  <2>1. PICK j \in Nat : j = m + i
    OBVIOUS
  <2>2. j \in 1..(m + n) /\ ~(j <= m) /\ j - m = i
    BY <2>1
  <2>3. open'[j] = IF j <= m THEN operands[j] ELSE Tail(open)[j - m]
    BY <1>6, <2>2, Zenon
  <2>4. QED
    BY <2>1, <2>2, <2>3
<1>9. QED
  BY <1>1, <1>2, <1>4, <1>5, <1>6, <1>7, <1>8

\* An operator that is open stays so while its right operand keeps its place
\* from the end, its scale its contents, and the visit its nodes.
LEMMA RightKept ==
    ASSUME NEW k, RightComes(k),
           \A i \in DOMAIN visit : i \in DOMAIN visit' /\ visit'[i] = visit[i],
           open'[Len(open') - k + 1] = open[Len(open) - k + 1],
           scales'[k + 1].id = scales[k + 1].id, scales'[k + 1].n = scales[k + 1].n
    PROVE  RightComes(k)'
BY DEF RightComes

LEMMA BeginShape == ASSUME TInv, Begin PROVE Shape'
BY DEF Begin, Shape, AtRoot, Depth

\* Parentheses and casts leave the next operand where it is.
LEMMA TransparentShape ==
    ASSUME TInv, Shape, NEW k \in Kinds, Transparent(k) PROVE Shape'
<1> DEFINE operands == [i \in 1..Arity(k) |-> Head(open)]
<1>1. SUFFICES ASSUME LeftDeep' PROVE Shape'
  BY DEF Shape
<1>2. k \in AllKinds /\ open # << >> /\ pc = "visiting" /\ Passed(k, operands)
  BY KindsAssumption DEF Transparent, Visits
<1>3. Head(open) \in Place /\ Head(open) = open[1] /\ Arity(k) \in Nat
  BY <1>2, TInvParts DEF TreeOK, Arity
<1>4. operands \in Seq(Place)
  BY <1>3
<1>5. /\ LeftDeep /\ k = "paren"
      /\ \A i \in DOMAIN visit : i \in DOMAIN visit' /\ visit'[i] = visit[i]
  BY <1>1, <1>2, <1>4, PassedVisit, TInvParts DEF Transparent
<1>6. Len(operands) = 1 /\ operands[1] = open[1]
  BY <1>3, <1>4, <1>5 DEF Arity, Leaves
<1> HIDE DEF operands
<1>7. open' = open
  <2>1. /\ open \in Seq(Place) /\ open' \in Seq(Place) /\ Len(open) \in Nat \ {0}
        /\ Len(open') = 1 + Len(open) - 1
        /\ open'[1] = open[1]
        /\ \A i \in 1..(Len(open) - 1) : open'[1 + i] = open[i + 1]
    BY <1>2, <1>4, <1>6, PassedOpen, TInvParts
  <2>2. PICK m \in Nat : m = Len(open)
    BY <2>1
  <2>3. ASSUME NEW i \in 1..m PROVE open'[i] = open[i]
    <3>1. CASE i = 1
      BY <2>1, <3>1
    <3>2. CASE i # 1
      <4>1. i - 1 \in 1..(m - 1) /\ 1 + (i - 1) = i /\ (i - 1) + 1 = i
        BY <3>2
      <4>2. QED
        BY <2>1, <2>2, <4>1
    <3>3. QED
      BY <3>1, <3>2
  <2>4. Len(open') = m
    BY <2>1, <2>2
  <2>5. QED
    BY <2>1, <2>2, <2>3, <2>4, SeqEqual
<1>8. UNCHANGED << stack, wrapped, scales, counter >>
  BY DEF Transparent, bufs
<1>9. ASSUME NEW j, RightComes(j) PROVE RightComes(j)'
  BY <1>5, <1>7, <1>8, <1>9, RightKept
<1>10. ~wrapped /\ (AtRoot \/ AtLeft \/ AtRight)
  BY <1>2, <1>5 DEF Shape
<1>11. AtRoot => AtRoot'
  BY <1>7, <1>8 DEF AtRoot, Depth
<1>12. AtLeft => AtLeft'
  <2>1. Depth' = Depth
    BY <1>8 DEF Depth
  <2>2. QED
    BY <1>5, <1>7, <1>8, <1>9, <2>1 DEF AtLeft, RightAwaits, LeftAwaits
<1>13. AtRight => AtRight'
  <2>1. Depth' = Depth
    BY <1>8 DEF Depth
  <2>2. QED
    BY <1>7, <1>8, <1>9, <2>1 DEF AtRight, RightAwaits, LeftAwaits
<1>14. QED
  BY <1>8, <1>10, <1>11, <1>12, <1>13 DEF Shape

\* Before an operand is visited no operand of its operator was, unless it is
\* the right one.
LEMMA NotRight ==
    ASSUME TInv, Shape, pc = "visiting", LeftDeep, open # << >>, open[1].side # "right"
    PROVE  /\ AtRoot \/ AtLeft
           /\ Depth \in Nat /\ Len(scales) = Depth + 1 /\ Len(open) = Depth + 1
           /\ Len(stack) = 2 * Depth /\ counter = 0 /\ ~wrapped
           /\ \A k \in 1..Depth : RightComes(k) /\ RightAwaits(k) /\ LeftAwaits(k)
<1>1. scales \in Seq(ScaleType) /\ open \in Seq(Place) /\ stack \in Seq(Nat)
  BY TInvParts DEF BufsOK, TreeOK
<1>2. ~wrapped /\ (AtRoot \/ AtLeft \/ AtRight)
  BY DEF Shape
<1>3. ~AtRight
  <2> SUFFICES ASSUME AtRight PROVE FALSE
    OBVIOUS
  <2>1. PICK d : d = Depth
    OBVIOUS
  <2>2. d \in Int /\ d >= 1 /\ Len(open) = d /\ RightComes(d)
    BY <1>1, <2>1 DEF AtRight, Depth
  <2>3. Len(open) - d + 1 = 1
    BY <2>2
  <2>4. QED
    BY <2>2, <2>3 DEF RightComes
<1>4. CASE AtRoot
  <2>1. Depth = 0 /\ counter = 0 /\ Len(stack) = 0 /\ Len(open) = 1 /\ Len(scales) = 1
    BY <1>1, <1>4 DEF AtRoot, Depth
  <2>2. \A k : k \notin 1..0
    OBVIOUS
  <2>3. 0 \in Nat /\ 1 = 0 + 1 /\ 0 = 2 * 0
    OBVIOUS
  <2>4. \A k \in 1..Depth : RightComes(k) /\ RightAwaits(k) /\ LeftAwaits(k)
    BY <2>1, <2>2, Zenon
  <2>5. QED
    BY <1>2, <1>4, <2>1, <2>3, <2>4
<1>5. CASE AtLeft
  BY <1>1, <1>2, <1>5 DEF AtLeft, Depth
<1>6. QED
  BY <1>2, <1>3, <1>4, <1>5

LEMMA OperatorShape == ASSUME TInv, Shape, Operator PROVE Shape'
<1>1. SUFFICES ASSUME LeftDeep' PROVE Shape'
  BY DEF Shape
<1>2. /\ open # << >> /\ pc = "visiting" /\ Passed("op", Operands) /\ "op" \in AllKinds
      /\ Operands \in Seq(Place) /\ Len(Operands) = 2
  BY OperandsOK, TInvParts DEF Operator, Visits, AllKinds, Operands
<1>3. /\ LeftDeep /\ open[1].side # "right"
      /\ \A i \in DOMAIN visit : i \in DOMAIN visit' /\ visit'[i] = visit[i]
      /\ Len(visit) + 1 \in DOMAIN visit' /\ visit'[Len(visit) + 1].id = CurrentId
  BY <1>1, <1>2, PassedVisit, TInvParts
<1>4. PICK d \in Nat : d = Depth
  BY <1>2, <1>3, NotRight
<1>5. /\ Len(scales) = d + 1 /\ Len(open) = d + 1 /\ Len(stack) = 2 * d
      /\ counter = 0 /\ ~wrapped
      /\ \A k \in 1..d : RightComes(k) /\ RightAwaits(k) /\ LeftAwaits(k)
  BY <1>2, <1>3, <1>4, NotRight
<1>6. PICK at : at = Len(visit) + 1
  OBVIOUS
<1>7. /\ Len(open') = d + 2
      /\ open'[1] = [par |-> at, side |-> "left"]
      /\ open'[2] = [par |-> at, side |-> "right"]
      /\ \A k \in 1..d : open'[d + 2 - k + 1] = open[d + 1 - k + 1]
  <2>1. /\ Len(open') = 2 + (d + 1) - 1
        /\ \A i \in 1..2 : open'[i] = Operands[i]
        /\ \A i \in 1..(d + 1 - 1) : open'[2 + i] = open[i + 1]
    <3>1. /\ Len(open') = Len(Operands) + Len(open) - 1
          /\ \A i \in 1..Len(Operands) : open'[i] = Operands[i]
          /\ \A i \in 1..(Len(open) - 1) : open'[Len(Operands) + i] = open[i + 1]
      BY <1>2, PassedOpen, TInvParts
    <3> QED
      BY <1>2, <1>5, <3>1
  <2>2. /\ Operands[1] = [par |-> at, side |-> "left"]
        /\ Operands[2] = [par |-> at, side |-> "right"]
    BY <1>6 DEF Operands
  <2>3. ASSUME NEW k \in 1..d PROVE open'[d + 2 - k + 1] = open[d + 1 - k + 1]
    <3>1. PICK i \in Nat : i = d + 1 - k
      OBVIOUS
    <3>2. i \in 1..(d + 1 - 1) /\ 2 + i = d + 2 - k + 1 /\ i + 1 = d + 1 - k + 1
      BY <3>1
    <3>3. open'[2 + i] = open[i + 1]
      BY <2>1, <3>2
    <3>4. QED
      BY <3>2, <3>3
  <2>4. 2 + (d + 1) - 1 = d + 2 /\ 1 \in 1..2 /\ 2 \in 1..2
    OBVIOUS
  <2>5. open'[1] = Operands[1] /\ open'[2] = Operands[2]
    BY <2>1, <2>4
  <2>6. QED
    BY <2>1, <2>2, <2>3, <2>4, <2>5
<1>8. /\ Len(scales') = d + 2 /\ scales'[d + 2] = NewScale
      /\ \A k \in 1..d : scales'[k + 1] = scales[k + 1]
  <2>1. PICK o : o = Overlapped(scales)
    OBVIOUS
  <2>2. /\ o \in Seq(ScaleType) /\ Len(o) = d + 1
        /\ \A i \in 2..(d + 1) : o[i] = scales[i]
    BY <1>5, <2>1, OverlappedOK, TInvParts
  <2>3. scales' = Append(o, NewScale)
    BY <2>1 DEF Operator
  <2>4. PICK s : s = Append(o, NewScale)
    OBVIOUS
  <2>5. Len(s) = d + 2 /\ s[d + 2] = NewScale /\ \A i \in 1..(d + 1) : s[i] = o[i]
    BY <2>2, <2>4
  <2>6. \A k \in 1..d : k + 1 \in 2..(d + 1) /\ k + 1 \in 1..(d + 1)
    OBVIOUS
  <2>7. QED
    BY <2>2, <2>3, <2>4, <2>5, <2>6
<1>9. /\ Len(stack') = 2 * (d + 1)
      /\ stack'[2 * (d + 1) - 1] = NewScale.y /\ stack'[2 * (d + 1)] = NewScale.x
      /\ \A k \in 1..d : /\ stack'[2 * k - 1] = stack[2 * k - 1]
                         /\ stack'[2 * k] = stack[2 * k]
  <2>1. PICK s : s = stack \o << nextId + 1, nextId >>
    OBVIOUS
  <2>2. stack \in Seq(Nat) /\ nextId \in Nat
    BY TInvParts DEF BufsOK, RestOK
  <2>3. PICK m \in Nat : m = 2 * d
    OBVIOUS
  <2>4. /\ Len(s) = m + 2 /\ s[m + 1] = nextId + 1 /\ s[m + 2] = nextId
        /\ \A j \in 1..m : s[j] = stack[j]
    <3>0. PICK y \in Nat, x \in Nat : y = nextId + 1 /\ x = nextId
      BY <2>2
    <3> DEFINE two == << y, x >>
    <3>1. two \in Seq(Nat) /\ << nextId + 1, nextId >> = two
      BY <3>0
    <3>2. Len(two) = 2 /\ two[1] = nextId + 1 /\ two[2] = nextId
      BY <3>0, <3>1
    <3>3. Len(stack) = m
      BY <1>5, <2>3
    <3>4. /\ Len(s) = m + 2
          /\ \A j \in 1..(m + 2) : s[j] = IF j <= m THEN stack[j] ELSE two[j - m]
      BY <2>1, <2>2, <3>0, <3>1, <3>2, <3>3, ConcatProperties
    <3>5. s[m + 1] = two[1] /\ s[m + 2] = two[2]
      BY <3>4
    <3>6. \A j \in 1..m : s[j] = stack[j]
      BY <3>4
    <3>7. QED
      BY <3>2, <3>4, <3>5, <3>6
  <2>5. \A k \in 1..d : 2 * k - 1 \in 1..m /\ 2 * k \in 1..m
    BY <2>3
  <2>6. 2 * (d + 1) = m + 2 /\ 2 * (d + 1) - 1 = m + 1
    BY <2>3
  <2>7. stack' = s
    BY <2>1 DEF Operator
  <2>8. QED
    BY <2>4, <2>5, <2>6, <2>7 DEF NewScale
<1>10. Depth' = d + 1
  <2>1. Len(scales') - 1 = (d + 2) - 1
    BY <1>8
  <2>2. QED
    BY <2>1 DEF Depth
<1>11. ASSUME NEW k \in 1..d
       PROVE  RightComes(k)' /\ RightAwaits(k)' /\ LeftAwaits(k)'
  <2>1. RightComes(k) /\ RightAwaits(k) /\ LeftAwaits(k)
    BY <1>5
  <2>2. scales'[k + 1] = scales[k + 1]
    BY <1>8
  <2>3. open'[Len(open') - k + 1] = open[Len(open) - k + 1]
    BY <1>5, <1>7
  <2>4. RightComes(k)'
    BY <1>3, <2>1, <2>2, <2>3, RightKept
  <2>5. QED
    BY <1>9, <2>1, <2>2, <2>4 DEF RightAwaits, LeftAwaits
<1>12. RightComes(d + 1)' /\ RightAwaits(d + 1)' /\ LeftAwaits(d + 1)'
  <2>1. (d + 1) + 1 = d + 2 /\ (d + 2) - (d + 1) + 1 = 2
    OBVIOUS
  <2>2. open'[Len(open') - (d + 1) + 1] = [par |-> at, side |-> "right"]
    BY <1>7, <2>1
  <2>3. /\ scales'[(d + 1) + 1] = NewScale /\ NewScale.n = 2
        /\ at \in DOMAIN visit' /\ visit'[at].id = NewScale.id
    BY <1>3, <1>6, <1>8, <2>1 DEF NewScale
  <2>4. RightComes(d + 1)'
    BY <2>2, <2>3 DEF RightComes
  <2>5. QED
    BY <1>9, <2>3, <2>4 DEF RightAwaits, LeftAwaits
<1>13. AtLeft'
  <2>1. ASSUME NEW k \in 1..(d + 1)
        PROVE  RightComes(k)' /\ RightAwaits(k)' /\ LeftAwaits(k)'
    <3>1. k \in 1..d \/ k = d + 1
      OBVIOUS
    <3>2. QED
      BY <1>11, <1>12, <3>1
  <2>2. /\ open'[1].side = "left" /\ open'[1].par \in DOMAIN visit'
        /\ visit'[open'[1].par].id = scales'[(d + 1) + 1].id
    <3>1. (d + 1) + 1 = d + 2
      OBVIOUS
    <3>2. QED
      BY <1>3, <1>6, <1>7, <1>8, <3>1 DEF NewScale
  <2>3. counter' = 0
    BY <1>5 DEF Operator
  <2>4. d + 1 >= 1 /\ d + 2 = (d + 1) + 1
    OBVIOUS
  <2>5. QED
    BY <1>7, <1>9, <1>10, <2>1, <2>2, <2>3, <2>4 DEF AtLeft
<1>14. QED
  BY <1>5, <1>13 DEF Shape, Operator

\* A leaf leaves the operands behind it.
LEMMA ValueOpen ==
    ASSUME TInv, NEW k \in AllKinds, open # << >>, Passed(k, << >>)
    PROVE  /\ open' \in Seq(Place) /\ Len(open') = Len(open) - 1
           /\ \A i \in 1..(Len(open) - 1) : open'[i] = open[i + 1]
<1>1. << >> \in Seq(Place) /\ Len(<< >>) = 0
  BY EmptySeq
<1>2. /\ Len(open) \in Nat \ {0} /\ open' \in Seq(Place)
      /\ Len(open') = 0 + Len(open) - 1
      /\ \A i \in 1..(Len(open) - 1) : open'[0 + i] = open[i + 1]
  BY <1>1, PassedOpen, TInvParts
<1>3. ASSUME NEW i \in 1..(Len(open) - 1) PROVE open'[i] = open[i + 1]
  <2>1. 0 + i = i
    OBVIOUS
  <2>2. QED
    BY <1>2, <2>1
<1>4. 0 + Len(open) - 1 = Len(open) - 1
  BY <1>2
<1>5. QED
  BY <1>2, <1>3, <1>4

\* At the right operand of the innermost operator.
LEMMA RightParts ==
    ASSUME TInv, AtRight
    PROVE  \E d \in Nat \ {0} :
              /\ d = Depth /\ Len(scales) = d + 1 /\ Len(open) = d
              /\ Len(stack) = 2 * d - 1 /\ counter = 1
              /\ \A k \in 1..d : RightComes(k) /\ RightAwaits(k)
              /\ \A k \in 1..(d - 1) : LeftAwaits(k)
<1>1. scales \in Seq(ScaleType)
  BY TInvParts DEF BufsOK
<1>2. PICK d : d = Depth
  OBVIOUS
<1>3. d \in Nat \ {0} /\ Len(scales) = d + 1
  BY <1>1, <1>2 DEF AtRight, Depth
<1>4. /\ Len(open) = d /\ Len(stack) = 2 * d - 1 /\ counter = 1
      /\ \A k \in 1..d : RightComes(k) /\ RightAwaits(k)
      /\ \A k \in 1..(d - 1) : LeftAwaits(k)
  BY <1>2 DEF AtRight
<1>5. QED
  BY <1>2, <1>3, <1>4

\* The innermost operator waits for two operands.
LEMMA TopWaits ==
    ASSUME TInv, NEW d \in Nat \ {0}, Len(scales) = d + 1, RightComes(d)
    PROVE  /\ Top(scales).n = 2
           /\ counter = 0 => ~Last
           /\ counter = 1 => Last
<1>1. Top(scales).n = 2
  BY DEF Top, RightComes
<1>2. 0 + 1 # 2 /\ 1 + 1 = 2 /\ d + 1 > 1
  OBVIOUS
<1>3. QED
  BY <1>1, <1>2 DEF Last

LEMMA OperandShape == ASSUME TInv, Shape, NEW k \in Kinds, Operand(k) PROVE Shape'
<1>1. SUFFICES ASSUME LeftDeep', open' # << >> PROVE Shape'
  BY DEF Shape
<1>2. /\ open # << >> /\ pc = "visiting" /\ k \in AllKinds /\ Passed(k, << >>)
      /\ << >> \in Seq(Place) /\ ~Last
  BY KindsAssumption, EmptySeq DEF Operand, Value, Visits
<1>3. /\ LeftDeep
      /\ \A i \in DOMAIN visit : i \in DOMAIN visit' /\ visit'[i] = visit[i]
  BY <1>1, <1>2, PassedVisit, TInvParts
<1>4. /\ open' \in Seq(Place) /\ Len(open') = Len(open) - 1
      /\ \A i \in 1..(Len(open) - 1) : open'[i] = open[i + 1]
  BY <1>2, ValueOpen
<1>5. ~wrapped /\ (AtRoot \/ AtLeft \/ AtRight)
  BY <1>2, <1>3 DEF Shape
<1>6. ~AtRoot
  <2>1. Len(open) = 1 => Len(open') = 0
    BY <1>4
  <2>2. Len(open) # 1
    BY <1>1, <1>4, <2>1, EmptySeq
  <2>3. QED
    BY <2>2 DEF AtRoot
<1>7. ~AtRight
  BY <1>2, RightParts, TopWaits
<1>8. AtLeft /\ open[1].side # "right"
  BY <1>5, <1>6, <1>7 DEF AtLeft
<1>9. PICK d \in Nat : d = Depth
  BY <1>2, <1>3, <1>8, NotRight
<1>10. /\ Len(scales) = d + 1 /\ Len(open) = d + 1 /\ Len(stack) = 2 * d
       /\ counter = 0 /\ d >= 1
       /\ \A j \in 1..d : RightComes(j) /\ RightAwaits(j) /\ LeftAwaits(j)
  <2>1. Depth >= 1
    BY <1>8 DEF AtLeft
  <2>2. QED
    BY <1>2, <1>3, <1>8, <1>9, <2>1, NotRight
<1>11. /\ Len(open') = d
       /\ \A j \in 1..d : open'[d - j + 1] = open[d + 1 - j + 1]
  <2>1. /\ Len(open') = d + 1 - 1
        /\ \A i \in 1..(d + 1 - 1) : open'[i] = open[i + 1]
    BY <1>4, <1>10
  <2>2. ASSUME NEW j \in 1..d PROVE open'[d - j + 1] = open[d + 1 - j + 1]
    <3>1. PICK i \in Nat : i = d - j + 1
      OBVIOUS
    <3>2. i \in 1..(d + 1 - 1) /\ i + 1 = d + 1 - j + 1
      BY <3>1
    <3>3. QED
      BY <2>1, <3>1, <3>2
  <2>3. d + 1 - 1 = d
    OBVIOUS
  <2>4. QED
    BY <2>1, <2>2, <2>3
<1>12. /\ Len(scales') = d + 1
       /\ \A j \in 1..d : /\ scales'[j + 1].id = scales[j + 1].id
                          /\ scales'[j + 1].n = scales[j + 1].n
                          /\ scales'[j + 1].x = scales[j + 1].x
                          /\ scales'[j + 1].y = scales[j + 1].y
  <2>1. scales \in Seq(ScaleType)
    BY TInvParts DEF BufsOK
  <2>2. \A j \in 1..d : j + 1 \in DOMAIN scales
    BY <1>10, <2>1
  <2>3. scales' = Marked(k)
    BY DEF Operand
  <2>4. QED
    BY <1>10, <2>2, <2>3, MarkedOK, TInvParts
<1>13. /\ Len(stack') = 2 * d - 1
       /\ \A j \in 1..(2 * d - 1) : stack'[j] = stack[j]
  <2>1. stack # << >> /\ stack' = Popped
    BY <1>10 DEF Operand
  <2>2. QED
    BY <1>10, <2>1, PoppedOK, TInvParts
<1>14. Depth' = d /\ counter' = 1
  <2>1. Len(scales') - 1 = (d + 1) - 1 /\ counter' = 0 + 1
    BY <1>10, <1>12 DEF Operand
  <2>2. QED
    BY <2>1 DEF Depth
<1>15. ASSUME NEW j \in 1..d PROVE RightComes(j)' /\ RightAwaits(j)'
  <2>1. RightComes(j) /\ RightAwaits(j) /\ 2 * j - 1 \in 1..(2 * d - 1)
    BY <1>10
  <2>2. open'[Len(open') - j + 1] = open[Len(open) - j + 1]
    BY <1>10, <1>11
  <2>3. RightComes(j)'
    BY <1>3, <1>12, <2>1, <2>2, RightKept
  <2>4. QED
    BY <1>12, <1>13, <2>1, <2>3 DEF RightAwaits
<1>16. ASSUME NEW j \in 1..(d - 1) PROVE LeftAwaits(j)'
  <2>1. j \in 1..d /\ 2 * j \in 1..(2 * d - 1)
    OBVIOUS
  <2>2. LeftAwaits(j)
    BY <1>10, <2>1
  <2>3. QED
    BY <1>12, <1>13, <2>1, <2>2 DEF LeftAwaits
<1>17. AtRight'
  BY <1>10, <1>11, <1>13, <1>14, <1>15, <1>16 DEF AtRight
<1>18. QED
  BY <1>5, <1>17 DEF Shape, Operand

\* The right operand of an operator completes it: the scale before it becomes
\* the innermost one, and the id of its left operand, visited already, leaves
\* the stack.
LEMMA OperandLastShape ==
    ASSUME TInv, Shape, NEW k \in Kinds, OperandLast(k) PROVE Shape'
<1>1. SUFFICES ASSUME LeftDeep', open' # << >> PROVE Shape'
  BY DEF Shape
<1>2. /\ open # << >> /\ pc = "visiting" /\ k \in AllKinds /\ Passed(k, << >>)
      /\ << >> \in Seq(Place) /\ Last
  BY KindsAssumption, EmptySeq DEF OperandLast, Value, Visits
<1>3. /\ LeftDeep
      /\ \A i \in DOMAIN visit : i \in DOMAIN visit' /\ visit'[i] = visit[i]
  BY <1>1, <1>2, PassedVisit, TInvParts
<1>4. /\ open' \in Seq(Place) /\ Len(open') = Len(open) - 1
      /\ \A i \in 1..(Len(open) - 1) : open'[i] = open[i + 1]
  BY <1>2, ValueOpen
<1>5. ~wrapped /\ (AtRoot \/ AtLeft \/ AtRight)
  BY <1>2, <1>3 DEF Shape
<1>6. ~AtRoot
  <2>1. Len(scales) > 1 /\ scales \in Seq(ScaleType)
    BY <1>2, TInvParts DEF Last, BufsOK
  <2>2. PICK n \in Nat : n = Len(scales)
    BY <2>1, LenProperties
  <2>3. n > 1
    BY <2>1, <2>2
  <2>4. n - 1 # 0
    BY <2>3
  <2>5. QED
    BY <2>2, <2>4 DEF AtRoot, Depth
<1>7. ~AtLeft
  <2> SUFFICES ASSUME AtLeft PROVE FALSE
    OBVIOUS
  <2>1. open[1].side # "right"
    BY DEF AtLeft
  <2>2. PICK d \in Nat : d = Depth
    BY <1>2, <1>3, <2>1, NotRight
  <2>3. d >= 1
    BY <2>2 DEF AtLeft
  <2>4. Len(scales) = d + 1 /\ counter = 0 /\ RightComes(d)
    BY <1>2, <1>3, <2>1, <2>2, <2>3, NotRight
  <2>5. QED
    BY <1>2, <2>3, <2>4, TopWaits
<1>8. PICK d \in Nat \ {0} :
           /\ d = Depth /\ Len(scales) = d + 1 /\ Len(open) = d
           /\ Len(stack) = 2 * d - 1 /\ counter = 1
           /\ \A j \in 1..d : RightComes(j) /\ RightAwaits(j)
           /\ \A j \in 1..(d - 1) : LeftAwaits(j)
  BY <1>5, <1>6, <1>7, RightParts
<1>9. d - 1 \in Nat \ {0}
  <2>1. d = 1 => Len(open') = 0
    BY <1>4, <1>8
  <2>2. QED
    BY <1>1, <1>4, <2>1, EmptySeq
<1>10. /\ Len(open') = d - 1
       /\ \A j \in 1..(d - 1) : open'[(d - 1) - j + 1] = open[d - j + 1]
  <2>1. /\ Len(open') = d - 1
        /\ \A i \in 1..(d - 1) : open'[i] = open[i + 1]
    BY <1>4, <1>8
  <2>2. ASSUME NEW j \in 1..(d - 1) PROVE open'[(d - 1) - j + 1] = open[d - j + 1]
    <3>1. PICK i \in Nat : i = (d - 1) - j + 1
      OBVIOUS
    <3>2. i \in 1..(d - 1) /\ i + 1 = d - j + 1
      BY <3>1
    <3>3. QED
      BY <2>1, <3>1, <3>2
  <2>3. QED
    BY <2>1, <2>2
<1>11. PICK marked : marked = Marked(k)
  OBVIOUS
<1>12. /\ marked \in Seq(ScaleType) /\ Len(marked) = d + 1
       /\ \A j \in 1..d : /\ marked[j + 1].id = scales[j + 1].id
                          /\ marked[j + 1].n = scales[j + 1].n
                          /\ marked[j + 1].x = scales[j + 1].x
                          /\ marked[j + 1].y = scales[j + 1].y
  <2>1. scales \in Seq(ScaleType)
    BY TInvParts DEF BufsOK
  <2>2. \A j \in 1..d : j + 1 \in DOMAIN scales
    BY <1>8, <2>1
  <2>3. QED
    BY <1>8, <1>11, <2>2, MarkedOK, TInvParts
<1>13. /\ Len(Joined(marked)) = d
       /\ \A j \in 1..(d - 1) : /\ Joined(marked)[j + 1].id = scales[j + 1].id
                                /\ Joined(marked)[j + 1].n = scales[j + 1].n
                                /\ Joined(marked)[j + 1].x = scales[j + 1].x
                                /\ Joined(marked)[j + 1].y = scales[j + 1].y
  <2>1. Len(marked) > 1
    BY <1>12
  <2>2. /\ Len(Joined(marked)) = Len(marked) - 1
        /\ \A i \in 1..(Len(marked) - 1) :
               /\ Joined(marked)[i].n = marked[i].n /\ Joined(marked)[i].id = marked[i].id
               /\ Joined(marked)[i].x = marked[i].x /\ Joined(marked)[i].y = marked[i].y
    BY <1>12, <2>1, JoinedOK
  <2>3. ASSUME NEW j \in 1..(d - 1)
        PROVE  j + 1 \in 1..(Len(marked) - 1) /\ j \in 1..d
    BY <1>12
  <2>4. QED
    BY <1>12, <2>2, <2>3
<1>14. scales' = Joined(marked)
  BY <1>11 DEF OperandLast
<1>15. Joined(marked)[Len(scales) - 1].n = 2
  <2>1. d - 1 \in 1..(d - 1) /\ d - 1 \in 1..d /\ (d - 1) + 1 = d /\ Len(scales) - 1 = d
    BY <1>8, <1>9
  <2>2. RightComes(d - 1)
    BY <1>8, <2>1
  <2>3. scales[d].n = 2
    BY <2>1, <2>2 DEF RightComes
  <2>4. Joined(marked)[(d - 1) + 1].n = scales[(d - 1) + 1].n
    BY <1>13, <2>1
  <2>5. QED
    BY <2>1, <2>3, <2>4
<1>16. PICK m \in Nat : m = 2 * d - 3
  BY <1>9
<1>17. /\ Popped \in Seq(Nat) /\ Len(Popped) = m + 1
       /\ \A j \in 1..(m + 1) : Popped[j] = stack[j]
  <2>1. stack # << >> /\ 2 * d - 1 - 1 = m + 1
    BY <1>8, <1>9, <1>16
  <2>2. QED
    BY <1>8, <2>1, PoppedOK, TInvParts
<1>18. ~wrapped' /\ stack' = SubSeq(Popped, 1, m)
  <2>1. ~(2 - 1 > m + 1) /\ m + 1 - (2 - 1) = m
    OBVIOUS
  <2>2. \/ stack' = SubSeq(Popped, 1, Len(Popped) - (2 - 1)) /\ UNCHANGED wrapped
        \/ 2 - 1 > Len(Popped)
    BY <1>11, <1>15 DEF OperandLast
  <2>3. QED
    BY <1>5, <1>17, <2>1, <2>2
<1>19. Len(stack') = m /\ \A j \in 1..m : stack'[j] = stack[j]
  <2>1. \A j \in 1..m : j \in 1..(m + 1) /\ Popped[j] \in Nat
    BY <1>17
  <2>2. PICK s : s = SubSeq(Popped, 1, m)
    OBVIOUS
  <2>3. Len(s) = m /\ \A j \in 1..m : s[j] = Popped[j]
    BY <1>17, <2>1, <2>2
  <2>4. QED
    BY <1>17, <1>18, <2>1, <2>2, <2>3
<1>20. Depth' = d - 1 /\ counter' = 1
  BY <1>13, <1>14 DEF Depth, OperandLast
<1>21. ASSUME NEW j \in 1..(d - 1) PROVE RightComes(j)' /\ RightAwaits(j)'
  <2>1. j \in 1..d /\ 2 * j - 1 \in 1..m
    BY <1>16
  <2>2. RightComes(j) /\ RightAwaits(j)
    BY <1>8, <2>1
  <2>3. open'[Len(open') - j + 1] = open[Len(open) - j + 1]
    BY <1>8, <1>10
  <2>4. RightComes(j)'
    BY <1>3, <1>13, <1>14, <2>2, <2>3, RightKept
  <2>5. QED
    BY <1>13, <1>14, <1>19, <2>1, <2>2, <2>4 DEF RightAwaits
<1>22. ASSUME NEW j \in 1..((d - 1) - 1) PROVE LeftAwaits(j)'
  <2>1. j \in 1..(d - 1) /\ 2 * j \in 1..m
    BY <1>16
  <2>2. LeftAwaits(j)
    BY <1>8, <2>1
  <2>3. QED
    BY <1>13, <1>14, <1>19, <2>1, <2>2 DEF LeftAwaits
<1>23. AtRight'
  <2>1. m = 2 * (d - 1) - 1 /\ d - 1 >= 1
    BY <1>9, <1>16
  <2>2. Len(stack') = 2 * (d - 1) - 1
    BY <1>19, <2>1
  <2>3. QED
    BY <1>10, <1>20, <1>21, <1>22, <2>1, <2>2 DEF AtRight
<1>24. QED
  BY <1>18, <1>23 DEF Shape

LEMMA NextShape == ASSUME TInv, Shape, [Next]_vars PROVE Shape'
<1>1. ASSUME pc' # "visiting" PROVE Shape'
  BY <1>1 DEF Shape
<1>2. ASSUME UNCHANGED << pc, open, visit, bufs >> PROVE Shape'
  BY <1>2 DEF Shape, LeftDeep, AtRoot, AtLeft, AtRight, Depth, RightComes, RightAwaits,
              LeftAwaits, bufs
<1>3. CASE Begin
  BY <1>3, BeginShape
<1>4. CASE \E k \in Kinds : Transparent(k) \/ Operand(k) \/ OperandLast(k)
  BY <1>4, TransparentShape, OperandShape, OperandLastShape
<1>5. CASE Operator
  BY <1>5, OperatorShape
<1>6. CASE \/ BeginFails \/ OperatorFails \/ OperatorRefused \/ OperandForeign
           \/ \E k \in Kinds : OperandFails(k) \/ OperandLastFails(k)
  BY <1>1, <1>6 DEF BeginFails, OperatorFails, OperatorRefused, OperandForeign,
                    OperandFails, OperandLastFails, Break
<1>7. CASE Return \/ Wild
  BY <1>1, <1>7 DEF Return, Wild
<1>8. CASE Finished \/ UNCHANGED vars
  BY <1>2, <1>8 DEF Finished, vars, tree
<1>9. QED
  BY <1>3, <1>4, <1>5, <1>6, <1>7, <1>8 DEF Next

LEMMA ShapeAwaited == ASSUME TInv, Shape PROVE Awaited
<1>1. SUFFICES ASSUME pc = "visiting", LeftDeep, open # << >>
              PROVE  /\ ~wrapped
                     /\ Head(open).par = 0 => stack = << >>
                     /\ Head(open).par # 0 =>
                           LET s == Top(scales) IN
                           /\ s.id = visit[Head(open).par].id
                           /\ CurrentId = IF Head(open).side = "left" THEN s.x ELSE s.y
                           /\ counter = IF Head(open).side = "left" THEN 0 ELSE 1
  BY DEF Awaited
<1>2. /\ scales \in Seq(ScaleType) /\ open \in Seq(Place) /\ stack \in Seq(Nat)
      /\ visit \in Seq(VisitNode) /\ Head(open) = open[1]
  BY TInvParts DEF BufsOK, TreeOK
<1>3. ~wrapped /\ (AtRoot \/ AtLeft \/ AtRight)
  BY <1>1 DEF Shape
<1>4. CASE AtRoot
  BY <1>2, <1>3, <1>4 DEF AtRoot
<1>5. \A i \in DOMAIN visit : i # 0
  BY <1>2
<1>6. CASE AtLeft
  <2>1. open[1].side = "left" /\ open[1].par # 0
    BY <1>5, <1>6 DEF AtLeft
  <2>2. PICK d \in Nat : d = Depth
    BY <1>1, <2>1, NotRight
  <2>3. d >= 1
    BY <1>6, <2>2 DEF AtLeft
  <2>4. /\ Len(scales) = d + 1 /\ Len(stack) = 2 * d /\ counter = 0 /\ LeftAwaits(d)
        /\ visit[open[1].par].id = scales[d + 1].id
    BY <1>1, <1>6, <2>1, <2>2, <2>3, NotRight DEF AtLeft
  <2>5. stack # << >>
    BY <1>2, <2>3, <2>4
  <2>6. CurrentId = Top(scales).x
    BY <2>4, <2>5 DEF CurrentId, Top, LeftAwaits
  <2>7. QED
    BY <1>2, <1>3, <2>1, <2>4, <2>6 DEF Top
<1>7. CASE AtRight
  <2>1. PICK d \in Nat \ {0} :
            /\ d = Depth /\ Len(scales) = d + 1 /\ Len(open) = d
            /\ Len(stack) = 2 * d - 1 /\ counter = 1
            /\ \A j \in 1..d : RightComes(j) /\ RightAwaits(j)
    BY <1>7, RightParts
  <2>2. RightComes(d) /\ RightAwaits(d) /\ d - d + 1 = 1
    BY <2>1
  <2>3. /\ open[1].side = "right" /\ open[1].par # 0
        /\ visit[open[1].par].id = scales[d + 1].id
    BY <1>5, <2>1, <2>2 DEF RightComes
  <2>4. stack # << >>
    BY <1>2, <2>1
  <2>5. CurrentId = Top(scales).y
    BY <2>1, <2>2, <2>4 DEF CurrentId, Top, RightAwaits
  <2>6. QED
    BY <1>2, <1>3, <2>1, <2>3, <2>5 DEF Top
<1>8. QED
  BY <1>3, <1>4, <1>6, <1>7

\* The operand that is visited next finds its id on top of the operand stack,
\* and the counter says which of the two it is, however deep the expression is
\* nested to the left.
THEOREM AwaitedAlways == Spec => []Awaited
<1>1. Init => TInv /\ Shape
  BY InitTInv DEF Init, Shape
<1>2. TInv /\ Shape /\ [Next]_vars => (TInv /\ Shape)'
  BY NextTInv, NextShape
<1>3. TInv /\ Shape => Awaited
  BY ShapeAwaited
<1>4. QED
  BY <1>1, <1>2, <1>3, PTL DEF Spec
------------------------------------------------------------------------------
\* The code of this call in each section.
NewTypes == Tail2(types, mark[1])
NewFn == Tail2(fnimpl, mark[2])

Ids(s) == { s[i].id : i \in DOMAIN s }
Defined == Ids(NewTypes) \cup Ids(NewFn)

\* Every id is defined once, by an instruction that comes after those of its
\* operands; D is defined before the section.
Once(s) == \A i, j \in DOMAIN s : s[i].id = s[j].id => i = j
After(s, D) == \A i \in DOMAIN s : \A a \in DOMAIN s[i].args :
                   s[i].args[a] \in D \/ \E j \in 1..(i - 1) : s[j].id = s[i].args[a]

\* The code of a call whose ids are the ones from first on, below next.
Good(T, F, first, next) ==
    /\ Once(T) /\ Once(F) /\ Ids(T) \cap Ids(F) = {}
    /\ Ids(T) \cup Ids(F) \subseteq first..(next - 1)
    /\ After(T, {}) /\ After(F, Ids(T))
    /\ \A i \in DOMAIN T : T[i].op \in {"Constant", "SpecConstantOp"}
    /\ \A i \in DOMAIN F : F[i].op # "SpecConstantOp"

\* The operators before the first leaf are made one after the other, and the
\* k-th awaits its operands under the 2k-1-th and the 2k-th id of the call; it
\* is itself the left operand of the one before it.
Numbered(s, k, first) ==
    /\ s.x = first + 2 * k - 1 /\ s.y = first + 2 * k
    /\ s.id = IF k = 1 THEN first ELSE first + 2 * k - 3

\* Before the first leaf there is no code.  After it the left operand of the
\* innermost operator is defined, its right one is not, and neither is an id
\* that is older.
Untouched == /\ NewTypes = << >> /\ NewFn = << >> /\ ~notConst
             /\ nextId = idReq + 1 + 2 * Depth

Halfway == /\ idReq + 2 * Depth - 1 \in Defined
           /\ \A v \in Defined : v >= idReq + 2 * Depth - 1 /\ v # idReq + 2 * Depth
           /\ nextId > idReq + 2 * Depth
           /\ notConst => Top(scales).nc

Visited == /\ \A k \in 1..Depth : Numbered(scales[k + 1], k, idReq)
           /\ IF counter = 0 THEN Untouched ELSE Halfway

CodeIs == /\ mark[1] <= Len(types) /\ mark[2] <= Len(fnimpl)
          /\ Good(NewTypes, NewFn, idReq, nextId)
          /\ ~notConst => NewFn = << >>
          /\ open = << >> => stack = << >> /\ Len(scales) <= 1
          /\ open # << >> => Visited

CodeInv == /\ pc \in {"idle", "answered"} => open = << >>
           /\ Sound => CodeIs

\* t is s with a behind it.
Adds(s, a, t, n) == /\ DOMAIN s = 1..n /\ DOMAIN t = 1..(n + 1)
                    /\ t[n + 1] = a /\ \A i \in 1..n : t[i] = s[i]
                    /\ Ids(t) = Ids(s) \cup {a.id}

LEMMA Appending ==
    ASSUME NEW S, NEW s \in Seq(S), NEW a \in S, NEW t, t = Append(s, a)
    PROVE  t \in Seq(S) /\ \E n \in Nat : Adds(s, a, t, n)
<1>1. PICK n \in Nat : n = Len(s)
  OBVIOUS
<1>2. /\ DOMAIN s = 1..n /\ DOMAIN t = 1..(n + 1) /\ t \in Seq(S)
      /\ t[n + 1] = a /\ \A i \in 1..n : t[i] = s[i]
  BY <1>1
<1>3. \A i : i \in 1..(n + 1) <=> i \in 1..n \/ i = n + 1
  BY <1>1
<1>4. Ids(t) = Ids(s) \cup {a.id}
  BY <1>2, <1>3 DEF Ids
<1>5. QED
  BY <1>2, <1>4 DEF Adds

LEMMA OnceGrows ==
    ASSUME NEW S, NEW s \in Seq(S), NEW a \in S, NEW t, t = Append(s, a),
           Once(s), a.id \notin Ids(s)
    PROVE  Once(t)
<1>0. t \in Seq(S) /\ \E n \in Nat : Adds(s, a, t, n)
  BY Appending
<1>1. PICK n \in Nat :
           /\ DOMAIN s = 1..n /\ DOMAIN t = 1..(n + 1)
           /\ t[n + 1] = a /\ \A i \in 1..n : t[i] = s[i]
           /\ Ids(t) = Ids(s) \cup {a.id}
  BY <1>0 DEF Adds
<1>2. \A i \in 1..n : s[i].id # a.id
  BY <1>1 DEF Ids
<1>3. SUFFICES ASSUME NEW i \in DOMAIN t, NEW j \in DOMAIN t, t[i].id = t[j].id PROVE i = j
  BY DEF Once
<1>4. (i \in 1..n \/ i = n + 1) /\ (j \in 1..n \/ j = n + 1)
  BY <1>1
<1>5. QED
  BY <1>1, <1>2, <1>3, <1>4 DEF Once

LEMMA AfterGrows ==
    ASSUME NEW S, NEW s \in Seq(S), NEW a \in S, NEW t, t = Append(s, a), NEW D,
           After(s, D), \A x \in DOMAIN a.args : a.args[x] \in D \cup Ids(s)
    PROVE  After(t, D)
<1>0. t \in Seq(S) /\ \E n \in Nat : Adds(s, a, t, n)
  BY Appending
<1>1. PICK n \in Nat :
           /\ DOMAIN s = 1..n /\ DOMAIN t = 1..(n + 1)
           /\ t[n + 1] = a /\ \A i \in 1..n : t[i] = s[i]
           /\ Ids(t) = Ids(s) \cup {a.id}
  BY <1>0 DEF Adds
<1>2. SUFFICES ASSUME NEW i \in DOMAIN t, NEW x \in DOMAIN t[i].args
              PROVE  t[i].args[x] \in D \/ \E j \in 1..(i - 1) : t[j].id = t[i].args[x]
  BY DEF After
<1>3. CASE i = n + 1
  <2>1. x \in DOMAIN a.args /\ t[i] = a /\ i - 1 = n
    BY <1>1, <1>2, <1>3
  <2>2. a.args[x] \in D \/ \E j \in 1..n : s[j].id = a.args[x]
    BY <1>1, <2>1 DEF Ids
  <2>3. QED
    BY <1>1, <2>1, <2>2
<1>4. CASE i # n + 1
  <2>1. i \in 1..n /\ t[i] = s[i]
    BY <1>1, <1>4
  <2>2. s[i].args[x] \in D \/ \E j \in 1..(i - 1) : s[j].id = s[i].args[x]
    BY <1>1, <1>2, <2>1 DEF After
  <2>3. \A j \in 1..(i - 1) : t[j] = s[j]
    BY <1>1, <2>1
  <2>4. QED
    BY <2>1, <2>2, <2>3
<1>5. QED
  BY <1>3, <1>4

LEMMA AfterMore ==
    ASSUME NEW s, NEW D, NEW E, After(s, D), D \subseteq E PROVE After(s, E)
BY DEF After

\* One more instruction keeps the code good when its id is new and its operands
\* are in D.
Fits(a, T, F, first, next, D) ==
    /\ a.id \notin Ids(T) \cup Ids(F) /\ a.id \in first..(next - 1)
    /\ \A x \in DOMAIN a.args : a.args[x] \in D

MoreTypes(T, F, first, next, a, U) ==
    /\ T \in Seq(TypesInstr) /\ F \in Seq(FnInstr) /\ a \in TypesInstr
    /\ Good(T, F, first, next) /\ U = Append(T, a)
    /\ a.op \in {"Constant", "SpecConstantOp"} /\ Fits(a, T, F, first, next, Ids(T))

MoreFn(T, F, first, next, a, G) ==
    /\ T \in Seq(TypesInstr) /\ F \in Seq(FnInstr) /\ a \in FnInstr
    /\ Good(T, F, first, next) /\ G = Append(F, a)
    /\ a.op # "SpecConstantOp" /\ Fits(a, T, F, first, next, Ids(T) \cup Ids(F))

LEMMA GoodTypes ==
    ASSUME NEW T, NEW F, NEW first, NEW next, NEW a, NEW U,
           MoreTypes(T, F, first, next, a, U)
    PROVE  /\ Good(U, F, first, next) /\ U \in Seq(TypesInstr)
           /\ Ids(U) = Ids(T) \cup {a.id}
<1> USE DEF MoreTypes
<1>0. U \in Seq(TypesInstr) /\ \E n \in Nat : Adds(T, a, U, n)
  BY Appending
<1>1. PICK n \in Nat :
           /\ DOMAIN T = 1..n /\ DOMAIN U = 1..(n + 1)
           /\ U[n + 1] = a /\ \A i \in 1..n : U[i] = T[i]
           /\ Ids(U) = Ids(T) \cup {a.id}
  BY <1>0 DEF Adds
<1>2. Once(U)
  BY OnceGrows DEF Good, Fits
<1>3. After(U, {})
  <2>1. After(T, {}) /\ \A x \in DOMAIN a.args : a.args[x] \in {} \cup Ids(T)
    BY DEF Good, Fits
  <2>2. QED
    BY <2>1, AfterGrows, Zenon
<1>4. After(F, Ids(U))
  BY <1>1, AfterMore DEF Good
<1>5. \A i \in DOMAIN U : U[i].op \in {"Constant", "SpecConstantOp"}
  <2>1. \A i \in 1..(n + 1) : i \in 1..n \/ i = n + 1
    OBVIOUS
  <2>2. QED
    BY <1>1, <2>1 DEF Good
<1>6. QED
  BY <1>0, <1>1, <1>2, <1>3, <1>4, <1>5 DEF Good, Fits

LEMMA GoodFn ==
    ASSUME NEW T, NEW F, NEW first, NEW next, NEW a, NEW G,
           MoreFn(T, F, first, next, a, G)
    PROVE  /\ Good(T, G, first, next) /\ G \in Seq(FnInstr)
           /\ Ids(G) = Ids(F) \cup {a.id}
<1> USE DEF MoreFn
<1>0. G \in Seq(FnInstr) /\ \E n \in Nat : Adds(F, a, G, n)
  BY Appending
<1>1. PICK n \in Nat :
           /\ DOMAIN F = 1..n /\ DOMAIN G = 1..(n + 1)
           /\ G[n + 1] = a /\ \A i \in 1..n : G[i] = F[i]
           /\ Ids(G) = Ids(F) \cup {a.id}
  BY <1>0 DEF Adds
<1>2. Once(G)
  BY OnceGrows DEF Good, Fits
<1>3. After(G, Ids(T))
  <2>1. After(F, Ids(T)) /\ \A x \in DOMAIN a.args : a.args[x] \in Ids(T) \cup Ids(F)
    BY DEF Good, Fits
  <2>2. QED
    BY <2>1, AfterGrows, Zenon
<1>4. \A i \in DOMAIN G : G[i].op # "SpecConstantOp"
  <2>1. \A i \in 1..(n + 1) : i \in 1..n \/ i = n + 1
    OBVIOUS
  <2>2. QED
    BY <1>1, <2>1 DEF Good
<1>5. QED
  BY <1>0, <1>1, <1>2, <1>3, <1>4 DEF Good, Fits

LEMMA GoodLater ==
    ASSUME NEW T, NEW F, NEW first \in Nat, NEW next \in Nat, NEW later \in Nat,
           next <= later, Good(T, F, first, next)
    PROVE  Good(T, F, first, later)
<1>1. first..(next - 1) \subseteq first..(later - 1)
  OBVIOUS
<1>2. QED
  BY <1>1 DEF Good

LEMMA GoodEmpty == ASSUME NEW first, NEW next PROVE Good(<< >>, << >>, first, next)
<1>1. DOMAIN << >> = {}
  OBVIOUS
<1>2. Ids(<< >>) = {}
  BY <1>1 DEF Ids
<1>3. QED
  BY <1>1, <1>2 DEF Good, Once, After

\* The module's order of the two sections.
LEMMA GoodEmitted ==
    ASSUME NEW T \in Seq(TypesInstr), NEW F \in Seq(FnInstr), NEW first, NEW next,
           Good(T, F, first, next), NEW e, e = T \o F
    PROVE  /\ Once(e) /\ After(e, {}) /\ Ids(e) = Ids(T) \cup Ids(F)
           /\ \A i \in DOMAIN e : e[i].op = "SpecConstantOp" <=>
                                      i <= Len(T) /\ e[i].op # "Constant"
<1>1. PICK m \in Nat, n \in Nat : m = Len(T) /\ n = Len(F)
  OBVIOUS
<1>2. /\ DOMAIN T = 1..m /\ DOMAIN F = 1..n /\ DOMAIN e = 1..(m + n)
      /\ \A i \in 1..(m + n) : e[i] = IF i <= m THEN T[i] ELSE F[i - m]
  <2>1. /\ e \in Seq(TypesInstr \cup FnInstr) /\ Len(e) = m + n
        /\ \A i \in 1..(m + n) : e[i] = IF i <= m THEN T[i] ELSE F[i - m]
    <3>1. T \in Seq(TypesInstr \cup FnInstr) /\ F \in Seq(TypesInstr \cup FnInstr)
      OBVIOUS
    <3>2. QED
      BY <1>1, <3>1, ConcatProperties
  <2>2. DOMAIN e = 1..(m + n)
    BY <2>1, <1>1
  <2>3. QED
    BY <1>1, <2>1, <2>2
<1>3. \A i \in 1..m : i \in 1..(m + n) /\ e[i] = T[i]
  BY <1>2
<1>4. ASSUME NEW i \in 1..n PROVE m + i \in 1..(m + n) /\ e[m + i] = F[i]
  <2>1. PICK j \in Nat : j = m + i
    OBVIOUS
  <2>2. j \in 1..(m + n) /\ ~(j <= m) /\ j - m = i
    BY <2>1
  <2>3. e[j] = IF j <= m THEN T[j] ELSE F[j - m]
    BY <1>2, <2>2, Zenon
  <2>4. QED
    BY <2>1, <2>2, <2>3
<1>5. ASSUME NEW i \in 1..(m + n) PROVE i \in 1..m \/ \E j \in 1..n : i = m + j
  <2>1. CASE i > m
    <3>1. i - m \in 1..n /\ i = m + (i - m)
      BY <2>1
    <3>2. QED
      BY <3>1
  <2>2. QED
    BY <2>1
<1>6. Ids(e) = Ids(T) \cup Ids(F)
  <2>1. Ids(e) \subseteq Ids(T) \cup Ids(F)
    BY <1>2, <1>3, <1>4, <1>5 DEF Ids
  <2>2. Ids(T) \subseteq Ids(e)
    BY <1>2, <1>3 DEF Ids
  <2>3. Ids(F) \subseteq Ids(e)
    <3>1. SUFFICES ASSUME NEW j \in 1..n PROVE F[j].id \in Ids(e)
      BY <1>2 DEF Ids
    <3>2. m + j \in DOMAIN e /\ e[m + j] = F[j]
      BY <1>2, <1>4
    <3>3. QED
      BY <3>2 DEF Ids
  <2>4. QED
    BY <2>1, <2>2, <2>3
<1>7. Once(e)
  <2>1. SUFFICES ASSUME NEW i \in DOMAIN e, NEW j \in DOMAIN e, e[i].id = e[j].id PROVE i = j
    BY DEF Once
  <2>2. CASE i \in 1..m /\ j \in 1..m
    <3>1. T[i].id = T[j].id
      BY <1>3, <2>1, <2>2
    <3>2. QED
      BY <1>2, <2>2, <3>1 DEF Good, Once
  <2>3. \A k \in 1..m, l \in 1..n : T[k].id # F[l].id
    <3>1. Ids(T) \cap Ids(F) = {}
      BY DEF Good
    <3>2. \A k \in 1..m : T[k].id \in Ids(T)
      BY <1>2 DEF Ids
    <3>3. \A l \in 1..n : F[l].id \in Ids(F)
      BY <1>2 DEF Ids
    <3>4. QED
      BY <3>1, <3>2, <3>3
  <2>4. \A k, l \in 1..n : F[k].id = F[l].id => k = l
    BY <1>2 DEF Good, Once
  <2>5. ASSUME NEW k \in 1..n, i = m + k PROVE i = j
    <3>1. ~(j \in 1..m)
      BY <1>3, <1>4, <2>1, <2>3, <2>5
    <3>2. PICK l \in 1..n : j = m + l
      BY <1>2, <1>5, <3>1
    <3>3. k = l
      BY <1>4, <2>1, <2>4, <2>5, <3>2
    <3>4. QED
      BY <2>5, <3>2, <3>3
  <2>6. ASSUME NEW l \in 1..n, j = m + l, i \in 1..m PROVE FALSE
    BY <1>3, <1>4, <2>1, <2>3, <2>6
  <2>7. QED
    BY <1>2, <1>5, <2>2, <2>5, <2>6
<1>8. After(e, {})
  <2>1. SUFFICES ASSUME NEW i \in DOMAIN e, NEW x \in DOMAIN e[i].args
                PROVE  \E j \in 1..(i - 1) : e[j].id = e[i].args[x]
    BY DEF After
  <2>2. CASE i \in 1..m
    <3>1. e[i] = T[i]
      BY <1>3, <2>2
    <3>2. PICK j \in 1..(i - 1) : T[j].id = T[i].args[x]
      BY <1>2, <2>1, <2>2, <3>1 DEF Good, After
    <3>3. j \in 1..m
      BY <2>2, <3>2
    <3>4. QED
      BY <1>3, <3>1, <3>2, <3>3
  <2>3. ASSUME NEW k \in 1..n, i = m + k PROVE \E j \in 1..(i - 1) : e[j].id = e[i].args[x]
    <3>1. e[i] = F[k]
      BY <1>4, <2>3
    <3>2. F[k].args[x] \in Ids(T) \/ \E j \in 1..(k - 1) : F[j].id = F[k].args[x]
      BY <1>2, <2>1, <2>3, <3>1 DEF Good, After
    <3>3. ASSUME F[k].args[x] \in Ids(T) PROVE \E j \in 1..(i - 1) : e[j].id = e[i].args[x]
      <4>1. PICK j \in 1..m : T[j].id = F[k].args[x]
        BY <1>2, <3>3 DEF Ids
      <4>2. j \in 1..(i - 1)
        BY <2>3
      <4>3. QED
        BY <1>3, <3>1, <4>1, <4>2
    <3>4. ASSUME NEW l \in 1..(k - 1), F[l].id = F[k].args[x]
          PROVE  \E j \in 1..(i - 1) : e[j].id = e[i].args[x]
      <4>1. l \in 1..n /\ m + l \in 1..(i - 1)
        BY <2>3
      <4>2. QED
        BY <1>4, <3>1, <3>4, <4>1
    <3>5. QED
      BY <3>2, <3>3, <3>4
  <2>4. QED
    BY <1>2, <1>5, <2>2, <2>3
<1>9. ASSUME NEW i \in DOMAIN e
      PROVE  e[i].op = "SpecConstantOp" <=> i <= Len(T) /\ e[i].op # "Constant"
  <2>1. CASE i \in 1..m
    <3>1. e[i].op \in {"Constant", "SpecConstantOp"} /\ i <= m
      BY <1>2, <1>3, <2>1 DEF Good
    <3>2. QED
      BY <1>1, <3>1
  <2>2. ASSUME NEW k \in 1..n, i = m + k
        PROVE  e[i].op = "SpecConstantOp" <=> i <= Len(T) /\ e[i].op # "Constant"
    <3>0. e[i] = F[k] /\ F[k].op # "SpecConstantOp"
      BY <1>2, <1>4, <2>2 DEF Good
    <3>1. e[i].op # "SpecConstantOp" /\ ~(i <= m)
      BY <2>2, <3>0
    <3>2. QED
      BY <1>1, <3>1
  <2>3. QED
    BY <1>2, <1>5, <2>1, <2>2
<1>10. QED
  BY <1>6, <1>7, <1>8, <1>9

LEMMA TailGrows ==
    ASSUME NEW S, NEW s \in Seq(S), NEW t \in Seq(S), NEW n \in Nat, n <= Len(s)
    PROVE  /\ Tail2(s, n) \in Seq(S) /\ Len(Tail2(s, n)) = Len(s) - n
           /\ Tail2(s \o t, n) = Tail2(s, n) \o t /\ n <= Len(s \o t)
<1>0. PICK c : c = s \o t
  OBVIOUS
<1>1. PICK l \in Nat, m \in Nat : l = Len(s) /\ m = Len(t) /\ c = s \o t /\ n <= l
  BY <1>0
<1>2. /\ c \in Seq(S) /\ Len(c) = l + m
      /\ \A i \in 1..(l + m) : c[i] = IF i <= l THEN s[i] ELSE t[i - l]
  BY <1>1, ConcatProperties
<1>3. PICK u : u = Tail2(s, n)
  OBVIOUS
<1>4. u \in Seq(S) /\ Len(u) = l - n /\ \A i \in 1..(l - n) : u[i] = s[n + i]
  <2>1. \A i \in (n + 1)..l : s[i] \in S
    BY <1>1
  <2>2. /\ u \in Seq(S) /\ Len(u) = IF n + 1 <= l THEN l - (n + 1) + 1 ELSE 0
        /\ \A i \in 1..(l - (n + 1) + 1) : u[i] = s[n + 1 + i - 1]
    BY <1>1, <1>3, <2>1, SubSeqProperties DEF Tail2
  <2>3. \A i \in 1..(l - n) : i \in 1..(l - (n + 1) + 1) /\ n + 1 + i - 1 = n + i
    BY <1>1
  <2>4. Len(u) = l - n
    BY <1>1, <2>2
  <2>5. QED
    BY <2>2, <2>3, <2>4
<1>5. PICK v : v = Tail2(c, n)
  OBVIOUS
<1>6. v \in Seq(S) /\ Len(v) = l + m - n /\ \A i \in 1..(l + m - n) : v[i] = c[n + i]
  <2>1. \A i \in (n + 1)..(l + m) : c[i] \in S
    BY <1>1, <1>2
  <2>2. /\ v \in Seq(S) /\ Len(v) = IF n + 1 <= l + m THEN l + m - (n + 1) + 1 ELSE 0
        /\ \A i \in 1..(l + m - (n + 1) + 1) : v[i] = c[n + 1 + i - 1]
    BY <1>1, <1>2, <1>5, <2>1, SubSeqProperties DEF Tail2
  <2>3. \A i \in 1..(l + m - n) : i \in 1..(l + m - (n + 1) + 1) /\ n + 1 + i - 1 = n + i
    BY <1>1
  <2>4. Len(v) = l + m - n
    BY <1>1, <2>2
  <2>5. QED
    BY <2>2, <2>3, <2>4
<1>7. PICK w : w = u \o t
  OBVIOUS
<1>12. PICK k \in Nat : k = l - n
  <2>1. l - n \in Nat
    BY <1>1
  <2>2. QED
    BY <2>1
<1>8. /\ w \in Seq(S) /\ Len(w) = l - n + m
      /\ \A i \in 1..(l - n + m) : w[i] = IF i <= l - n THEN u[i] ELSE t[i - (l - n)]
  <2>1. Len(u) = k
    BY <1>4, <1>12
  <2>2. /\ w \in Seq(S) /\ Len(w) = k + m
        /\ \A i \in 1..(k + m) : w[i] = IF i <= k THEN u[i] ELSE t[i - k]
    BY <1>1, <1>4, <1>7, <2>1, ConcatProperties
  <2>3. QED
    BY <1>12, <2>2
<1>9. ASSUME NEW i \in 1..(l + m - n) PROVE v[i] = w[i]
  <2>1. i \in 1..(l - n + m) /\ n + i \in 1..(l + m) /\ v[i] = c[n + i]
    BY <1>1, <1>6
  <2>2. w[i] = IF i <= l - n THEN u[i] ELSE t[i - (l - n)]
    BY <1>8, <2>1, Zenon
  <2>3. c[n + i] = IF n + i <= l THEN s[n + i] ELSE t[n + i - l]
    <3>1. PICK j : j = n + i
      OBVIOUS
    <3>2. c[j] = IF j <= l THEN s[j] ELSE t[j - l]
      BY <1>2, <2>1, <3>1, Zenon
    <3>3. QED
      BY <3>1, <3>2
  <2>4. CASE i <= l - n
    <3>1. n + i <= l /\ i \in 1..(l - n)
      BY <1>1, <2>4
    <3>2. QED
      BY <1>4, <2>1, <2>2, <2>3, <2>4, <3>1
  <2>5. CASE ~(i <= l - n)
    <3>1. ~(n + i <= l) /\ n + i - l = i - (l - n)
      BY <1>1, <2>5
    <3>2. QED
      BY <2>1, <2>2, <2>3, <2>5, <3>1
  <2>6. QED
    BY <2>4, <2>5
<1>10. v = w
  <2>1. Len(w) = Len(v) /\ Len(v) = l + m - n
    BY <1>1, <1>6, <1>8
  <2>2. QED
    BY <1>6, <1>8, <1>9, <2>1, SeqEqual
<1>11. QED
  BY <1>1, <1>2, <1>3, <1>4, <1>5, <1>7, <1>10

LEMMA OneMore == ASSUME NEW S, NEW s \in Seq(S), NEW a \in S
                 PROVE  s \o << a >> = Append(s, a) /\ s \o << >> = s
BY AppendIsConcat, ConcatEmptySeq

\* The code of the call ends with what a step emits.
LEMMA CodeGrows ==
    ASSUME TInv, mark[1] <= Len(types), mark[2] <= Len(fnimpl), UNCHANGED mark,
           NEW A \in Seq(TypesInstr), NEW B \in Seq(FnInstr),
           types' = types \o A, fnimpl' = fnimpl \o B
    PROVE  /\ NewTypes' = NewTypes \o A /\ NewFn' = NewFn \o B
           /\ mark'[1] <= Len(types') /\ mark'[2] <= Len(fnimpl')
<1>1. types \in Seq(TypesInstr) /\ fnimpl \in Seq(FnInstr)
  BY TInvParts DEF CodeOK
<1>2. mark[1] \in Nat /\ mark[2] \in Nat
  BY TInvParts DEF RestOK
<1>3. Tail2(types \o A, mark[1]) = NewTypes \o A /\ mark[1] <= Len(types \o A)
  BY <1>1, <1>2, TailGrows DEF NewTypes
<1>4. Tail2(fnimpl \o B, mark[2]) = NewFn \o B /\ mark[2] <= Len(fnimpl \o B)
  BY <1>1, <1>2, TailGrows DEF NewFn
<1>5. QED
  BY <1>3, <1>4 DEF NewTypes, NewFn

LEMMA NewCodeOK ==
    ASSUME TInv, mark[1] <= Len(types), mark[2] <= Len(fnimpl)
    PROVE  /\ NewTypes \in Seq(TypesInstr) /\ NewFn \in Seq(FnInstr)
           /\ Len(NewTypes) = Len(types) - mark[1]
<1>1. types \in Seq(TypesInstr) /\ fnimpl \in Seq(FnInstr)
  BY TInvParts DEF CodeOK
<1>2. mark[1] \in Nat /\ mark[2] \in Nat
  BY TInvParts DEF RestOK
<1>3. QED
  BY <1>1, <1>2, TailGrows DEF NewTypes, NewFn

\* The code of a leaf.
LeafCode(k, T, F, U, G) == U = T \o Constants(k) /\ G = F \o Loads(k)
LeafIds(k) == {CurrentId} \cup IF k = "convert" THEN {nextId} ELSE {}

LEMMA LeafGood ==
    ASSUME TInv, NEW k \in Leaves \ {"foreign"}, NEW first \in Nat,
           NEW T \in Seq(TypesInstr), NEW F \in Seq(FnInstr), Good(T, F, first, nextId),
           CurrentId \in first..(nextId - 1), CurrentId \notin Ids(T) \cup Ids(F),
           NEW U, NEW G, LeafCode(k, T, F, U, G)
    PROVE  /\ Good(U, G, first, nextId + IdsOf(k))
           /\ U \in Seq(TypesInstr) /\ G \in Seq(FnInstr)
           /\ Ids(U) \cup Ids(G) = Ids(T) \cup Ids(F) \cup LeafIds(k)
           /\ k = "literal" => G = F
           /\ nextId + IdsOf(k) \in Nat /\ nextId <= nextId + IdsOf(k)
<1>1. PICK n \in Nat, c \in Nat : n = nextId /\ c = CurrentId
  BY TInvParts, CurrentIdNat DEF RestOK
<1>2. << >> \in Seq(Nat) /\ << n >> \in Seq(Nat)
  BY <1>1
<1>3. Good(T, F, first, n) /\ c \in first..(n - 1) /\ c \notin Ids(T) \cup Ids(F)
  BY <1>1
<1>4. CASE k = "literal"
  <2>1. PICK a \in TypesInstr : a = Instr("Constant", c, << >>)
    BY <1>2 DEF Instr, TypesInstr
  <2>2. a.op = "Constant" /\ a.id = c /\ DOMAIN a.args = {}
    BY <2>1 DEF Instr
  <2>3. Constants(k) = << a >> /\ Loads(k) = << >> /\ IdsOf(k) = 0 /\ LeafIds(k) = {c}
    BY <1>1, <1>4, <2>1 DEF Constants, Loads, IdsOf, LeafIds
  <2>4. U = Append(T, a) /\ G = F
    BY <2>3, OneMore DEF LeafCode
  <2>5. Good(U, F, first, n) /\ U \in Seq(TypesInstr) /\ Ids(U) = Ids(T) \cup {a.id}
    <3>1. Fits(a, T, F, first, n, Ids(T))
      BY <1>3, <2>2 DEF Fits
    <3>2. a.op = "Constant"
      BY <2>2
    <3>3. MoreTypes(T, F, first, n, a, U)
      BY <1>3, <2>4, <3>1, <3>2 DEF MoreTypes
    <3>4. QED
      BY <3>3, GoodTypes
  <2>6. n + 0 = n /\ n <= n
    OBVIOUS
  <2>7. QED
    BY <1>1, <2>2, <2>3, <2>4, <2>5, <2>6
<1>5. CASE k = "load"
  <2>1. PICK a \in FnInstr : a = Instr("Load", c, << >>)
    BY <1>2 DEF Instr, FnInstr
  <2>2. a.op = "Load" /\ a.id = c /\ DOMAIN a.args = {}
    BY <2>1 DEF Instr
  <2>3. Constants(k) = << >> /\ Loads(k) = << a >> /\ IdsOf(k) = 0 /\ LeafIds(k) = {c}
    BY <1>1, <1>5, <2>1 DEF Constants, Loads, IdsOf, LeafIds
  <2>4. U = T /\ G = Append(F, a)
    BY <2>3, OneMore DEF LeafCode
  <2>5. Good(T, G, first, n) /\ G \in Seq(FnInstr) /\ Ids(G) = Ids(F) \cup {a.id}
    <3>1. Fits(a, T, F, first, n, Ids(T) \cup Ids(F))
      BY <1>3, <2>2 DEF Fits
    <3>2. a.op # "SpecConstantOp"
      BY <2>2
    <3>3. MoreFn(T, F, first, n, a, G)
      BY <1>3, <2>4, <3>1, <3>2 DEF MoreFn
    <3>4. QED
      BY <3>3, GoodFn
  <2>6. n + 0 = n /\ n <= n
    OBVIOUS
  <2>7. QED
    BY <1>1, <1>5, <2>2, <2>3, <2>4, <2>5, <2>6
<1>6. CASE k = "convert"
  <2>1. PICK a \in FnInstr : a = Instr("Load", n, << >>)
    BY <1>2 DEF Instr, FnInstr
  <2>2. PICK b \in FnInstr : b = Instr("Convert", c, << n >>)
    BY <1>2 DEF Instr, FnInstr
  <2>3. /\ a.op = "Load" /\ a.id = n /\ DOMAIN a.args = {}
        /\ b.op = "Convert" /\ b.id = c /\ \A x \in DOMAIN b.args : b.args[x] = n
    BY <2>1, <2>2 DEF Instr
  <2>4. Constants(k) = << >> /\ Loads(k) = << a, b >> /\ IdsOf(k) = 1 /\ LeafIds(k) = {c, n}
    BY <1>1, <1>6, <2>1, <2>2 DEF Constants, Loads, IdsOf, LeafIds
  <2>5. PICK H : H = Append(F, a)
    OBVIOUS
  <2>6. H \in Seq(FnInstr) /\ G = Append(H, b)
    <3>1. G = F \o << a, b >>
      BY <2>4 DEF LeafCode
    <3>2. F \o << a, b >> = Append(Append(F, a), b)
      OBVIOUS
    <3>3. QED
      BY <2>5, <3>1, <3>2
  <2>7. U = T
    BY <2>4, ConcatEmptySeq DEF LeafCode
  <2>8. Good(T, F, first, n + 1)
    BY <1>3, GoodLater
  <2>9. n \notin Ids(T) \cup Ids(F) /\ n \in first..(n + 1 - 1) /\ c \in first..(n + 1 - 1) /\ c # n
    <3>1. Ids(T) \cup Ids(F) \subseteq first..(n - 1)
      BY <1>3 DEF Good
    <3>2. QED
      BY <1>3, <3>1
  <2>10. Good(T, H, first, n + 1) /\ Ids(H) = Ids(F) \cup {n}
    <3>1. Fits(a, T, F, first, n + 1, Ids(T) \cup Ids(F)) /\ a.op # "SpecConstantOp"
      BY <2>3, <2>9 DEF Fits
    <3>2. MoreFn(T, F, first, n + 1, a, H)
      BY <2>5, <2>8, <3>1 DEF MoreFn
    <3>3. Good(T, H, first, n + 1) /\ Ids(H) = Ids(F) \cup {a.id}
      BY <3>2, GoodFn
    <3>4. QED
      BY <2>3, <3>3
  <2>11. Good(T, G, first, n + 1) /\ G \in Seq(FnInstr) /\ Ids(G) = Ids(H) \cup {c}
    <3>1. Fits(b, T, H, first, n + 1, Ids(T) \cup Ids(H)) /\ b.op # "SpecConstantOp"
      BY <1>3, <2>3, <2>9, <2>10 DEF Fits
    <3>2. MoreFn(T, H, first, n + 1, b, G)
      BY <2>6, <2>10, <3>1 DEF MoreFn
    <3>3. Good(T, G, first, n + 1) /\ G \in Seq(FnInstr) /\ Ids(G) = Ids(H) \cup {b.id}
      BY <3>2, GoodFn
    <3>4. QED
      BY <2>3, <3>3
  <2>12. n + 1 \in Nat /\ n <= n + 1
    OBVIOUS
  <2>13. QED
    BY <1>1, <1>6, <2>4, <2>7, <2>10, <2>11, <2>12
<1>7. QED
  BY <1>4, <1>5, <1>6 DEF Leaves

LEMMA LeafSeqs ==
    ASSUME TInv, NEW k
    PROVE  Constants(k) \in Seq(TypesInstr) /\ Loads(k) \in Seq(FnInstr)
<1>1. PICK n \in Nat, c \in Nat : n = nextId /\ c = CurrentId
  BY TInvParts, CurrentIdNat DEF RestOK
<1>2. << >> \in Seq(Nat) /\ << n >> \in Seq(Nat)
  BY <1>1
<1>3. Instr("Constant", c, << >>) \in TypesInstr
  BY <1>2 DEF Instr, TypesInstr
<1>4. /\ Instr("Load", c, << >>) \in FnInstr /\ Instr("Load", n, << >>) \in FnInstr
      /\ Instr("Convert", c, << n >>) \in FnInstr
  BY <1>2 DEF Instr, FnInstr
<1>5. Constants(k) \in Seq(TypesInstr)
  BY <1>1, <1>3 DEF Constants
<1>6. Loads(k) \in Seq(FnInstr)
  BY <1>1, <1>4 DEF Loads
<1>7. QED
  BY <1>5, <1>6

\* Nothing is emitted before the call.
LEMMA NothingNew ==
    ASSUME NEW S, NEW s \in Seq(S) PROVE Tail2(s, Len(s)) = << >>
<1>1. PICK n \in Nat : n = Len(s)
  OBVIOUS
<1>2. Len(Tail2(s, n)) = n - n /\ Tail2(s, n) \in Seq(S)
  <2>1. << >> \in Seq(S) /\ n <= n
    BY <1>1
  <2>2. QED
    BY <1>1, <2>1, TailGrows
<1>3. QED
  BY <1>1, <1>2, EmptySeq

LEMMA BeginCode == ASSUME TInv, Begin PROVE CodeInv'
<1>1. /\ types' = types /\ fnimpl' = fnimpl /\ notConst' = FALSE /\ counter' = 0
      /\ mark' = << Len(types), Len(fnimpl) >> /\ idReq' = nextId /\ nextId' = nextId + 1
      /\ open' # << >> /\ scales' = << Boot >> /\ pc' = "visiting" /\ nextId \in Nat
  BY TInvParts DEF Begin, Asked, code, RestOK
<1>2. types \in Seq(TypesInstr) /\ fnimpl \in Seq(FnInstr)
  BY TInvParts DEF CodeOK
<1>3. Tail2(types, Len(types)) = << >> /\ Tail2(fnimpl, Len(fnimpl)) = << >>
  BY <1>2, NothingNew
<1>4. NewTypes' = << >> /\ NewFn' = << >>
  BY <1>1, <1>3 DEF NewTypes, NewFn
<1>5. Good(NewTypes, NewFn, idReq, nextId)'
  BY <1>4, GoodEmpty
<1>6. mark'[1] <= Len(types') /\ mark'[2] <= Len(fnimpl')
  BY <1>1, <1>2
<1>7. Depth' = 0
  BY <1>1 DEF Depth
<1>8. Visited'
  <2>1. \A k : k \notin 1..0
    OBVIOUS
  <2>2. Untouched'
    BY <1>1, <1>4, <1>7 DEF Untouched
  <2>3. QED
    BY <1>1, <1>7, <2>1, <2>2 DEF Visited
<1>9. CodeIs'
  BY <1>1, <1>4, <1>5, <1>6, <1>8 DEF CodeIs
<1>10. QED
  BY <1>1, <1>9 DEF CodeInv

\* The scales with an operator's on top.
LEMMA PushedScales ==
    ASSUME TInv, NEW d \in Nat, Len(scales) = d + 1, Operator
    PROVE  /\ Len(scales') = d + 2 /\ scales'[d + 2] = NewScale
           /\ \A k \in 1..d : scales'[k + 1] = scales[k + 1]
<1>1. PICK o : o = Overlapped(scales)
  OBVIOUS
<1>2. /\ o \in Seq(ScaleType) /\ Len(o) = d + 1
      /\ \A i \in 2..(d + 1) : o[i] = scales[i]
  BY <1>1, OverlappedOK, TInvParts
<1>3. scales' = Append(o, NewScale)
  BY <1>1 DEF Operator
<1>4. PICK s : s = Append(o, NewScale)
  OBVIOUS
<1>5. Len(s) = d + 2 /\ s[d + 2] = NewScale /\ \A i \in 1..(d + 1) : s[i] = o[i]
  BY <1>2, <1>4
<1>6. \A k \in 1..d : k + 1 \in 2..(d + 1) /\ k + 1 \in 1..(d + 1)
  OBVIOUS
<1>7. QED
  BY <1>2, <1>3, <1>4, <1>5, <1>6

\* Before the first leaf: the id the next operand is awaited under.
LEMMA AwaitedLeft ==
    ASSUME TInv, Shape, CodeIs, pc = "visiting", LeftDeep, open # << >>,
           open[1].side # "right"
    PROVE  \E d \in Nat, f \in Nat, n \in Nat, c \in Nat :
              /\ d = Depth /\ f = idReq /\ n = nextId /\ c = CurrentId
              /\ Len(scales) = d + 1 /\ Len(open) = d + 1 /\ Len(stack) = 2 * d
              /\ counter = 0 /\ Untouched /\ n = f + 1 + 2 * d
              /\ c = IF d = 0 THEN f ELSE f + 2 * d - 1
              /\ \A k \in 1..d : Numbered(scales[k + 1], k, f)
<1>1. PICK d \in Nat : d = Depth
  BY NotRight
<1>2. /\ Len(scales) = d + 1 /\ Len(open) = d + 1 /\ Len(stack) = 2 * d /\ counter = 0
      /\ \A k \in 1..d : LeftAwaits(k)
  BY <1>1, NotRight
<1>3. PICK f \in Nat, n \in Nat, c \in Nat : f = idReq /\ n = nextId /\ c = CurrentId
  BY TInvParts, CurrentIdNat DEF RestOK
<1>4. Untouched /\ \A k \in 1..d : Numbered(scales[k + 1], k, f)
  BY <1>1, <1>2, <1>3 DEF CodeIs, Visited
<1>5. n = f + 1 + 2 * d
  BY <1>1, <1>3, <1>4 DEF Untouched
<1>6. c = IF d = 0 THEN f ELSE f + 2 * d - 1
  <2>1. CASE d = 0
    <3>1. stack = << >>
      BY <1>2, <2>1, TInvParts, EmptySeq DEF BufsOK
    <3>2. QED
      BY <1>3, <2>1, <3>1 DEF CurrentId
  <2>2. CASE d # 0
    <3>1. d \in 1..d /\ 2 * d # 0
      BY <2>2
    <3>2. LeftAwaits(d) /\ Numbered(scales[d + 1], d, f)
      BY <1>2, <1>4, <3>1
    <3>3. stack # << >>
      BY <1>2, <3>1
    <3>4. c = stack[2 * d]
      BY <1>2, <1>3, <3>3 DEF CurrentId, Top
    <3>5. QED
      BY <2>2, <3>2, <3>4 DEF LeftAwaits, Numbered
  <2>3. QED
    BY <2>1, <2>2
<1>7. QED
  BY <1>1, <1>2, <1>3, <1>4, <1>5, <1>6

LEMMA OperatorCode ==
    ASSUME TInv, Shape, CodeInv, Operator PROVE CodeInv'
<1>1. SUFFICES ASSUME Sound' PROVE CodeIs'
  <2>1. pc' = "visiting"
    BY DEF Operator, Visits, Goes
  <2>2. QED
    BY <2>1, <1>1 DEF CodeInv
<1>2. /\ open # << >> /\ pc = "visiting" /\ Passed("op", Operands) /\ "op" \in AllKinds
      /\ Operands \in Seq(Place) /\ Len(Operands) = 2 /\ broken' = broken
  BY OperandsOK, TInvParts DEF Operator, Visits, AllKinds, Operands, Goes
<1>3. LeftDeep /\ open[1].side # "right" /\ ~broken
  BY <1>1, <1>2, PassedVisit, TInvParts DEF Sound
<1>4. CodeIs
  BY <1>2, <1>3 DEF CodeInv, Sound
<1>5. PICK d \in Nat, f \in Nat, n \in Nat, c \in Nat :
           /\ d = Depth /\ f = idReq /\ n = nextId /\ c = CurrentId
           /\ Len(scales) = d + 1 /\ Len(open) = d + 1 /\ Len(stack) = 2 * d
           /\ counter = 0 /\ Untouched /\ n = f + 1 + 2 * d
           /\ c = IF d = 0 THEN f ELSE f + 2 * d - 1
           /\ \A k \in 1..d : Numbered(scales[k + 1], k, f)
  BY <1>2, <1>3, <1>4, AwaitedLeft
<1>6. /\ Len(scales') = d + 2 /\ scales'[d + 2] = NewScale
      /\ \A k \in 1..d : scales'[k + 1] = scales[k + 1]
  BY <1>5, PushedScales
<1>7. Depth' = d + 1
  <2>1. Len(scales') - 1 = (d + 2) - 1
    BY <1>6
  <2>2. QED
    BY <2>1 DEF Depth
<1>8. Len(open') = d + 2 /\ open' # << >>
  <2>1. Len(open') = 2 + (d + 1) - 1
    <3>1. Len(open') = Len(Operands) + Len(open) - 1
      BY <1>2, PassedOpen, TInvParts
    <3>2. QED
      BY <1>2, <1>5, <3>1
  <2>2. QED
    BY <2>1
<1>9. /\ UNCHANGED << types, fnimpl, mark, idReq, counter, notConst >> /\ nextId' = n + 2
  BY <1>5 DEF Operator, Goes, code
<1>10. NewTypes' = NewTypes /\ NewFn' = NewFn
  BY <1>9 DEF NewTypes, NewFn
<1>11. Good(NewTypes, NewFn, f, n + 2)
  <2>1. Good(NewTypes, NewFn, f, n) /\ n <= n + 2 /\ n + 2 \in Nat
    BY <1>4, <1>5 DEF CodeIs
  <2>2. QED
    BY <2>1, GoodLater
<1>12. Good(NewTypes, NewFn, idReq, nextId)'
  BY <1>5, <1>9, <1>10, <1>11
<1>13. \A k \in 1..Depth' : Numbered(scales'[k + 1], k, idReq')
  <2>1. SUFFICES ASSUME NEW k \in 1..(d + 1) PROVE Numbered(scales'[k + 1], k, f)
    BY <1>5, <1>7, <1>9
  <2>2. CASE k \in 1..d
    BY <1>5, <1>6, <2>2
  <2>3. CASE k = d + 1
    <3>1. PICK s : s = scales'[k + 1] /\ s.x = n /\ s.y = n + 1 /\ s.id = c
      <4>1. k + 1 = d + 2
        BY <2>3
      <4>2. QED
        BY <1>5, <1>6, <4>1 DEF NewScale
    <3>2. s.x = f + 2 * k - 1 /\ s.y = f + 2 * k
      BY <1>5, <2>3, <3>1
    <3>3. s.id = IF k = 1 THEN f ELSE f + 2 * k - 3
      BY <1>5, <2>3, <3>1
    <3>4. QED
      BY <3>1, <3>2, <3>3 DEF Numbered
  <2>4. QED
    BY <2>2, <2>3
<1>14. Untouched'
  <2>1. n + 2 = f + 1 + 2 * (d + 1)
    BY <1>5
  <2>2. QED
    BY <1>5, <1>7, <1>9, <1>10, <2>1 DEF Untouched
<1>15. Visited'
  BY <1>5, <1>9, <1>13, <1>14 DEF Visited
<1>16. QED
  BY <1>4, <1>8, <1>9, <1>10, <1>12, <1>15 DEF CodeIs

\* After the first leaf the next operand is the right one of the innermost
\* operator.
LEMMA AwaitedNext ==
    ASSUME TInv, CodeIs, AtRight, open # << >>
    PROVE  \E d \in Nat \ {0}, f \in Nat, n \in Nat, c \in Nat :
              /\ d = Depth /\ f = idReq /\ n = nextId /\ c = CurrentId
              /\ Len(scales) = d + 1 /\ Len(open) = d /\ Len(stack) = 2 * d - 1
              /\ counter = 1 /\ Halfway /\ c = f + 2 * d
              /\ \A k \in 1..d : Numbered(scales[k + 1], k, f)
<1>1. PICK d \in Nat \ {0} :
           /\ d = Depth /\ Len(scales) = d + 1 /\ Len(open) = d
           /\ Len(stack) = 2 * d - 1 /\ counter = 1
           /\ \A k \in 1..d : RightAwaits(k)
  <2>1. PICK d \in Nat \ {0} :
           /\ d = Depth /\ Len(scales) = d + 1 /\ Len(open) = d
           /\ Len(stack) = 2 * d - 1 /\ counter = 1
           /\ \A k \in 1..d : RightComes(k) /\ RightAwaits(k)
           /\ \A k \in 1..(d - 1) : LeftAwaits(k)
    BY RightParts
  <2>2. QED
    BY <2>1
<1>2. PICK f \in Nat, n \in Nat, c \in Nat : f = idReq /\ n = nextId /\ c = CurrentId
  BY TInvParts, CurrentIdNat DEF RestOK
<1>3. Halfway /\ \A k \in 1..d : Numbered(scales[k + 1], k, f)
  BY <1>1, <1>2 DEF CodeIs, Visited
<1>4. c = f + 2 * d
  <2>1. d \in 1..d /\ 2 * d - 1 # 0
    OBVIOUS
  <2>2. RightAwaits(d) /\ Numbered(scales[d + 1], d, f)
    BY <1>1, <1>3, <2>1
  <2>3. stack # << >>
    BY <1>1, <2>1
  <2>4. c = stack[2 * d - 1]
    BY <1>1, <1>2, <2>3 DEF CurrentId, Top
  <2>5. QED
    BY <2>2, <2>4 DEF RightAwaits, Numbered
<1>5. QED
  BY <1>1, <1>2, <1>3, <1>4

\* The id of a leaf is new, and taken.
LEMMA LeafFree ==
    ASSUME TInv, Shape, CodeIs, pc = "visiting", LeftDeep, open # << >>
    PROVE  CurrentId \in idReq..(nextId - 1) /\ CurrentId \notin Defined
<1>1. CASE open[1].side # "right"
  <2>1. PICK d \in Nat, f \in Nat, n \in Nat, c \in Nat :
           /\ d = Depth /\ f = idReq /\ n = nextId /\ c = CurrentId
           /\ Len(scales) = d + 1 /\ Len(open) = d + 1 /\ Len(stack) = 2 * d
           /\ counter = 0 /\ Untouched /\ n = f + 1 + 2 * d
           /\ c = IF d = 0 THEN f ELSE f + 2 * d - 1
           /\ \A k \in 1..d : Numbered(scales[k + 1], k, f)
    BY <1>1, AwaitedLeft
  <2>2. c \in f..(n - 1)
    BY <2>1
  <2>3. Defined = {}
    <3>1. DOMAIN << >> = {}
      OBVIOUS
    <3>2. NewTypes = << >> /\ NewFn = << >>
      BY <2>1 DEF Untouched
    <3>3. QED
      BY <3>1, <3>2 DEF Defined, Ids
  <2>4. QED
    BY <2>1, <2>2, <2>3
<1>2. CASE open[1].side = "right"
  <2>1. AtRight
    BY <1>2 DEF Shape, AtRoot, AtLeft
  <2>2. PICK d \in Nat \ {0}, f \in Nat, n \in Nat, c \in Nat :
              /\ d = Depth /\ f = idReq /\ n = nextId /\ c = CurrentId
              /\ Len(scales) = d + 1 /\ Len(open) = d /\ Len(stack) = 2 * d - 1
              /\ counter = 1 /\ Halfway /\ c = f + 2 * d
              /\ \A k \in 1..d : Numbered(scales[k + 1], k, f)
    BY <2>1, AwaitedNext
  <2>3. n > f + 2 * d /\ \A v \in Defined : v # f + 2 * d
    BY <2>2 DEF Halfway
  <2>4. c \in f..(n - 1) /\ c \notin Defined
    BY <2>2, <2>3
  <2>5. QED
    BY <2>2, <2>4
<1>3. QED
  BY <1>1, <1>2

\* What holds when a leaf is visited, and the code it leaves.
LEMMA LeafNow ==
    ASSUME TInv, Shape, CodeInv, NEW k \in Kinds, Value(k), Passed(k, << >>),
           LeftDeep', ~broken
    PROVE  /\ pc = "visiting" /\ open # << >> /\ LeftDeep /\ CodeIs
           /\ k \in Leaves \ {"foreign"}
           /\ Len(open') = Len(open) - 1 /\ open' \in Seq(Place)
           /\ \E U \in Seq(TypesInstr), G \in Seq(FnInstr) :
                 /\ U = NewTypes \o Constants(k) /\ G = NewFn \o Loads(k)
                 /\ Good(U, G, idReq, nextId + IdsOf(k))
                 /\ Ids(U) \cup Ids(G) = Defined \cup LeafIds(k)
                 /\ k = "literal" => G = NewFn
<1>1. /\ open # << >> /\ pc = "visiting" /\ k \in AllKinds /\ << >> \in Seq(Place)
      /\ k \in Leaves \ {"foreign"}
  BY KindsAssumption, EmptySeq DEF Value, Visits
<1>2. LeftDeep
  BY <1>1, PassedVisit, TInvParts
<1>3. CodeIs
  BY <1>1, <1>2 DEF CodeInv, Sound
<1>4. CurrentId \in idReq..(nextId - 1) /\ CurrentId \notin Defined
  BY <1>1, <1>2, <1>3, LeafFree
<1>5. PICK T \in Seq(TypesInstr), F \in Seq(FnInstr) : T = NewTypes /\ F = NewFn
  BY <1>3, NewCodeOK DEF CodeIs
<1>6. PICK f \in Nat : f = idReq
  BY TInvParts DEF RestOK
<1>7. PICK U, G : LeafCode(k, T, F, U, G)
  BY DEF LeafCode
<1>8. /\ Good(U, G, f, nextId + IdsOf(k))
      /\ U \in Seq(TypesInstr) /\ G \in Seq(FnInstr)
      /\ Ids(U) \cup Ids(G) = Ids(T) \cup Ids(F) \cup LeafIds(k)
      /\ k = "literal" => G = F
      /\ nextId + IdsOf(k) \in Nat /\ nextId <= nextId + IdsOf(k)
  <2>1. Good(T, F, f, nextId)
    BY <1>3, <1>5, <1>6 DEF CodeIs
  <2>2. CurrentId \in f..(nextId - 1) /\ CurrentId \notin Ids(T) \cup Ids(F)
    BY <1>4, <1>5, <1>6 DEF Defined
  <2>3. QED
    BY <1>1, <1>7, <2>1, <2>2, LeafGood
<1>9. /\ U = NewTypes \o Constants(k) /\ G = NewFn \o Loads(k)
      /\ Ids(U) \cup Ids(G) = Defined \cup LeafIds(k)
  BY <1>5, <1>7, <1>8 DEF LeafCode, Defined
<1>10. Len(open') = Len(open) - 1 /\ open' \in Seq(Place)
  BY <1>1, ValueOpen
<1>11. QED
  BY <1>1, <1>2, <1>3, <1>5, <1>6, <1>8, <1>9, <1>10

LEMMA MarkedTop ==
    ASSUME TInv, NEW k, Len(scales) > 0
    PROVE  Top(Marked(k)).nc <=> Top(scales).nc \/ k # "literal"
<1>1. scales \in Seq(ScaleType)
  BY TInvParts DEF BufsOK
<1>2. PICK l \in Nat : l = Len(scales) /\ l \in DOMAIN scales /\ scales[l] \in ScaleType
  BY <1>1
<1>3. Len(Marked(k)) = l
  BY <1>2, MarkedOK, TInvParts
<1>4. Marked(k)[l] = [scales[l] EXCEPT !.nc = @ \/ k # "literal"]
  BY <1>1, <1>2 DEF Marked
<1>5. QED
  BY <1>2, <1>3, <1>4 DEF Top, ScaleType

LEMMA JoinedTop ==
    ASSUME NEW s \in Seq(ScaleType), Len(s) > 1, Top(s).nc PROVE Top(Joined(s)).nc
<1>1. PICK m \in Nat \ {0} : Len(s) = m + 1 /\ m = Len(s) - 1
  <2>1. PICK l \in Nat : l = Len(s)
    OBVIOUS
  <2>2. l - 1 \in Nat \ {0} /\ l = (l - 1) + 1
    BY <2>1
  <2>3. QED
    BY <2>1, <2>2
<1>2. Front(s) \in Seq(ScaleType) /\ Len(Front(s)) = m
  <2>1. s # << >>
    OBVIOUS
  <2>2. QED
    BY <1>1, <2>1, FrontOK
<1>3. m \in DOMAIN Front(s) /\ Front(s)[m] \in ScaleType
  BY <1>2
<1>4. Joined(s) = [Front(s) EXCEPT ![m] = [Front(s)[m] EXCEPT !.nc = @ \/ Top(s).nc]]
  BY <1>1 DEF Joined
<1>5. Joined(s)[m].nc
  BY <1>2, <1>3, <1>4 DEF ScaleType
<1>6. Len(Joined(s)) = m
  BY <1>1, JoinedOK
<1>7. QED
  BY <1>5, <1>6 DEF Top

\* A leaf that completes nothing is the first: the root, or the left operand of
\* the innermost operator.
LEMMA OperandCode ==
    ASSUME TInv, Shape, CodeInv, NEW k \in Kinds, Operand(k) PROVE CodeInv'
<1>1. SUFFICES ASSUME Sound' PROVE CodeIs'
  <2>1. pc' = "visiting"
    BY DEF Operand, Value, Visits, Goes
  <2>2. QED
    BY <2>1, <1>1 DEF CodeInv
<1>2. Value(k) /\ Passed(k, << >>) /\ LeftDeep' /\ ~broken
  BY <1>1 DEF Operand, Goes, Sound
<1>3. /\ pc = "visiting" /\ open # << >> /\ LeftDeep /\ CodeIs
      /\ k \in Leaves \ {"foreign"}
      /\ Len(open') = Len(open) - 1 /\ open' \in Seq(Place)
      /\ \E U \in Seq(TypesInstr), G \in Seq(FnInstr) :
            /\ U = NewTypes \o Constants(k) /\ G = NewFn \o Loads(k)
            /\ Good(U, G, idReq, nextId + IdsOf(k))
            /\ Ids(U) \cup Ids(G) = Defined \cup LeafIds(k)
            /\ k = "literal" => G = NewFn
  BY <1>2, LeafNow
<1>4. PICK U \in Seq(TypesInstr), G \in Seq(FnInstr) :
            /\ U = NewTypes \o Constants(k) /\ G = NewFn \o Loads(k)
            /\ Good(U, G, idReq, nextId + IdsOf(k))
            /\ Ids(U) \cup Ids(G) = Defined \cup LeafIds(k)
            /\ k = "literal" => G = NewFn
  BY <1>3
<1>5. ~AtRight
  BY <1>3, RightParts, TopWaits DEF Operand
<1>6. open[1].side # "right"
  BY <1>3, <1>5 DEF Shape, AtRoot, AtLeft
<1>7. PICK d \in Nat, f \in Nat, n \in Nat, c \in Nat :
           /\ d = Depth /\ f = idReq /\ n = nextId /\ c = CurrentId
           /\ Len(scales) = d + 1 /\ Len(open) = d + 1 /\ Len(stack) = 2 * d
           /\ counter = 0 /\ Untouched /\ n = f + 1 + 2 * d
           /\ c = IF d = 0 THEN f ELSE f + 2 * d - 1
           /\ \A j \in 1..d : Numbered(scales[j + 1], j, f)
  BY <1>3, <1>6, AwaitedLeft
<1>8. /\ UNCHANGED << mark, idReq >> /\ counter' = 1 /\ notConst' = NotConst(k)
      /\ types' = types \o Constants(k) /\ fnimpl' = fnimpl \o Loads(k)
      /\ nextId' = nextId + IdsOf(k) /\ scales' = Marked(k) /\ stack' = Popped
  BY <1>7 DEF Operand, Goes
<1>9. /\ NewTypes' = U /\ NewFn' = G
      /\ mark'[1] <= Len(types') /\ mark'[2] <= Len(fnimpl')
  BY <1>3, <1>4, <1>8, LeafSeqs, CodeGrows DEF CodeIs
<1>10. Good(NewTypes, NewFn, idReq, nextId)'
  BY <1>4, <1>8, <1>9
<1>11. ~notConst' => NewFn' = << >>
  BY <1>3, <1>4, <1>8, <1>9 DEF NotConst, CodeIs
<1>12. /\ Len(scales') = d + 1
       /\ \A j \in 1..d : /\ scales'[j + 1].id = scales[j + 1].id
                          /\ scales'[j + 1].x = scales[j + 1].x
                          /\ scales'[j + 1].y = scales[j + 1].y
  <2>1. scales \in Seq(ScaleType)
    BY TInvParts DEF BufsOK
  <2>2. \A j \in 1..d : j + 1 \in DOMAIN scales
    BY <1>7, <2>1
  <2>3. QED
    BY <1>7, <1>8, <2>2, MarkedOK, TInvParts
<1>13. open' = << >> => stack' = << >> /\ Len(scales') <= 1
  <2>1. SUFFICES ASSUME open' = << >> PROVE stack' = << >> /\ Len(scales') <= 1
    OBVIOUS
  <2>2. d = 0
    BY <1>3, <1>7, <2>1
  <2>3. stack = << >>
    BY <1>7, <2>2, TInvParts, EmptySeq DEF BufsOK
  <2>4. QED
    BY <1>8, <1>12, <2>2, <2>3 DEF Popped
<1>14. ASSUME open' # << >> PROVE Visited'
  <2>1. d >= 1
    <3>1. d = 0 => Len(open') = 0
      BY <1>3, <1>7
    <3>2. Len(open') # 0
      BY <1>3, <1>14, EmptySeq
    <3>3. QED
      BY <3>1, <3>2
  <2>2. Depth' = d
    <3>1. Len(scales') - 1 = (d + 1) - 1
      BY <1>12
    <3>2. QED
      BY <3>1 DEF Depth
  <2>3. \A j \in 1..Depth' : Numbered(scales'[j + 1], j, idReq')
    BY <1>7, <1>8, <1>12, <2>2 DEF Numbered
  <2>4. Defined = {}
    <3>1. DOMAIN << >> = {}
      OBVIOUS
    <3>2. NewTypes = << >> /\ NewFn = << >>
      BY <1>7 DEF Untouched
    <3>3. QED
      BY <3>1, <3>2 DEF Defined, Ids
  <2>5. Defined' = LeafIds(k)
    BY <1>4, <1>9, <2>4 DEF Defined
  <2>6. c \in LeafIds(k) /\ \A v \in LeafIds(k) : v = c \/ v = n
    BY <1>7 DEF LeafIds
  <2>7. notConst' => Top(scales').nc
    <3>1. ~notConst /\ Len(scales) > 0
      BY <1>7 DEF Untouched
    <3>2. QED
      BY <1>8, <3>1, MarkedTop DEF NotConst
  <2>8. nextId' >= n /\ nextId' \in Nat
    <3>1. PICK i \in Nat : i = IdsOf(k)
      BY DEF IdsOf
    <3>2. nextId' = n + i
      BY <1>7, <1>8, <3>1
    <3>3. QED
      BY <3>2
  <2>9. Halfway'
    <3>1. idReq' = f
      BY <1>7, <1>8
    <3>2. f + 2 * d - 1 \in LeafIds(k)
      BY <1>7, <2>1, <2>6
    <3>3. \A v \in LeafIds(k) : v >= f + 2 * d - 1 /\ v # f + 2 * d
      BY <1>7, <2>1, <2>6
    <3>4. nextId' > f + 2 * d
      BY <1>7, <2>8
    <3>5. QED
      BY <2>2, <2>5, <2>7, <3>1, <3>2, <3>3, <3>4 DEF Halfway
  <2>10. QED
    BY <1>8, <2>3, <2>9 DEF Visited
<1>15. QED
  BY <1>9, <1>10, <1>11, <1>13, <1>14 DEF CodeIs

\* The instruction of the d-th operator, with its id.
OperationAt(a, i, d, f, m) ==
    /\ a = Operation(Top(m)) /\ a.id = i
    /\ i = IF d = 1 THEN f ELSE f + 2 * d - 3
    /\ \A x \in DOMAIN a.args : a.args[x] \in {f + 2 * d - 1, f + 2 * d}
    /\ a.op = IF Top(m).nc THEN "Op" ELSE "SpecConstantOp"
    /\ ~Top(m).nc => a \in TypesInstr

\* The instruction of a complete operator.
LEMMA OperationIs ==
    ASSUME TInv, NEW k, NEW d \in Nat \ {0}, Len(scales) = d + 1,
           NEW f \in Nat, Numbered(scales[d + 1], d, f), NEW m, m = Marked(k)
    PROVE  \E a \in FnInstr, i \in Nat : OperationAt(a, i, d, f, m)
<1>1. /\ m \in Seq(ScaleType) /\ Len(m) = d + 1 /\ scales \in Seq(ScaleType)
      /\ d + 1 \in DOMAIN scales
  <2>1. scales \in Seq(ScaleType)
    BY TInvParts DEF BufsOK
  <2>2. d + 1 \in DOMAIN scales
    BY <2>1
  <2>3. QED
    BY <2>1, <2>2, MarkedOK, TInvParts
<1>2. PICK s : s = m[d + 1]
  OBVIOUS
<1>3. s \in ScaleType /\ s = Top(m)
  BY <1>1, <1>2 DEF Top
<1>4. s.id = scales[d + 1].id /\ s.x = scales[d + 1].x /\ s.y = scales[d + 1].y
  BY <1>1, <1>2, MarkedOK, TInvParts
<1>5. PICK a : a = Operation(s)
  OBVIOUS
<1>6. /\ a.id = s.id /\ a.args = << s.x, s.y >>
      /\ a.op = IF s.nc THEN "Op" ELSE "SpecConstantOp"
  BY <1>5 DEF Operation, Instr
<1>7. a \in FnInstr /\ (~s.nc => a \in TypesInstr)
  BY <1>3, <1>5, OperationOK
<1>8. PICK i \in Nat : i = s.id
  BY <1>3 DEF ScaleType
<1>9. i = IF d = 1 THEN f ELSE f + 2 * d - 3
  BY <1>4, <1>8 DEF Numbered
<1>10. \A x \in DOMAIN a.args : a.args[x] \in {f + 2 * d - 1, f + 2 * d}
  <2>1. s.x = f + 2 * d - 1 /\ s.y = f + 2 * d
    BY <1>4 DEF Numbered
  <2>2. \A x \in DOMAIN a.args : a.args[x] \in {s.x, s.y}
    BY <1>6
  <2>3. QED
    BY <2>1, <2>2
<1>11. a = Operation(Top(m))
  BY <1>3, <1>5
<1>12. OperationAt(a, i, d, f, m)
  BY <1>3, <1>6, <1>7, <1>8, <1>9, <1>10, <1>11 DEF OperationAt
<1>13. QED
  BY <1>7, <1>8, <1>12

\* The code of the call ends with what a step emits in two parts.
LEMMA TailGrowsTwice ==
    ASSUME NEW S, NEW s \in Seq(S), NEW t \in Seq(S), NEW u \in Seq(S),
           NEW n \in Nat, n <= Len(s)
    PROVE  /\ Tail2(s \o t \o u, n) = Tail2(s, n) \o t \o u
           /\ n <= Len(s \o t \o u)
<1>1. PICK v \in Seq(S) : v = s \o t
  BY ConcatProperties
<1>2. /\ Tail2(v, n) \in Seq(S) /\ Tail2(v, n) = Tail2(s, n) \o t /\ n <= Len(v)
  <2>1. Tail2(s \o t, n) = Tail2(s, n) \o t /\ n <= Len(s \o t)
    BY TailGrows
  <2>2. n <= Len(v)
    BY <1>1, <2>1
  <2>3. Tail2(v, n) \in Seq(S)
    BY <2>2, TailGrows
  <2>4. QED
    BY <1>1, <2>1, <2>2, <2>3, Zenon
<1>3. Tail2(v \o u, n) = Tail2(v, n) \o u /\ n <= Len(v \o u)
  BY <1>2, TailGrows
<1>4. QED
  BY <1>1, <1>2, <1>3, Zenon

LEMMA CodeGrowsTwice ==
    ASSUME TInv, mark[1] <= Len(types), mark[2] <= Len(fnimpl), UNCHANGED mark,
           NEW A \in Seq(TypesInstr), NEW B \in Seq(FnInstr),
           NEW X \in Seq(TypesInstr), NEW Y \in Seq(FnInstr),
           types' = types \o A \o X, fnimpl' = fnimpl \o B \o Y
    PROVE  /\ NewTypes' = NewTypes \o A \o X /\ NewFn' = NewFn \o B \o Y
           /\ mark'[1] <= Len(types') /\ mark'[2] <= Len(fnimpl')
<1>1. types \in Seq(TypesInstr) /\ fnimpl \in Seq(FnInstr)
  BY TInvParts DEF CodeOK
<1>2. mark[1] \in Nat /\ mark[2] \in Nat
  BY TInvParts DEF RestOK
<1>3. /\ Tail2(types \o A \o X, mark[1]) = NewTypes \o A \o X
      /\ mark[1] <= Len(types \o A \o X)
  BY <1>1, <1>2, TailGrowsTwice DEF NewTypes
<1>4. /\ Tail2(fnimpl \o B \o Y, mark[2]) = NewFn \o B \o Y
      /\ mark[2] <= Len(fnimpl \o B \o Y)
  BY <1>1, <1>2, TailGrowsTwice DEF NewFn
<1>5. /\ NewTypes' = Tail2(types', mark[1]) /\ NewFn' = Tail2(fnimpl', mark[2])
  BY Zenon DEF NewTypes, NewFn
<1>6. QED
  BY <1>3, <1>4, <1>5, Zenon

\* The code after the leaf that completes the innermost operator.
LEMMA LastNow ==
    ASSUME TInv, Shape, CodeInv, NEW k \in Kinds, OperandLast(k), Sound'
    PROVE  /\ pc = "visiting" /\ open # << >> /\ LeftDeep /\ CodeIs
           /\ Len(open') = Len(open) - 1 /\ open' \in Seq(Place)
           /\ Good(NewTypes, NewFn, idReq, nextId)'
           /\ ~notConst' => NewFn' = << >>
           /\ mark'[1] <= Len(types') /\ mark'[2] <= Len(fnimpl')
           /\ NotConst(k) => Top(Marked(k)).nc
           /\ \E d \in Nat \ {0}, f \in Nat, n \in Nat, c \in Nat, i \in Nat :
                 /\ d = Depth /\ f = idReq /\ n = nextId /\ c = CurrentId
                 /\ Len(scales) = d + 1 /\ Len(open) = d /\ Len(stack) = 2 * d - 1
                 /\ Halfway /\ c = f + 2 * d
                 /\ i = IF d = 1 THEN f ELSE f + 2 * d - 3
                 /\ \A j \in 1..d : Numbered(scales[j + 1], j, f)
                 /\ Defined' = Defined \cup LeafIds(k) \cup {i}
<1>1. Value(k) /\ Passed(k, << >>) /\ LeftDeep' /\ ~broken /\ Last
  BY DEF OperandLast, Goes, Sound
<1>2. /\ pc = "visiting" /\ open # << >> /\ LeftDeep /\ CodeIs
      /\ k \in Leaves \ {"foreign"}
      /\ Len(open') = Len(open) - 1 /\ open' \in Seq(Place)
      /\ \E U \in Seq(TypesInstr), G \in Seq(FnInstr) :
            /\ U = NewTypes \o Constants(k) /\ G = NewFn \o Loads(k)
            /\ Good(U, G, idReq, nextId + IdsOf(k))
            /\ Ids(U) \cup Ids(G) = Defined \cup LeafIds(k)
            /\ k = "literal" => G = NewFn
  BY <1>1, LeafNow
<1>3. PICK U \in Seq(TypesInstr), G \in Seq(FnInstr) :
            /\ U = NewTypes \o Constants(k) /\ G = NewFn \o Loads(k)
            /\ Good(U, G, idReq, nextId + IdsOf(k))
            /\ Ids(U) \cup Ids(G) = Defined \cup LeafIds(k)
            /\ k = "literal" => G = NewFn
  BY <1>2
<1>4. AtRight
  <2>1. ~AtRoot
    <3>1. Len(scales) > 1 /\ scales \in Seq(ScaleType)
      BY <1>1, TInvParts DEF Last, BufsOK
    <3>2. PICK l \in Nat : l = Len(scales) /\ l > 1
      BY <3>1, LenProperties
    <3>3. l - 1 # 0
      BY <3>2
    <3>4. QED
      BY <3>2, <3>3 DEF AtRoot, Depth
  <2>2. ~AtLeft
    <3> SUFFICES ASSUME AtLeft PROVE FALSE
      OBVIOUS
    <3>1. open[1].side # "right"
      BY DEF AtLeft
    <3>2. PICK d \in Nat : d = Depth
      BY <1>2, <3>1, NotRight
    <3>3. d >= 1
      BY <3>2 DEF AtLeft
    <3>4. Len(scales) = d + 1 /\ counter = 0 /\ RightComes(d)
      BY <1>2, <3>1, <3>2, <3>3, NotRight
    <3>5. QED
      BY <1>1, <3>3, <3>4, TopWaits
  <2>3. QED
    BY <1>2, <2>1, <2>2 DEF Shape
<1>5. PICK d \in Nat \ {0}, f \in Nat, n \in Nat, c \in Nat :
              /\ d = Depth /\ f = idReq /\ n = nextId /\ c = CurrentId
              /\ Len(scales) = d + 1 /\ Len(open) = d /\ Len(stack) = 2 * d - 1
              /\ counter = 1 /\ Halfway /\ c = f + 2 * d
              /\ \A j \in 1..d : Numbered(scales[j + 1], j, f)
  BY <1>2, <1>4, AwaitedNext
<1>6. PICK m : m = Marked(k)
  OBVIOUS
<1>24. PICK a \in FnInstr, i \in Nat : OperationAt(a, i, d, f, m)
  <2>1. d \in 1..d
    OBVIOUS
  <2>2. Numbered(scales[d + 1], d, f)
    BY <1>5, <2>1
  <2>3. QED
    BY <1>5, <1>6, <2>2, OperationIs
<1>7. /\ a = Operation(Top(m)) /\ a.id = i
      /\ i = IF d = 1 THEN f ELSE f + 2 * d - 3
      /\ \A x \in DOMAIN a.args : a.args[x] \in {f + 2 * d - 1, f + 2 * d}
      /\ a.op = IF Top(m).nc THEN "Op" ELSE "SpecConstantOp"
      /\ ~Top(m).nc => a \in TypesInstr
  BY <1>24 DEF OperationAt
<1>8. Top(m).nc <=> NotConst(k)
  <2>1. Len(scales) > 0 /\ scales \in Seq(ScaleType)
    BY <1>5, TInvParts DEF BufsOK
  <2>2. Top(m).nc <=> Top(scales).nc \/ k # "literal"
    BY <1>6, <2>1, MarkedTop
  <2>3. notConst => Top(scales).nc
    BY <1>5 DEF Halfway
  <2>4. Top(scales).nc => notConst
    <3>1. Len(scales) \in DOMAIN scales
      BY <2>1
    <3>2. QED
      BY <1>2, <3>1, TInvParts DEF FlagsAgree, Top
  <2>5. QED
    BY <2>2, <2>3, <2>4 DEF NotConst
<1>9. PICK X \in Seq(TypesInstr), Y \in Seq(FnInstr) :
           /\ X = IF NotConst(k) THEN << >> ELSE << a >>
           /\ Y = IF NotConst(k) THEN << a >> ELSE << >>
  <2>1. (IF NotConst(k) THEN << >> ELSE << a >>) \in Seq(TypesInstr)
    BY <1>7, <1>8, EmptySeq
  <2>2. (IF NotConst(k) THEN << a >> ELSE << >>) \in Seq(FnInstr)
    BY <1>7, EmptySeq
  <2>3. QED
    BY <2>1, <2>2
<1>10. PICK A \in Seq(TypesInstr), B \in Seq(FnInstr) : A = Constants(k) /\ B = Loads(k)
  BY LeafSeqs
<1>11. /\ types' = types \o A \o X /\ fnimpl' = fnimpl \o B \o Y
       /\ notConst' = NotConst(k) /\ nextId' = nextId + IdsOf(k)
       /\ UNCHANGED << mark, idReq >>
  BY <1>6, <1>7, <1>9, <1>10 DEF OperandLast, Goes
<1>13. /\ NewTypes' = U \o X /\ NewFn' = G \o Y
       /\ mark'[1] <= Len(types') /\ mark'[2] <= Len(fnimpl')
  <2>1. mark[1] <= Len(types) /\ mark[2] <= Len(fnimpl)
    BY <1>2 DEF CodeIs
  <2>2. /\ NewTypes' = NewTypes \o A \o X /\ NewFn' = NewFn \o B \o Y
        /\ mark'[1] <= Len(types') /\ mark'[2] <= Len(fnimpl')
    BY <1>11, <2>1, CodeGrowsTwice, Zenon
  <2>3. U = NewTypes \o A /\ G = NewFn \o B
    BY <1>3, <1>10, Zenon
  <2>4. QED
    BY <2>2, <2>3, Zenon
<1>14. PICK l \in Nat : /\ l = nextId + IdsOf(k) /\ l >= n
  <2>1. PICK z \in Nat : z = IdsOf(k)
    BY DEF IdsOf
  <2>2. n + z \in Nat /\ n + z >= n
    OBVIOUS
  <2>3. QED
    BY <1>5, <2>1, <2>2
<1>15. /\ n > f + 2 * d /\ f + 2 * d - 1 \in Defined
       /\ \A v \in Defined : v >= f + 2 * d - 1
  BY <1>5 DEF Halfway
<1>16. c \in LeafIds(k) /\ \A v \in LeafIds(k) : v = c \/ v = n
  BY <1>5 DEF LeafIds
<1>17. Fits(a, U, G, f, l, Ids(U) \cup Ids(G))
  <2>1. i \notin Defined
    <3>1. ~(i >= f + 2 * d - 1)
      BY <1>7
    <3>2. QED
      BY <1>15, <3>1
  <2>2. i # c /\ i # n /\ i \in f..(l - 1)
    <3>1. i >= f /\ i < f + 2 * d
      BY <1>7
    <3>2. c = f + 2 * d /\ n > f + 2 * d /\ l >= n
      BY <1>5, <1>14, <1>15
    <3>3. QED
      BY <3>1, <3>2
  <2>3. i \notin Ids(U) \cup Ids(G)
    <3>1. i \notin LeafIds(k)
      BY <1>16, <2>2
    <3>2. QED
      BY <1>3, <2>1, <3>1, Zenon
  <2>4. {f + 2 * d - 1, f + 2 * d} \subseteq Ids(U) \cup Ids(G)
    BY <1>3, <1>5, <1>15, <1>16
  <2>5. \A x \in DOMAIN a.args : a.args[x] \in Ids(U) \cup Ids(G)
    BY <1>7, <2>4
  <2>6. QED
    BY <1>7, <2>2, <2>3, <2>5 DEF Fits
<1>18. Good(U, G, f, l)
  BY <1>3, <1>5, <1>14
<1>19. /\ Good(NewTypes', NewFn', f, l) /\ (~NotConst(k) => NewFn' = << >>)
       /\ Defined' = Ids(U) \cup Ids(G) \cup {i}
  <2>1. CASE NotConst(k)
    <3>1. NewTypes' = U /\ NewFn' = Append(G, a)
      BY <1>7, <1>9, <1>13, <2>1, OneMore
    <3>2. PICK H : H = NewFn' /\ H = Append(G, a)
      BY <3>1
    <3>3. MoreFn(U, G, f, l, a, H)
      BY <1>7, <1>8, <1>17, <1>18, <2>1, <3>2 DEF MoreFn
    <3>4. Good(U, H, f, l) /\ Ids(H) = Ids(G) \cup {a.id}
      BY <3>3, GoodFn
    <3>5. QED
      BY <1>7, <2>1, <3>1, <3>2, <3>4 DEF Defined
  <2>2. CASE ~NotConst(k)
    <3>1. NewTypes' = Append(U, a) /\ NewFn' = G
      BY <1>7, <1>8, <1>9, <1>13, <2>2, OneMore
    <3>2. PICK H : H = NewTypes' /\ H = Append(U, a)
      BY <3>1
    <3>3. G = << >> /\ Ids(G) = {}
      <4>1. k = "literal" /\ ~notConst
        BY <2>2 DEF NotConst
      <4>2. G = << >>
        BY <1>2, <1>3, <4>1 DEF CodeIs
      <4>3. DOMAIN << >> = {}
        OBVIOUS
      <4>4. QED
        BY <4>2, <4>3 DEF Ids
    <3>4. Fits(a, U, G, f, l, Ids(U))
      <4>1. Ids(U) \cup Ids(G) = Ids(U)
        BY <3>3
      <4>2. QED
        BY <1>17, <4>1
    <3>5. MoreTypes(U, G, f, l, a, H)
      BY <1>7, <1>8, <1>18, <2>2, <3>2, <3>4 DEF MoreTypes
    <3>6. Good(H, G, f, l) /\ Ids(H) = Ids(U) \cup {a.id}
      BY <3>5, GoodTypes
    <3>7. QED
      BY <1>7, <3>1, <3>2, <3>3, <3>6 DEF Defined
  <2>3. QED
    BY <2>1, <2>2
<1>20. Good(NewTypes, NewFn, idReq, nextId)'
  BY <1>5, <1>11, <1>14, <1>19
<1>21. Defined' = Defined \cup LeafIds(k) \cup {i}
  BY <1>3, <1>19
<1>22. \E e \in Nat \ {0}, g \in Nat, o \in Nat, p \in Nat, j \in Nat :
                 /\ e = Depth /\ g = idReq /\ o = nextId /\ p = CurrentId
                 /\ Len(scales) = e + 1 /\ Len(open) = e /\ Len(stack) = 2 * e - 1
                 /\ Halfway /\ p = g + 2 * e
                 /\ j = IF e = 1 THEN g ELSE g + 2 * e - 3
                 /\ \A q \in 1..e : Numbered(scales[q + 1], q, g)
                 /\ Defined' = Defined \cup LeafIds(k) \cup {j}
  BY <1>5, <1>7, <1>21
<1>23. QED
  BY <1>2, <1>6, <1>8, <1>11, <1>13, <1>19, <1>20, <1>22

LEMMA DefinedNat ==
    ASSUME TInv, mark[1] <= Len(types), mark[2] <= Len(fnimpl), NEW v \in Defined
    PROVE  v \in Nat
<1>1. NewTypes \in Seq(TypesInstr) /\ NewFn \in Seq(FnInstr)
  BY NewCodeOK
<1>2. \A j \in DOMAIN NewTypes : NewTypes[j] \in TypesInstr
  BY <1>1
<1>3. \A j \in DOMAIN NewFn : NewFn[j] \in FnInstr
  BY <1>1
<1>4. \A e \in TypesInstr \cup FnInstr : e.id \in Nat
  BY DEF TypesInstr, FnInstr
<1>5. QED
  BY <1>2, <1>3, <1>4 DEF Defined, Ids

LEMMA OddOrEven ==
    ASSUME NEW d \in Nat \ {0}, NEW j \in 1..(2 * d - 1)
    PROVE  (\E q \in 1..d : j = 2 * q - 1) \/ (\E q \in 1..(d - 1) : j = 2 * q)
<1>1. PICK q \in Nat : j = 2 * q \/ j = 2 * q + 1
  <2>1. j = 2 * (j \div 2) \/ j = 2 * (j \div 2) + 1
    OBVIOUS
  <2>2. j \div 2 \in Nat
    OBVIOUS
  <2>3. QED
    BY <2>1, <2>2
<1>2. CASE j = 2 * q
  <2>1. q \in 1..(d - 1)
    BY <1>2
  <2>2. QED
    BY <1>2, <2>1
<1>3. CASE j = 2 * q + 1
  <2>1. q + 1 \in 1..d /\ j = 2 * (q + 1) - 1
    BY <1>3
  <2>2. QED
    BY <2>1
<1>4. QED
  BY <1>1, <1>2, <1>3

\* The scales below the completed one keep their ids.
LEMMA JoinedScales ==
    ASSUME TInv, NEW k, NEW d \in Nat \ {0}, Len(scales) = d + 1
    PROVE  /\ Marked(k) \in Seq(ScaleType) /\ Len(Marked(k)) = d + 1
           /\ Len(Joined(Marked(k))) = d
           /\ \A j \in 1..(d - 1) :
                 /\ Joined(Marked(k))[j + 1].id = scales[j + 1].id
                 /\ Joined(Marked(k))[j + 1].x = scales[j + 1].x
                 /\ Joined(Marked(k))[j + 1].y = scales[j + 1].y
           /\ \A i \in 1..d : Joined(Marked(k))[i].n = scales[i].n
<1>1. scales \in Seq(ScaleType)
  BY TInvParts DEF BufsOK
<1>2. PICK m : m = Marked(k)
  OBVIOUS
<1>3. /\ m \in Seq(ScaleType) /\ Len(m) = d + 1
      /\ \A i \in 1..(d + 1) : /\ m[i].n = scales[i].n /\ m[i].id = scales[i].id
                               /\ m[i].x = scales[i].x /\ m[i].y = scales[i].y
  <2>1. \A i \in 1..(d + 1) : i \in DOMAIN scales
    BY <1>1
  <2>2. QED
    BY <1>2, <2>1, MarkedOK, TInvParts
<1>4. /\ Len(Joined(m)) = d
      /\ \A i \in 1..d : /\ Joined(m)[i].n = m[i].n /\ Joined(m)[i].id = m[i].id
                         /\ Joined(m)[i].x = m[i].x /\ Joined(m)[i].y = m[i].y
  <2>1. Len(m) > 1 /\ Len(m) - 1 = d
    BY <1>3
  <2>2. QED
    BY <1>3, <2>1, JoinedOK
<1>5. \A j \in 1..(d - 1) : j + 1 \in 1..d /\ j + 1 \in 1..(d + 1)
  OBVIOUS
<1>6. \A i \in 1..d : i \in 1..(d + 1)
  OBVIOUS
<1>7. QED
  BY <1>2, <1>3, <1>4, <1>5, <1>6

\* With its only operator complete the expression has no operand left.
LEMMA RootLast ==
    ASSUME TInv, NEW k \in Kinds, OperandLast(k), pc = "visiting",
           Len(scales) = 2, Len(stack) = 1
    PROVE  stack' = << >> /\ Len(scales') <= 1
<1>1. 1 \in Nat \ {0} /\ 1 + 1 = 2 /\ 2 - 1 = 1 /\ 1 \in 1..1 /\ 2 > 1
  OBVIOUS
<1>2. PICK d \in Nat \ {0} : d = 1 /\ Len(scales) = d + 1 /\ 1 \in 1..d
  BY <1>1
<1>3. Len(Joined(Marked(k))) = d /\ Joined(Marked(k))[1].n = scales[1].n
  <2>1. /\ Len(Joined(Marked(k))) = d
        /\ \A i \in 1..d : Joined(Marked(k))[i].n = scales[i].n
    BY <1>2, JoinedScales
  <2>2. QED
    BY <1>2, <2>1
<1>4. scales[1].n \in Nat /\ scales[1].n >= 2
  <2>1. scales \in Seq(ScaleType) /\ Waits
    BY TInvParts DEF BufsOK
  <2>2. 1 \in DOMAIN scales
    BY <2>1
  <2>3. QED
    BY <1>1, <2>1, <2>2, OverrunNat DEF Waits
<1>5. Len(Popped) = 0
  <2>1. stack # << >> /\ 1 - 1 = 0
    OBVIOUS
  <2>2. Len(Popped) = Len(stack) - 1
    BY <2>1, PoppedOK, TInvParts
  <2>3. QED
    BY <2>1, <2>2
<1>6. PICK n \in Nat : n = Joined(Marked(k))[1].n /\ n >= 2
  BY <1>3, <1>4
<1>7. ~(n - 1 <= 0)
  BY <1>6
<1>8. \/ n - 1 <= Len(Popped)
      \/ stack' = << >>
  BY <1>1, <1>6 DEF OperandLast
<1>9. stack' = << >> /\ scales' = Joined(Marked(k))
  BY <1>5, <1>7, <1>8 DEF OperandLast
<1>10. Len(scales') = d
  BY <1>3, <1>9, Zenon
<1>11. d <= 1
  BY <1>2
<1>12. QED
  BY <1>9, <1>10, <1>11, Zenon

LEMMA OperandLastCode ==
    ASSUME TInv, Shape, CodeInv, NEW k \in Kinds, OperandLast(k) PROVE CodeInv'
<1>1. SUFFICES ASSUME Sound' PROVE CodeIs'
  <2>1. pc' = "visiting"
    BY DEF OperandLast, Value, Visits, Goes
  <2>2. QED
    BY <2>1, <1>1 DEF CodeInv
<1>2. /\ pc = "visiting" /\ open # << >> /\ LeftDeep /\ CodeIs
      /\ Len(open') = Len(open) - 1 /\ open' \in Seq(Place)
      /\ Good(NewTypes, NewFn, idReq, nextId)'
      /\ ~notConst' => NewFn' = << >>
      /\ mark'[1] <= Len(types') /\ mark'[2] <= Len(fnimpl')
      /\ NotConst(k) => Top(Marked(k)).nc
      /\ \E d \in Nat \ {0}, f \in Nat, n \in Nat, c \in Nat, i \in Nat :
            /\ d = Depth /\ f = idReq /\ n = nextId /\ c = CurrentId
            /\ Len(scales) = d + 1 /\ Len(open) = d /\ Len(stack) = 2 * d - 1
            /\ Halfway /\ c = f + 2 * d
            /\ i = IF d = 1 THEN f ELSE f + 2 * d - 3
            /\ \A j \in 1..d : Numbered(scales[j + 1], j, f)
            /\ Defined' = Defined \cup LeafIds(k) \cup {i}
  BY <1>1, LastNow
<1>3. PICK d \in Nat \ {0}, f \in Nat, n \in Nat, c \in Nat, i \in Nat :
            /\ d = Depth /\ f = idReq /\ n = nextId /\ c = CurrentId
            /\ Len(scales) = d + 1 /\ Len(open) = d /\ Len(stack) = 2 * d - 1
            /\ Halfway /\ c = f + 2 * d
            /\ i = IF d = 1 THEN f ELSE f + 2 * d - 3
            /\ \A j \in 1..d : Numbered(scales[j + 1], j, f)
            /\ Defined' = Defined \cup LeafIds(k) \cup {i}
  BY <1>2
<1>4. open' = << >> => stack' = << >> /\ Len(scales') <= 1
  <2>1. SUFFICES ASSUME open' = << >> PROVE stack' = << >> /\ Len(scales') <= 1
    OBVIOUS
  <2>2. d = 1
    BY <1>2, <1>3, <2>1
  <2>3. Len(scales) = 2 /\ Len(stack) = 1
    BY <1>3, <2>2
  <2>4. QED
    BY <1>2, <2>3, RootLast
<1>5. ASSUME open' # << >> PROVE Visited'
  <2>1. PICK e \in Nat \ {0} : d = e + 1
    <3>1. d = 1 => Len(open') = 0
      BY <1>2, <1>3
    <3>2. Len(open') # 0
      BY <1>2, <1>5, EmptySeq
    <3>3. d - 1 \in Nat \ {0} /\ d = (d - 1) + 1
      BY <3>1, <3>2
    <3>4. QED
      BY <3>3
  <2>2. PICK m : m = Marked(k)
    OBVIOUS
  <2>3. /\ m \in Seq(ScaleType) /\ Len(m) = d + 1 /\ Len(Joined(m)) = d
        /\ \A j \in 1..(d - 1) : /\ Joined(m)[j + 1].id = scales[j + 1].id
                                 /\ Joined(m)[j + 1].x = scales[j + 1].x
                                 /\ Joined(m)[j + 1].y = scales[j + 1].y
    BY <1>3, <2>2, JoinedScales
  <2>4. scales' = Joined(m) /\ counter' = 1 /\ UNCHANGED idReq
    BY <2>2 DEF OperandLast, Goes
  <2>5. Depth' = e
    <3>1. d - 1 = e
      BY <2>1
    <3>2. QED
      BY <2>3, <2>4, <3>1 DEF Depth
  <2>6. \A j \in 1..e : Numbered(scales'[j + 1], j, f)
    <3>1. \A j \in 1..e : j \in 1..d /\ j \in 1..(d - 1)
      BY <2>1
    <3>2. QED
      BY <1>3, <2>3, <2>4, <3>1 DEF Numbered
  <2>7. /\ n > f + 2 * d /\ notConst' = NotConst(k)
        /\ \A v \in Defined : v >= f + 2 * d - 1
    BY <1>3 DEF Halfway, OperandLast
  <2>8. i = f + 2 * e - 1
    BY <1>3, <2>1
  <2>9. \A v \in LeafIds(k) : v = c \/ v = n
    BY <1>3 DEF LeafIds
  <2>10. \A v \in Defined' : v >= f + 2 * e - 1 /\ v # f + 2 * e
    <3>1. ASSUME NEW v \in Defined PROVE v >= f + 2 * e - 1 /\ v # f + 2 * e
      <4>2. v \in Nat
        BY <1>2, <3>1, DefinedNat DEF CodeIs
      <4>3. v >= f + 2 * d - 1
        BY <2>7, <3>1
      <4>4. QED
        BY <2>1, <4>2, <4>3
    <3>2. ASSUME NEW v \in LeafIds(k) PROVE v >= f + 2 * e - 1 /\ v # f + 2 * e
      BY <1>3, <2>1, <2>7, <2>9
    <3>3. i >= f + 2 * e - 1 /\ i # f + 2 * e
      BY <2>8
    <3>4. QED
      BY <1>3, <3>1, <3>2, <3>3
  <2>11. nextId' > f + 2 * e
    <3>1. PICK z \in Nat : z = IdsOf(k)
      BY DEF IdsOf
    <3>2. nextId' = n + z
      BY <1>3, <3>1 DEF OperandLast
    <3>3. QED
      BY <2>1, <2>7, <3>2
  <2>12. notConst' => Top(scales').nc
    <3>1. Len(m) > 1
      BY <2>3
    <3>2. NotConst(k) => Top(Joined(m)).nc
      BY <1>2, <2>2, <2>3, <3>1, JoinedTop
    <3>3. QED
      BY <2>4, <2>7, <3>2
  <2>13. Halfway'
    <3>1. f + 2 * e - 1 \in Defined'
      BY <1>3, <2>8
    <3>2. idReq' = f
      BY <1>3, <2>4
    <3>3. QED
      BY <2>5, <2>10, <2>11, <2>12, <3>1, <3>2 DEF Halfway
  <2>14. \A j \in 1..Depth' : Numbered(scales'[j + 1], j, idReq')
    BY <1>3, <2>4, <2>5, <2>6
  <2>15. QED
    BY <2>4, <2>13, <2>14 DEF Visited
<1>6. QED
  BY <1>2, <1>4, <1>5 DEF CodeIs

LEMMA VisitedKept ==
    ASSUME UNCHANGED << stack, scales, counter, notConst, idReq, nextId, types, fnimpl, mark >>
    PROVE  /\ Visited => Visited'
           /\ NewTypes' = NewTypes /\ NewFn' = NewFn
<1>1. NewTypes' = NewTypes /\ NewFn' = NewFn
  BY DEF NewTypes, NewFn
<1>2. Depth' = Depth /\ Defined' = Defined
  BY <1>1 DEF Depth, Defined
<1>3. (Untouched => Untouched') /\ (Halfway => Halfway')
  BY <1>1, <1>2 DEF Untouched, Halfway
<1>4. QED
  BY <1>1, <1>2, <1>3 DEF Visited

LEMMA CodeKept ==
    ASSUME CodeIs, open' # << >> => open # << >>,
           open' = << >> => stack = << >> /\ Len(scales) <= 1,
           UNCHANGED << stack, scales, counter, notConst, idReq, nextId, types, fnimpl, mark >>
    PROVE  CodeIs'
<1>1. Good(NewTypes, NewFn, idReq, nextId)'
  BY VisitedKept DEF CodeIs
<1>2. ~notConst' => NewFn' = << >>
  BY VisitedKept DEF CodeIs
<1>3. mark'[1] <= Len(types') /\ mark'[2] <= Len(fnimpl')
  BY DEF CodeIs
<1>4. open' # << >> => Visited'
  BY VisitedKept DEF CodeIs
<1>5. open' = << >> => stack' = << >> /\ Len(scales') <= 1
  OBVIOUS
<1>6. QED
  BY <1>1, <1>2, <1>3, <1>4, <1>5 DEF CodeIs

LEMMA TransparentCode ==
    ASSUME TInv, Shape, CodeInv, NEW k \in Kinds, Transparent(k) PROVE CodeInv'
<1> DEFINE operands == [i \in 1..Arity(k) |-> Head(open)]
<1>1. SUFFICES ASSUME Sound' PROVE CodeIs'
  <2>1. pc' = "visiting"
    BY DEF Transparent, Visits, Goes
  <2>2. QED
    BY <2>1, <1>1 DEF CodeInv
<1>2. k \in AllKinds /\ open # << >> /\ pc = "visiting" /\ Passed(k, operands)
  BY KindsAssumption DEF Transparent, Visits
<1>3. Head(open) \in Place /\ Arity(k) \in Nat \ {0}
  BY <1>2, TInvParts DEF TreeOK, Arity, Leaves, Transparent
<1>4. operands \in Seq(Place) /\ Len(operands) \in Nat \ {0}
  BY <1>3
<1> HIDE DEF operands
<1>5. LeftDeep /\ ~broken
  BY <1>1, <1>2, <1>4, PassedVisit, TInvParts DEF Transparent, Goes, Sound
<1>6. CodeIs
  BY <1>2, <1>5 DEF CodeInv, Sound
<1>7. open' # << >>
  <2>1. /\ Len(open) \in Nat \ {0}
        /\ Len(open') = Len(operands) + Len(open) - 1
    BY <1>2, <1>4, PassedOpen, TInvParts
  <2>2. PICK l \in Nat \ {0}, m \in Nat \ {0} : l = Len(open) /\ m = Len(operands)
    BY <1>4, <2>1
  <2>3. m + l - 1 # 0 /\ Len(open') = m + l - 1
    BY <2>1, <2>2
  <2>4. open' = << >> => Len(open') = 0
    OBVIOUS
  <2>5. QED
    BY <2>3, <2>4
<1>8. /\ UNCHANGED << stack, scales, counter, notConst, idReq, nextId >>
      /\ UNCHANGED << types, fnimpl, mark >>
  BY DEF Transparent, Goes, bufs, code
<1>9. QED
  BY <1>2, <1>6, <1>7, <1>8, CodeKept

LEMMA InitCode == ASSUME Init PROVE CodeInv
<1>1. /\ open = << >> /\ stack = << >> /\ scales = << >> /\ ~notConst
      /\ types = << >> /\ fnimpl = << >> /\ mark = << 0, 0 >>
  BY DEF Init
<1>2. types \in Seq(Nat) /\ fnimpl \in Seq(Nat) /\ Len(types) = 0 /\ Len(fnimpl) = 0
  BY <1>1, EmptySeq
<1>3. NewTypes = << >> /\ NewFn = << >>
  BY <1>1, <1>2, NothingNew DEF NewTypes, NewFn
<1>4. Good(NewTypes, NewFn, idReq, nextId)
  BY <1>3, GoodEmpty
<1>5. CodeIs
  BY <1>1, <1>2, <1>3, <1>4 DEF CodeIs
<1>6. QED
  BY <1>1, <1>5 DEF CodeInv

LEMMA NextCode ==
    ASSUME TInv, Shape, CodeInv, [Next]_vars PROVE CodeInv'
<1>1. CASE Begin
  BY <1>1, BeginCode
<1>2. CASE \E k \in Kinds : Transparent(k) \/ Operand(k) \/ OperandLast(k)
  BY <1>2, TransparentCode, OperandCode, OperandLastCode
<1>3. CASE Operator
  BY <1>3, OperatorCode
<1>4. ASSUME broken' = TRUE, open' = << >> PROVE CodeInv'
  BY <1>4 DEF CodeInv, Sound
<1>5. CASE \/ BeginFails \/ OperatorFails \/ OperatorRefused \/ OperandForeign
           \/ \E k \in Kinds : OperandFails(k) \/ OperandLastFails(k)
  BY <1>4, <1>5 DEF BeginFails, OperatorFails, OperatorRefused, OperandForeign,
                    OperandFails, OperandLastFails, Break
<1>6. CASE Wild
  BY <1>6 DEF Wild, CodeInv, Sound
<1>7. ASSUME UNCHANGED << tree, bufs, notConst, idReq, nextId, code, mark, broken >>,
             pc' \in {"idle", "answered"} => open = << >>,
             pc' # "crashed" => pc # "crashed"
      PROVE  CodeInv'
  <2>1. LeftDeep' = LeftDeep
    BY <1>7 DEF LeftDeep, tree
  <2>2. Sound' => Sound
    BY <1>7, <2>1 DEF Sound
  <2>3. Sound' => CodeIs'
    <3>1. SUFFICES ASSUME Sound' PROVE CodeIs'
      OBVIOUS
    <3>2. CodeIs
      BY <2>2, <3>1 DEF CodeInv
    <3>3. /\ UNCHANGED << stack, scales, counter, notConst, idReq, nextId >>
          /\ UNCHANGED << types, fnimpl, mark, open >>
      BY <1>7 DEF tree, bufs, code
    <3>4. open = << >> => stack = << >> /\ Len(scales) <= 1
      BY <3>2 DEF CodeIs
    <3>5. QED
      BY <3>2, <3>3, <3>4, CodeKept
  <2>4. QED
    BY <1>7, <2>3 DEF CodeInv, tree
<1>8. CASE Return
  BY <1>7, <1>8 DEF Return
<1>9. CASE Finished \/ UNCHANGED vars
  BY <1>7, <1>9 DEF Finished, vars, CodeInv
<1>10. QED
  BY <1>1, <1>2, <1>3, <1>5, <1>6, <1>8, <1>9 DEF Next

\* No id that an operand or an operator still waits for is defined.
LEMMA AwaitedFree ==
    ASSUME TInv, Shape, CodeInv, Sound, NEW v \in Defined
    PROVE  /\ \A j \in DOMAIN stack : v # stack[j]
           /\ \A j \in 2..Len(scales) : v # scales[j].id
<1>1. CodeIs /\ stack \in Seq(Nat) /\ scales \in Seq(ScaleType)
  BY TInvParts DEF CodeInv, BufsOK
<1>2. CASE open = << >>
  <2>1. stack = << >> /\ Len(scales) <= 1
    BY <1>1, <1>2 DEF CodeIs
  <2>2. DOMAIN stack = {}
    BY <1>1, <2>1
  <2>3. PICK l \in Nat : l = Len(scales)
    BY <1>1
  <2>4. 2..l = {}
    BY <2>1, <2>3
  <2>5. QED
    BY <2>2, <2>3, <2>4
<1>3. CASE open # << >>
  <2>1. pc = "visiting" /\ LeftDeep
    BY <1>3, TInvParts DEF CodeInv, Sound, RestOK
  <2>2. AtRight
    <3>1. counter # 0
      <4>1. SUFFICES ASSUME counter = 0 PROVE FALSE
        OBVIOUS
      <4>2. Untouched
        BY <1>1, <1>3, <4>1 DEF CodeIs, Visited
      <4>3. DOMAIN << >> = {}
        OBVIOUS
      <4>4. QED
        BY <4>2, <4>3 DEF Untouched, Defined, Ids
    <3>2. QED
      BY <1>3, <2>1, <3>1 DEF Shape, AtRoot, AtLeft
  <2>3. PICK d \in Nat \ {0}, f \in Nat, n \in Nat, c \in Nat :
              /\ d = Depth /\ f = idReq /\ n = nextId /\ c = CurrentId
              /\ Len(scales) = d + 1 /\ Len(open) = d /\ Len(stack) = 2 * d - 1
              /\ counter = 1 /\ Halfway /\ c = f + 2 * d
              /\ \A k \in 1..d : Numbered(scales[k + 1], k, f)
    BY <1>1, <1>3, <2>2, AwaitedNext
  <2>4. v \in Nat /\ v >= f + 2 * d - 1 /\ v # f + 2 * d
    BY <1>1, <2>3, DefinedNat DEF Halfway, CodeIs
  <2>5. (\A k \in 1..d : RightAwaits(k)) /\ (\A k \in 1..(d - 1) : LeftAwaits(k))
    BY <2>2, <2>3 DEF AtRight
  <2>6. ASSUME NEW j \in 1..(2 * d - 1) PROVE v # stack[j]
    <3>1. (\E q \in 1..d : j = 2 * q - 1) \/ (\E q \in 1..(d - 1) : j = 2 * q)
      BY OddOrEven
    <3>2. ASSUME NEW q \in 1..d, j = 2 * q - 1 PROVE v # stack[j]
      <4>1. stack[j] = f + 2 * q
        BY <2>3, <2>5, <3>2 DEF RightAwaits, Numbered
      <4>2. QED
        BY <2>4, <4>1
    <3>3. ASSUME NEW q \in 1..(d - 1), j = 2 * q PROVE v # stack[j]
      <4>1. stack[j] = f + 2 * q - 1
        BY <2>3, <2>5, <3>3 DEF LeftAwaits, Numbered
      <4>2. QED
        BY <2>4, <4>1
    <3>4. QED
      BY <3>1, <3>2, <3>3
  <2>7. DOMAIN stack = 1..(2 * d - 1)
    BY <1>1, <2>3
  <2>8. ASSUME NEW j \in 2..(d + 1) PROVE v # scales[j].id
    <3>1. PICK q \in 1..d : j = q + 1
      <4>1. j - 1 \in 1..d /\ j = (j - 1) + 1
        OBVIOUS
      <4>2. QED
        BY <4>1
    <3>2. scales[j].id = IF q = 1 THEN f ELSE f + 2 * q - 3
      BY <2>3, <3>1 DEF Numbered
    <3>3. QED
      BY <2>4, <3>2
  <2>9. QED
    BY <2>3, <2>6, <2>7, <2>8
<1>4. QED
  BY <1>2, <1>3

LEMMA CodeOnce == ASSUME TInv, Shape, CodeInv PROVE IdsDefinedOnce
<1>1. SUFFICES ASSUME Sound PROVE
        /\ \A i, j \in DOMAIN Emitted : Emitted[i].id = Emitted[j].id => i = j
        /\ \A i \in DOMAIN Emitted : Emitted[i].id \in idReq..(nextId - 1)
        /\ \A i \in DOMAIN Emitted :
               /\ \A j \in DOMAIN stack : Emitted[i].id # stack[j]
               /\ \A j \in 2..Len(scales) : Emitted[i].id # scales[j].id
  BY DEF IdsDefinedOnce
<1>2. CodeIs
  BY <1>1 DEF CodeInv
<1>3. PICK T \in Seq(TypesInstr), F \in Seq(FnInstr), f \in Nat, n \in Nat :
           /\ T = NewTypes /\ F = NewFn /\ f = idReq /\ n = nextId
  BY <1>2, NewCodeOK, TInvParts DEF CodeIs, RestOK
<1>4. Good(T, F, f, n)
  BY <1>2, <1>3 DEF CodeIs
<1>5. PICK e : e = Emitted /\ e = T \o F
  BY <1>3 DEF Emitted, NewTypes, NewFn
<1>6. Once(e) /\ Ids(e) = Ids(T) \cup Ids(F)
  BY <1>4, <1>5, GoodEmitted
<1>7. Ids(e) \subseteq f..(n - 1)
  BY <1>4, <1>6 DEF Good
<1>8. \A i \in DOMAIN e : e[i].id \in Defined
  <2>1. Ids(e) = Defined
    BY <1>3, <1>6, Zenon DEF Defined
  <2>2. \A i \in DOMAIN e : e[i].id \in Ids(e)
    BY DEF Ids
  <2>3. QED
    BY <2>1, <2>2
<1>9. \A i \in DOMAIN e : e[i].id \in f..(n - 1)
  BY <1>7 DEF Ids
<1>10. QED
  BY <1>1, <1>3, <1>5, <1>6, <1>8, <1>9, AwaitedFree DEF Once

LEMMA CodeDefined == ASSUME TInv, Shape, CodeInv PROVE OperandsDefined
<1>1. SUFFICES ASSUME Sound PROVE
        /\ \A i \in DOMAIN Emitted : \A a \in DOMAIN Emitted[i].args :
                \E j \in 1..(i - 1) : Emitted[j].id = Emitted[i].args[a]
        /\ \A i \in DOMAIN Emitted :
                Emitted[i].op = "SpecConstantOp" <=> /\ i <= Len(types) - mark[1]
                                                     /\ Emitted[i].op # "Constant"
  BY DEF OperandsDefined
<1>2. CodeIs
  BY <1>1 DEF CodeInv
<1>3. PICK T \in Seq(TypesInstr), F \in Seq(FnInstr), f \in Nat, n \in Nat :
           /\ T = NewTypes /\ F = NewFn /\ f = idReq /\ n = nextId
           /\ Len(T) = Len(types) - mark[1]
  BY <1>2, NewCodeOK, TInvParts DEF CodeIs, RestOK
<1>4. Good(T, F, f, n)
  BY <1>2, <1>3 DEF CodeIs
<1>5. PICK e : e = Emitted /\ e = T \o F
  BY <1>3 DEF Emitted, NewTypes, NewFn
<1>6. /\ After(e, {})
      /\ \A i \in DOMAIN e : e[i].op = "SpecConstantOp" <=>
                                 i <= Len(T) /\ e[i].op # "Constant"
  BY <1>4, <1>5, GoodEmitted
<1>7. After(Emitted, {})
  BY <1>5, <1>6, Zenon
<1>8. \A i \in DOMAIN e : e[i].op = "SpecConstantOp" <=>
                               i <= Len(types) - mark[1] /\ e[i].op # "Constant"
  BY <1>3, <1>6, Zenon
<1>9. \A i \in DOMAIN Emitted : \A a \in DOMAIN Emitted[i].args :
          \E j \in 1..(i - 1) : Emitted[j].id = Emitted[i].args[a]
  BY <1>7 DEF After
<1>10. \A i \in DOMAIN Emitted :
           Emitted[i].op = "SpecConstantOp" <=> /\ i <= Len(types) - mark[1]
                                                /\ Emitted[i].op # "Constant"
  BY <1>5, <1>8, Zenon
<1>11. QED
  BY <1>9, <1>10, Zenon

\* No two instructions of one call define an id, none defines an id that is
\* still awaited, and all of them are new: however the three places that take
\* ids from m_id and the two that hand them on are interleaved by the visit.
THEOREM IdsAreDefinedOnce == Spec => []IdsDefinedOnce
<1>1. Init => TInv /\ Shape /\ CodeInv
  BY InitTInv, InitCode DEF Init, Shape
<1>2. TInv /\ Shape /\ CodeInv /\ [Next]_vars => (TInv /\ Shape /\ CodeInv)'
  BY NextTInv, NextShape, NextCode
<1>3. TInv /\ Shape /\ CodeInv => IdsDefinedOnce
  BY CodeOnce
<1>4. QED
  BY <1>1, <1>2, <1>3, PTL DEF Spec

\* An operand is defined before the instruction that takes it, and the section
\* of an instruction, which a flag of the expression decides, agrees with its
\* form, which a flag of its scale decides.
THEOREM OperandsAreDefined == Spec => []OperandsDefined
<1>1. Init => TInv /\ Shape /\ CodeInv
  BY InitTInv, InitCode DEF Init, Shape
<1>2. TInv /\ Shape /\ CodeInv /\ [Next]_vars => (TInv /\ Shape /\ CodeInv)'
  BY NextTInv, NextShape, NextCode
<1>3. TInv /\ Shape /\ CodeInv => OperandsDefined
  BY CodeDefined
<1>4. QED
  BY <1>1, <1>2, <1>3, PTL DEF Spec
------------------------------------------------------------------------------
\* The ids an operator awaits its operands under, from its own.
LeftId(v, first) == IF v = first THEN v + 1 ELSE v + 2
RightId(v, first) == IF v = first THEN v + 2 ELSE v + 3

Operators == {"Op", "SpecConstantOp"}
Has(s, ops, v) == \E e \in DOMAIN s : s[e].id = v /\ s[e].op \in ops

\* The operands of an instruction are those its operator awaits.
Formed(s, first) ==
    \A e \in DOMAIN s : s[e].op \in Operators =>
        s[e].args = << LeftId(s[e].id, first), RightId(s[e].id, first) >>

\* A node has the id its operator awaits the operand under that it is,
Placed(i) ==
    /\ visit[i].kind \in {"literal", "load", "convert", "op", "paren"}
    /\ visit[i].side = "root" => visit[i].id = idReq
    /\ visit[i].side # "root" =>
          /\ visit[i].par \in DOMAIN visit
          /\ visit[i].id = IF visit[i].side = "left"
                           THEN LeftId(visit[visit[i].par].id, idReq)
                           ELSE RightId(visit[visit[i].par].id, idReq)

\* has been compiled, if it is no operator that still waits,
Compiled(i) ==
    LET v == visit[i].id IN
    /\ visit[i].kind = "literal" => Has(NewTypes, {"Constant"}, v)
    /\ visit[i].kind = "load" => Has(NewFn, {"Load"}, v)
    /\ visit[i].kind = "convert" => Has(NewFn, {"Convert"}, v)
    /\ visit[i].kind = "op" => \/ Has(NewTypes, Operators, v) \/ Has(NewFn, Operators, v)
                               \/ \E k \in 2..Len(scales) : scales[k].id = v

\* and its operands were visited or come.
Asks(i) == visit[i].kind = "op" =>
               \A s \in {"left", "right"} :
                   \/ \E j \in Nodes : visit[j].par = i /\ visit[j].side = s
                   \/ \E m \in DOMAIN open : open[m].par = i /\ open[m].side = s

\* Where the value is, when the visit is over.
ValueIs == IF notConst THEN idReq \in Ids(NewFn) ELSE idReq \in Ids(NewTypes)

TreeIs == /\ \A i \in DOMAIN visit : Placed(i) /\ Compiled(i) /\ Asks(i)
          /\ Formed(NewTypes, idReq) /\ Formed(NewFn, idReq)
          /\ (open = << >> /\ calls > 0) => ValueIs

TreeInv == Sound => /\ TreeIs
                    /\ pc = "answered" => answer = Answer(notConst)

\* A section and what is put behind it.
Starts(s, u) == \A e \in DOMAIN s : e \in DOMAIN u /\ u[e] = s[e]
Ends(t, u) == \A e \in DOMAIN t : \E g \in DOMAIN u : u[g] = t[e]
Within(s, t, u) == \A g \in DOMAIN u : \/ \E e \in DOMAIN s : u[g] = s[e]
                                       \/ \E e \in DOMAIN t : u[g] = t[e]
Behind(s, t, u) == Starts(s, u) /\ Ends(t, u) /\ Within(s, t, u)

LEMMA PutBehind ==
    ASSUME NEW S, NEW s \in Seq(S), NEW t \in Seq(S), NEW u, u = s \o t
    PROVE  Behind(s, t, u)
<1>1. PICK m \in Nat, n \in Nat : m = Len(s) /\ n = Len(t)
  OBVIOUS
<1>2. /\ DOMAIN s = 1..m /\ DOMAIN t = 1..n /\ DOMAIN u = 1..(m + n)
      /\ \A i \in 1..(m + n) : u[i] = IF i <= m THEN s[i] ELSE t[i - m]
  <2>1. /\ u \in Seq(S) /\ Len(u) = m + n
        /\ \A i \in 1..(m + n) : u[i] = IF i <= m THEN s[i] ELSE t[i - m]
    BY <1>1, ConcatProperties
  <2>2. QED
    BY <1>1, <2>1
<1>3. Starts(s, u)
  <2>1. \A e \in 1..m : e \in 1..(m + n) /\ e <= m
    OBVIOUS
  <2>2. QED
    BY <1>2, <2>1 DEF Starts
<1>4. Ends(t, u)
  <2>1. ASSUME NEW e \in 1..n PROVE \E g \in 1..(m + n) : u[g] = t[e]
    <3>1. PICK g \in Nat : g = m + e
      OBVIOUS
    <3>2. g \in 1..(m + n) /\ ~(g <= m) /\ g - m = e
      BY <3>1
    <3>3. u[g] = t[g - m]
      BY <1>2, <3>2, Zenon
    <3>4. QED
      BY <3>2, <3>3
  <2>2. QED
    BY <1>2, <2>1 DEF Ends
<1>5. Within(s, t, u)
  <2>1. ASSUME NEW g \in 1..(m + n)
        PROVE  (\E e \in 1..m : u[g] = s[e]) \/ (\E e \in 1..n : u[g] = t[e])
    <3>1. u[g] = IF g <= m THEN s[g] ELSE t[g - m]
      BY <1>2
    <3>2. CASE g <= m
      <4>1. g \in 1..m /\ u[g] = s[g]
        BY <3>1, <3>2
      <4>2. QED
        BY <4>1
    <3>3. CASE ~(g <= m)
      <4>1. g - m \in 1..n /\ u[g] = t[g - m]
        BY <3>1, <3>3
      <4>2. QED
        BY <4>1
    <3>4. QED
      BY <3>2, <3>3
  <2>2. QED
    BY <1>2, <2>1 DEF Within
<1>6. QED
  BY <1>3, <1>4, <1>5 DEF Behind

LEMMA HasKept ==
    ASSUME NEW s, NEW t, NEW u, Behind(s, t, u), NEW ops, NEW v
    PROVE  Has(s, ops, v) \/ Has(t, ops, v) => Has(u, ops, v)
<1>1. Has(s, ops, v) => Has(u, ops, v)
  BY DEF Behind, Starts, Has
<1>2. Has(t, ops, v) => Has(u, ops, v)
  <2>1. SUFFICES ASSUME NEW e \in DOMAIN t, t[e].id = v, t[e].op \in ops
                 PROVE  Has(u, ops, v)
    BY DEF Has
  <2>2. PICK g \in DOMAIN u : u[g] = t[e]
    BY DEF Behind, Ends
  <2>3. QED
    BY <2>1, <2>2 DEF Has
<1>3. QED
  BY <1>1, <1>2

LEMMA FormedKept ==
    ASSUME NEW s, NEW t, NEW u, Behind(s, t, u), NEW f, Formed(s, f), Formed(t, f)
    PROVE  Formed(u, f)
<1>1. SUFFICES ASSUME NEW g \in DOMAIN u, u[g].op \in Operators
               PROVE  u[g].args = << LeftId(u[g].id, f), RightId(u[g].id, f) >>
  BY DEF Formed
<1>2. CASE \E e \in DOMAIN s : u[g] = s[e]
  BY <1>1, <1>2, Zenon DEF Formed
<1>3. CASE \E e \in DOMAIN t : u[g] = t[e]
  BY <1>1, <1>3, Zenon DEF Formed
<1>4. QED
  BY <1>2, <1>3 DEF Behind, Within

\* The node that is visited.
NewNode(k, at) ==
    /\ DOMAIN visit' = DOMAIN visit \cup {at} /\ at \notin DOMAIN visit
    /\ \A i \in DOMAIN visit : visit'[i] = visit[i]
    /\ visit'[at].kind = k /\ visit'[at].id = CurrentId
    /\ visit'[at].par = open[1].par /\ visit'[at].side = open[1].side

LEMMA NodeVisited ==
    ASSUME TypeOK, NEW k \in AllKinds, open # << >>, NEW operands \in Seq(Place),
           Passed(k, operands)
    PROVE  \E at \in Nat : at = Len(visit) + 1 /\ NewNode(k, at)
<1> DEFINE node == [kind |-> k, par |-> Head(open).par, side |-> Head(open).side,
                    id |-> CurrentId]
<1>1. visit \in Seq(VisitNode) /\ open \in Seq(Place) /\ Head(open) = open[1]
      /\ CurrentId \in Nat
  BY TypeParts, CurrentIdNat DEF TreeOK
<1>2. node \in VisitNode
  <2>1. Head(open) \in Place
    BY <1>1
  <2>2. QED
    BY <1>1, <2>1 DEF VisitNode, Place
<1>3. visit' = Append(visit, node)
  BY DEF Passed
<1>4. /\ node.kind = k /\ node.side = open[1].side /\ node.id = CurrentId
      /\ node.par = open[1].par
  BY <1>1
<1> HIDE DEF node
<1>5. PICK l \in Nat : l = Len(visit)
  BY <1>1
<1>6. /\ DOMAIN visit = 1..l /\ DOMAIN visit' = 1..(l + 1)
      /\ \A i \in 1..l : visit'[i] = visit[i]
      /\ visit'[l + 1] = node
  BY <1>1, <1>2, <1>3, <1>5
<1>7. PICK at \in Nat : at = l + 1
  OBVIOUS
<1>8. 1..at = 1..l \cup {at} /\ at \notin 1..l
  BY <1>7
<1>9. QED
  BY <1>4, <1>5, <1>6, <1>7, <1>8 DEF NewNode

\* The id the next node gets.
HeadPlaced == /\ open[1].side = "root" => CurrentId = idReq
              /\ open[1].side # "root" =>
                    /\ open[1].par \in DOMAIN visit
                    /\ CurrentId = IF open[1].side = "left"
                                   THEN LeftId(visit[open[1].par].id, idReq)
                                   ELSE RightId(visit[open[1].par].id, idReq)

LEMMA NumberedIds ==
    ASSUME NEW d \in Nat \ {0}, NEW f \in Nat, NEW s, Numbered(s, d, f)
    PROVE  LeftId(s.id, f) = s.x /\ RightId(s.id, f) = s.y
<1>1. s.x = f + 2 * d - 1 /\ s.y = f + 2 * d
      /\ s.id = IF d = 1 THEN f ELSE f + 2 * d - 3
  BY DEF Numbered
<1>2. PICK v : v = s.id
  OBVIOUS
<1>3. CASE d = 1
  BY <1>1, <1>3 DEF LeftId, RightId
<1>4. CASE d # 1
  <2>1. s.id = f + 2 * d - 3 /\ f + 2 * d - 3 # f
    BY <1>1, <1>4
  <2>2. f + 2 * d - 3 + 2 = f + 2 * d - 1 /\ f + 2 * d - 3 + 3 = f + 2 * d
    OBVIOUS
  <2>3. QED
    BY <1>1, <2>1, <2>2 DEF LeftId, RightId
<1>5. QED
  BY <1>3, <1>4

LEMMA HeadIs ==
    ASSUME TInv, Shape, CodeIs, pc = "visiting", LeftDeep, open # << >>
    PROVE  HeadPlaced
<1>1. AtRoot \/ AtLeft \/ AtRight
  BY DEF Shape
<1>2. CASE AtRoot
  BY <1>2 DEF AtRoot, HeadPlaced, CurrentId
<1>3. CASE AtLeft
  <2>1. open[1].side = "left" /\ open[1].par \in DOMAIN visit
    BY <1>3 DEF AtLeft
  <2>2. PICK d \in Nat, f \in Nat, n \in Nat, c \in Nat :
              /\ d = Depth /\ f = idReq /\ n = nextId /\ c = CurrentId
              /\ Len(scales) = d + 1 /\ Len(open) = d + 1 /\ Len(stack) = 2 * d
              /\ counter = 0 /\ Untouched /\ n = f + 1 + 2 * d
              /\ c = IF d = 0 THEN f ELSE f + 2 * d - 1
              /\ \A k \in 1..d : Numbered(scales[k + 1], k, f)
    BY <2>1, AwaitedLeft
  <2>3. d # 0 /\ visit[open[1].par].id = scales[d + 1].id
    BY <1>3, <2>2 DEF AtLeft
  <2>4. d \in 1..d /\ d \in Nat \ {0}
    BY <2>3
  <2>5. Numbered(scales[d + 1], d, f)
    BY <2>2, <2>4
  <2>6. LeftId(scales[d + 1].id, f) = scales[d + 1].x
    BY <2>4, <2>5, NumberedIds
  <2>7. scales[d + 1].x = c
    BY <2>2, <2>3, <2>5 DEF Numbered
  <2>8. QED
    BY <2>1, <2>2, <2>3, <2>6, <2>7 DEF HeadPlaced
<1>4. CASE AtRight
  <2>1. PICK d \in Nat \ {0}, f \in Nat, n \in Nat, c \in Nat :
              /\ d = Depth /\ f = idReq /\ n = nextId /\ c = CurrentId
              /\ Len(scales) = d + 1 /\ Len(open) = d /\ Len(stack) = 2 * d - 1
              /\ counter = 1 /\ Halfway /\ c = f + 2 * d
              /\ \A k \in 1..d : Numbered(scales[k + 1], k, f)
    BY <1>4, AwaitedNext
  <2>2. d \in 1..d /\ d - d + 1 = 1
    OBVIOUS
  <2>3. RightComes(d)
    BY <1>4, <2>1, <2>2 DEF AtRight
  <2>4. /\ open[1].side = "right" /\ open[1].par \in DOMAIN visit
        /\ visit[open[1].par].id = scales[d + 1].id
    BY <2>1, <2>2, <2>3 DEF RightComes
  <2>5. Numbered(scales[d + 1], d, f)
    BY <2>1, <2>2
  <2>6. RightId(scales[d + 1].id, f) = scales[d + 1].y
    BY <2>5, NumberedIds
  <2>7. scales[d + 1].y = c
    BY <2>1, <2>5 DEF Numbered
  <2>8. QED
    BY <2>1, <2>4, <2>6, <2>7 DEF HeadPlaced
<1>5. QED
  BY <1>1, <1>2, <1>3, <1>4

LEMMA PlacedNext ==
    ASSUME \A i \in DOMAIN visit : Placed(i), HeadPlaced, UNCHANGED idReq,
           NEW k, NEW at, NewNode(k, at),
           k \in {"literal", "load", "convert", "op", "paren"}
    PROVE  \A i \in DOMAIN visit' : Placed(i)'
<1>1. ASSUME NEW i \in DOMAIN visit PROVE Placed(i)'
  <2>1. visit'[i] = visit[i] /\ Placed(i)
    BY DEF NewNode
  <2>2. PICK p : p = visit[i].par
    OBVIOUS
  <2>3. visit[i].side # "root" => p \in DOMAIN visit /\ p \in DOMAIN visit'
                                  /\ visit'[p] = visit[p]
    BY <2>1, <2>2 DEF Placed, NewNode
  <2>4. visit'[i].kind \in {"literal", "load", "convert", "op", "paren"}
    BY <2>1 DEF Placed
  <2>5. visit'[i].side = "root" => visit'[i].id = idReq'
    BY <2>1 DEF Placed
  <2>6. ASSUME visit'[i].side # "root"
        PROVE  /\ visit'[i].par \in DOMAIN visit'
               /\ visit'[i].id = IF visit'[i].side = "left"
                                 THEN LeftId(visit'[visit'[i].par].id, idReq')
                                 ELSE RightId(visit'[visit'[i].par].id, idReq')
    <3>1. visit[i].side # "root"
      BY <2>1, <2>6
    <3>2. visit[i].id = IF visit[i].side = "left" THEN LeftId(visit[p].id, idReq)
                                                  ELSE RightId(visit[p].id, idReq)
      BY <2>1, <2>2, <3>1, Zenon DEF Placed
    <3>3. p \in DOMAIN visit' /\ visit'[p] = visit[p] /\ visit'[i].par = p
      BY <2>1, <2>2, <2>3, <3>1
    <3>4. QED
      BY <2>1, <3>2, <3>3
  <2>7. QED
    BY <2>4, <2>5, <2>6, Zenon DEF Placed
<1>2. Placed(at)'
  BY Zenon DEF Placed, NewNode, HeadPlaced
<1>3. QED
  BY <1>1, <1>2 DEF NewNode

\* The operands that are still to come, after a node of kind k.
Opened(k, at) ==
    /\ \A m \in DOMAIN open : m # 1 => \E q \in DOMAIN open' : open'[q] = open[m]
    /\ k = "paren" => \E q \in DOMAIN open' : open'[q] = open[1]
    /\ k = "op" => \A s \in {"left", "right"} : \E q \in DOMAIN open' :
                       open'[q].par = at /\ open'[q].side = s

LEMMA OthersOpen ==
    ASSUME TypeOK, NEW k \in AllKinds, open # << >>, NEW operands \in Seq(Place),
           Passed(k, operands)
    PROVE  /\ \A m \in DOMAIN open : m # 1 => \E q \in DOMAIN open' : open'[q] = open[m]
           /\ \A m \in DOMAIN operands : m \in DOMAIN open' /\ open'[m] = operands[m]
<1>1. /\ open \in Seq(Place) /\ open' \in Seq(Place) /\ Len(open) \in Nat \ {0}
      /\ Len(open') = Len(operands) + Len(open) - 1
      /\ \A i \in 1..Len(operands) : open'[i] = operands[i]
      /\ \A i \in 1..(Len(open) - 1) : open'[Len(operands) + i] = open[i + 1]
  BY PassedOpen
<1>2. PICK l \in Nat \ {0}, n \in Nat : l = Len(open) /\ n = Len(operands)
  BY <1>1
<1>3. DOMAIN open = 1..l /\ DOMAIN open' = 1..(n + l - 1) /\ DOMAIN operands = 1..n
  BY <1>1, <1>2
<1>4. /\ \A i \in 1..n : open'[i] = operands[i]
      /\ \A i \in 1..(l - 1) : open'[n + i] = open[i + 1]
  BY <1>1, <1>2
<1>5. ASSUME NEW m \in 1..l, m # 1 PROVE \E q \in 1..(n + l - 1) : open'[q] = open[m]
  <2>1. PICK i \in 1..(l - 1) : m = i + 1
    <3>1. m - 1 \in 1..(l - 1) /\ m = (m - 1) + 1
      BY <1>5
    <3>2. QED
      BY <3>1
  <2>2. n + i \in 1..(n + l - 1)
    OBVIOUS
  <2>3. open'[n + i] = open[m]
    BY <1>4, <2>1
  <2>4. QED
    BY <2>2, <2>3
<1>6. \A m \in 1..n : m \in 1..(n + l - 1)
  OBVIOUS
<1>7. QED
  BY <1>3, <1>4, <1>5, <1>6

LEMMA LeafOpens ==
    ASSUME TypeOK, NEW k \in AllKinds, open # << >>, Passed(k, << >>),
           k \notin {"op", "paren"}, NEW at
    PROVE  Opened(k, at)
<1>1. << >> \in Seq(Place)
  BY EmptySeq
<1>2. QED
  BY <1>1, OthersOpen DEF Opened

LEMMA OperatorOpens ==
    ASSUME TypeOK, open # << >>, Passed("op", Operands), NEW at, at = Len(visit) + 1
    PROVE  Opened("op", at)
<1>1. "op" \in AllKinds /\ Operands \in Seq(Place)
  BY OperandsOK DEF AllKinds
<1>2. /\ \A m \in DOMAIN open : m # 1 => \E q \in DOMAIN open' : open'[q] = open[m]
      /\ \A m \in DOMAIN Operands : m \in DOMAIN open' /\ open'[m] = Operands[m]
  BY <1>1, OthersOpen
<1>3. /\ DOMAIN Operands = 1..2
      /\ Operands[1] = [par |-> at, side |-> "left"]
      /\ Operands[2] = [par |-> at, side |-> "right"]
  BY DEF Operands
<1>4. 1 \in 1..2 /\ 2 \in 1..2
  OBVIOUS
<1>5. /\ 1 \in DOMAIN open' /\ open'[1].par = at /\ open'[1].side = "left"
      /\ 2 \in DOMAIN open' /\ open'[2].par = at /\ open'[2].side = "right"
  BY <1>2, <1>3, <1>4
<1>6. QED
  BY <1>2, <1>5 DEF Opened

LEMMA ParenOpens ==
    ASSUME TypeOK, open # << >>, NEW operands \in Seq(Place), Passed("paren", operands),
           1 \in DOMAIN operands, operands[1] = open[1], NEW at
    PROVE  Opened("paren", at)
<1>1. "paren" \in AllKinds
  BY DEF AllKinds
<1>2. /\ \A m \in DOMAIN open : m # 1 => \E q \in DOMAIN open' : open'[q] = open[m]
      /\ 1 \in DOMAIN open' /\ open'[1] = open[1]
  BY <1>1, OthersOpen
<1>3. QED
  BY <1>2 DEF Opened

LEMMA AsksNext ==
    ASSUME \A i \in DOMAIN visit : Asks(i), NEW k, NEW at, NewNode(k, at), Opened(k, at)
    PROVE  \A i \in DOMAIN visit' : Asks(i)'
<1>1. \A j \in Nodes : j \in Nodes' /\ visit'[j] = visit[j]
  BY DEF Nodes, NewNode
<1>2. ASSUME NEW i \in DOMAIN visit, visit'[i].kind = "op", NEW s \in {"left", "right"}
      PROVE  \/ \E j \in Nodes' : visit'[j].par = i /\ visit'[j].side = s
             \/ \E m \in DOMAIN open' : open'[m].par = i /\ open'[m].side = s
  <2>1. \/ \E j \in Nodes : visit[j].par = i /\ visit[j].side = s
        \/ \E m \in DOMAIN open : open[m].par = i /\ open[m].side = s
    <3>1. visit[i].kind = "op"
      BY <1>2 DEF NewNode
    <3>2. Asks(i)
      OBVIOUS
    <3>3. \A t \in {"left", "right"} :
              \/ \E j \in Nodes : visit[j].par = i /\ visit[j].side = t
              \/ \E m \in DOMAIN open : open[m].par = i /\ open[m].side = t
      BY <3>1, <3>2, Zenon DEF Asks
    <3>4. QED
      BY <3>3
  <2>2. CASE \E j \in Nodes : visit[j].par = i /\ visit[j].side = s
    BY <1>1, <2>2
  <2>3. CASE \E m \in DOMAIN open : open[m].par = i /\ open[m].side = s
    <3>1. PICK m \in DOMAIN open : open[m].par = i /\ open[m].side = s
      BY <2>3
    <3>2. CASE m # 1
      <4>1. PICK q \in DOMAIN open' : open'[q] = open[m]
        BY <3>2 DEF Opened
      <4>2. QED
        BY <3>1, <4>1
    <3>3. CASE m = 1 /\ k = "paren"
      <4>1. PICK q \in DOMAIN open' : open'[q] = open[1]
        BY <3>3 DEF Opened
      <4>2. QED
        BY <3>1, <3>3, <4>1
    <3>4. CASE m = 1 /\ k # "paren"
      <4>1. at \in Nodes' /\ visit'[at].par = i /\ visit'[at].side = s
        BY <3>1, <3>4 DEF Nodes, NewNode
      <4>2. QED
        BY <4>1
    <3>5. QED
      BY <3>2, <3>3, <3>4
  <2>4. QED
    BY <2>1, <2>2, <2>3
<1>3. ASSUME visit'[at].kind = "op", NEW s \in {"left", "right"}
      PROVE  \E m \in DOMAIN open' : open'[m].par = at /\ open'[m].side = s
  <2>1. k = "op"
    BY <1>3 DEF NewNode
  <2>2. QED
    BY <2>1 DEF Opened
<1>4. \A i \in DOMAIN visit : Asks(i)'
  BY <1>2, Zenon DEF Asks
<1>5. Asks(at)'
  BY <1>3, Zenon DEF Asks
<1>6. QED
  BY <1>4, <1>5 DEF NewNode

\* What was compiled stays so, and the scale of an operator stays until its
\* instruction is there.
Carries == /\ \A ops, v : Has(NewTypes, ops, v) => Has(NewTypes', ops, v)
           /\ \A ops, v : Has(NewFn, ops, v) => Has(NewFn', ops, v)
           /\ \A j \in 2..Len(scales) :
                 \/ \E q \in 2..Len(scales') : scales'[q].id = scales[j].id
                 \/ Has(NewTypes', Operators, scales[j].id)
                 \/ Has(NewFn', Operators, scales[j].id)

\* The new node is compiled, or waits.
Answers(k, v) ==
    /\ k = "literal" => Has(NewTypes', {"Constant"}, v)
    /\ k = "load" => Has(NewFn', {"Load"}, v)
    /\ k = "convert" => Has(NewFn', {"Convert"}, v)
    /\ k = "op" => \E q \in 2..Len(scales') : scales'[q].id = v

LEMMA CompiledNext ==
    ASSUME \A i \in DOMAIN visit : Compiled(i), NEW k, NEW at, NewNode(k, at), Carries,
           Answers(k, CurrentId)
    PROVE  \A i \in DOMAIN visit' : Compiled(i)'
<1>1. ASSUME NEW i \in DOMAIN visit PROVE Compiled(i)'
  <2>1. PICK n, v : n = visit[i] /\ v = visit[i].id
    OBVIOUS
  <2>2. visit'[i] = n
    BY <2>1 DEF NewNode
  <2>3. /\ n.kind = "literal" => Has(NewTypes, {"Constant"}, v)
        /\ n.kind = "load" => Has(NewFn, {"Load"}, v)
        /\ n.kind = "convert" => Has(NewFn, {"Convert"}, v)
        /\ n.kind = "op" => \/ Has(NewTypes, Operators, v) \/ Has(NewFn, Operators, v)
                            \/ \E q \in 2..Len(scales) : scales[q].id = v
    BY <2>1, Zenon DEF Compiled
  <2>4. /\ n.kind = "literal" => Has(NewTypes', {"Constant"}, v)
        /\ n.kind = "load" => Has(NewFn', {"Load"}, v)
        /\ n.kind = "convert" => Has(NewFn', {"Convert"}, v)
    BY <2>3, Zenon DEF Carries
  <2>5. n.kind = "op" => \/ Has(NewTypes', Operators, v) \/ Has(NewFn', Operators, v)
                         \/ \E q \in 2..Len(scales') : scales'[q].id = v
    BY <2>3, Zenon DEF Carries
  <2>6. v = n.id
    BY <2>1
  <2>7. QED
    BY <2>2, <2>4, <2>5, <2>6, Zenon DEF Compiled
<1>2. Compiled(at)'
  <2>1. visit'[at].kind = k /\ visit'[at].id = CurrentId
    BY DEF NewNode
  <2>2. QED
    BY <2>1, Zenon DEF Compiled, Answers
<1>3. QED
  BY <1>1, <1>2 DEF NewNode

\* The code of a leaf.
LEMMA LeafMade ==
    ASSUME NEW k, NEW f
    PROVE  /\ Formed(Constants(k), f) /\ Formed(Loads(k), f)
           /\ k = "literal" => Has(Constants(k), {"Constant"}, CurrentId)
           /\ k = "load" => Has(Loads(k), {"Load"}, CurrentId)
           /\ k = "convert" => Has(Loads(k), {"Convert"}, CurrentId)
<1>1. DOMAIN << >> = {} /\ Formed(<< >>, f)
  <2>1. DOMAIN << >> = {}
    OBVIOUS
  <2>2. QED
    BY <2>1 DEF Formed
<1>2. PICK c, n : c = CurrentId /\ n = nextId
  OBVIOUS
<1>3. PICK a, b, l, m :
         /\ a = Instr("Constant", c, << >>) /\ b = Instr("Load", c, << >>)
         /\ l = Instr("Load", n, << >>) /\ m = Instr("Convert", c, << n >>)
  OBVIOUS
<1>4. /\ a.op = "Constant" /\ a.id = c /\ b.op = "Load" /\ b.id = c
      /\ l.op = "Load" /\ m.op = "Convert" /\ m.id = c
  BY <1>3 DEF Instr
<1>5. /\ Constants(k) = IF k = "literal" THEN << a >> ELSE << >>
      /\ Loads(k) = CASE k = "load" -> << b >> [] k = "convert" -> << l, m >>
                      [] OTHER -> << >>
  BY <1>2, <1>3 DEF Constants, Loads
<1>6. ASSUME NEW z, z.op \notin Operators PROVE Formed(<< z >>, f)
  <2>1. \A e \in DOMAIN << z >> : << z >>[e] = z
    OBVIOUS
  <2>2. QED
    BY <1>6, <2>1 DEF Formed
<1>7. ASSUME NEW z, NEW ops, z.op \in ops PROVE Has(<< z >>, ops, z.id)
  <2>1. 1 \in DOMAIN << z >> /\ << z >>[1] = z
    OBVIOUS
  <2>2. QED
    BY <1>7, <2>1 DEF Has
<1>8. CASE k = "literal"
  <2>1. Constants(k) = << a >> /\ Loads(k) = << >>
    BY <1>5, <1>8
  <2>2. Formed(<< a >>, f) /\ Has(<< a >>, {"Constant"}, a.id)
    BY <1>4, <1>6, <1>7 DEF Operators
  <2>3. QED
    BY <1>1, <1>2, <1>4, <1>8, <2>1, <2>2
<1>9. CASE k = "load"
  <2>1. Constants(k) = << >> /\ Loads(k) = << b >>
    BY <1>5, <1>9
  <2>2. Formed(<< b >>, f) /\ Has(<< b >>, {"Load"}, b.id)
    BY <1>4, <1>6, <1>7 DEF Operators
  <2>3. QED
    BY <1>1, <1>2, <1>4, <1>9, <2>1, <2>2
<1>10. CASE k = "convert"
  <2>1. Constants(k) = << >> /\ Loads(k) = << l, m >>
    BY <1>5, <1>10
  <2>2. PICK s : s = << l, m >>
    OBVIOUS
  <2>3. 2 \in DOMAIN s /\ s[2] = m /\ \A e \in DOMAIN s : s[e] = l \/ s[e] = m
    BY <2>2
  <2>4. Formed(s, f)
    BY <1>4, <2>3 DEF Formed, Operators
  <2>5. Has(s, {"Convert"}, c)
    BY <1>4, <2>3 DEF Has
  <2>6. QED
    BY <1>1, <1>2, <1>10, <2>1, <2>2, <2>4, <2>5
<1>11. CASE k \notin {"literal", "load", "convert"}
  <2>1. Constants(k) = << >> /\ Loads(k) = << >>
    BY <1>5, <1>11
  <2>2. QED
    BY <1>1, <1>11, <2>1
<1>12. QED
  BY <1>8, <1>9, <1>10, <1>11

\* The sections with it.
LeafIn(k, U, G, f) ==
    /\ Formed(U, f) /\ Formed(G, f)
    /\ \A ops, v : Has(NewTypes, ops, v) => Has(U, ops, v)
    /\ \A ops, v : Has(NewFn, ops, v) => Has(G, ops, v)
    /\ k = "literal" => Has(U, {"Constant"}, CurrentId)
    /\ k = "load" => Has(G, {"Load"}, CurrentId)
    /\ k = "convert" => Has(G, {"Convert"}, CurrentId)

LEMMA LeafSections ==
    ASSUME TInv, CodeIs, NEW k, NEW f, Formed(NewTypes, f), Formed(NewFn, f),
           NEW U, NEW G, U = NewTypes \o Constants(k), G = NewFn \o Loads(k)
    PROVE  LeafIn(k, U, G, f)
<1>1. NewTypes \in Seq(TypesInstr) /\ NewFn \in Seq(FnInstr)
  BY NewCodeOK DEF CodeIs
<1>2. Constants(k) \in Seq(TypesInstr) /\ Loads(k) \in Seq(FnInstr)
  BY LeafSeqs
<1>3. Behind(NewTypes, Constants(k), U) /\ Behind(NewFn, Loads(k), G)
  BY <1>1, <1>2, PutBehind
<1>4. /\ Formed(Constants(k), f) /\ Formed(Loads(k), f)
      /\ k = "literal" => Has(Constants(k), {"Constant"}, CurrentId)
      /\ k = "load" => Has(Loads(k), {"Load"}, CurrentId)
      /\ k = "convert" => Has(Loads(k), {"Convert"}, CurrentId)
  BY LeafMade
<1>5. Formed(U, f) /\ Formed(G, f)
  BY <1>3, <1>4, FormedKept
<1>6. \A ops, v : /\ Has(NewTypes, ops, v) \/ Has(Constants(k), ops, v) => Has(U, ops, v)
                  /\ Has(NewFn, ops, v) \/ Has(Loads(k), ops, v) => Has(G, ops, v)
  BY <1>3, HasKept
<1>7. QED
  BY <1>4, <1>5, <1>6, Zenon DEF LeafIn

\* What holds when a node is visited.
LEMMA TreeNow ==
    ASSUME TInv, Shape, CodeInv, TreeInv, pc = "visiting", open # << >>,
           NEW k \in AllKinds, NEW operands \in Seq(Place), Passed(k, operands),
           UNCHANGED << pc, broken >>, Sound'
    PROVE  LeftDeep /\ CodeIs /\ TreeIs /\ k \notin {"unknown", "refused"}
<1>1. LeftDeep /\ k \notin {"unknown", "refused"}
  BY PassedVisit, TInvParts DEF Sound
<1>2. Sound
  BY <1>1 DEF Sound
<1>3. QED
  BY <1>1, <1>2 DEF CodeInv, TreeInv

\* What a visit has to bring.
Brings(k) == /\ Carries /\ Answers(k, CurrentId)
             /\ Formed(NewTypes', idReq) /\ Formed(NewFn', idReq)
             /\ \A at : at = Len(visit) + 1 => Opened(k, at)
             /\ open' = << >> => ValueIs'

LEMMA VisitTree ==
    ASSUME TInv, Shape, CodeInv, TreeInv, pc = "visiting", open # << >>,
           NEW k \in {"literal", "load", "convert", "op", "paren"},
           NEW operands \in Seq(Place), Passed(k, operands),
           UNCHANGED << pc, broken, idReq >>,
           Sound' => Brings(k)
    PROVE  TreeInv'
<1>1. SUFFICES ASSUME Sound' PROVE TreeIs'
  BY DEF TreeInv
<1>2. k \in AllKinds
  BY DEF AllKinds
<1>3. LeftDeep /\ CodeIs /\ TreeIs
  BY <1>1, <1>2, TreeNow
<1>4. PICK at \in Nat : at = Len(visit) + 1 /\ NewNode(k, at)
  BY <1>2, NodeVisited, TInvParts
<1>5. HeadPlaced
  BY <1>3, HeadIs
<1>6. \A i \in DOMAIN visit : Placed(i) /\ Compiled(i) /\ Asks(i)
  BY <1>3 DEF TreeIs
<1>7. \A i \in DOMAIN visit' : Placed(i)'
  BY <1>4, <1>5, <1>6, PlacedNext
<1>8. /\ Carries /\ Answers(k, CurrentId) /\ Opened(k, at)
      /\ Formed(NewTypes', idReq) /\ Formed(NewFn', idReq)
      /\ open' = << >> => ValueIs'
  BY <1>1, <1>4 DEF Brings
<1>9. \A i \in DOMAIN visit' : Compiled(i)'
  BY <1>4, <1>6, <1>8, CompiledNext
<1>10. \A i \in DOMAIN visit' : Asks(i)'
  BY <1>4, <1>6, <1>8, AsksNext
<1>11. QED
  BY <1>7, <1>8, <1>9, <1>10, Zenon DEF TreeIs

LEMMA OperatorTree ==
    ASSUME TInv, Shape, CodeInv, TreeInv, Operator PROVE TreeInv'
<1>1. /\ open # << >> /\ pc = "visiting" /\ Passed("op", Operands) /\ "op" \in AllKinds
      /\ Operands \in Seq(Place) /\ UNCHANGED << pc, broken, idReq >>
      /\ UNCHANGED << types, fnimpl, mark >>
  BY OperandsOK, TInvParts DEF Operator, Visits, AllKinds, Goes, code
<1>2. ASSUME Sound' PROVE Brings("op")
  <2>1. LeftDeep /\ CodeIs /\ TreeIs /\ open[1].side # "right"
    BY <1>1, <1>2, TreeNow, PassedVisit, TInvParts DEF Sound
  <2>2. NewTypes' = NewTypes /\ NewFn' = NewFn
    BY <1>1 DEF NewTypes, NewFn
  <2>3. PICK d \in Nat : Len(scales) = d + 1
    BY <1>1, <2>1, NotRight
  <2>4. /\ Len(scales') = d + 2 /\ scales'[d + 2] = NewScale
        /\ \A j \in 1..d : scales'[j + 1] = scales[j + 1]
    BY <2>3, PushedScales
  <2>5. Carries
    <3>1. ASSUME NEW j \in 2..(d + 1)
          PROVE  \E q \in 2..(d + 2) : scales'[q].id = scales[j].id
      <4>1. PICK i \in 1..d : j = i + 1
        <5>1. j - 1 \in 1..d /\ j = (j - 1) + 1
          OBVIOUS
        <5>2. QED
          BY <5>1
      <4>2. j \in 2..(d + 2) /\ scales'[j] = scales[j]
        BY <2>4, <4>1
      <4>3. QED
        BY <4>2
    <3>2. QED
      BY <2>2, <2>3, <2>4, <3>1 DEF Carries
  <2>6. Answers("op", CurrentId)
    <3>1. d + 2 \in 2..(d + 2)
      OBVIOUS
    <3>2. NewScale.id = CurrentId
      BY DEF NewScale
    <3>3. QED
      BY <2>4, <3>1, <3>2 DEF Answers
  <2>7. Formed(NewTypes', idReq) /\ Formed(NewFn', idReq)
    BY <2>1, <2>2 DEF TreeIs
  <2>8. \A at : at = Len(visit) + 1 => Opened("op", at)
    BY <1>1, OperatorOpens, TInvParts
  <2>9. open' # << >>
    <3>1. Opened("op", Len(visit) + 1)
      BY <2>8
    <3>2. \E q \in DOMAIN open' : open'[q].side = "left"
      BY <3>1 DEF Opened
    <3>3. DOMAIN << >> = {}
      OBVIOUS
    <3>4. QED
      BY <3>2, <3>3
  <2>10. QED
    BY <2>5, <2>6, <2>7, <2>8, <2>9 DEF Brings
<1>3. QED
  BY <1>1, <1>2, VisitTree

LEMMA TransparentTree ==
    ASSUME TInv, Shape, CodeInv, TreeInv, NEW k \in Kinds, Transparent(k) PROVE TreeInv'
<1> DEFINE operands == [i \in 1..Arity(k) |-> Head(open)]
<1>1. /\ k \in AllKinds /\ open # << >> /\ pc = "visiting" /\ Passed(k, operands)
      /\ UNCHANGED << pc, broken, idReq, stack, scales, types, fnimpl, mark >>
  BY KindsAssumption DEF Transparent, Visits, Goes, bufs, code
<1>2. Head(open) \in Place /\ Head(open) = open[1] /\ Arity(k) \in Nat \ {0}
  BY <1>1, TInvParts DEF TreeOK, Arity, Leaves, Transparent
<1>3. operands \in Seq(Place) /\ 1 \in DOMAIN operands /\ operands[1] = open[1]
  BY <1>2
<1> HIDE DEF operands
<1>4. SUFFICES ASSUME Sound' PROVE TreeInv'
  BY DEF TreeInv
<1>5. LeftDeep /\ CodeIs /\ TreeIs /\ k = "paren"
  BY <1>1, <1>3, <1>4, TreeNow DEF Transparent
<1>6. Brings("paren")
  <2>1. NewTypes' = NewTypes /\ NewFn' = NewFn
    BY <1>1 DEF NewTypes, NewFn
  <2>2. Carries
    BY <1>1, <2>1 DEF Carries
  <2>3. Answers("paren", CurrentId)
    BY DEF Answers
  <2>4. Formed(NewTypes', idReq) /\ Formed(NewFn', idReq)
    BY <1>5, <2>1 DEF TreeIs
  <2>5. \A at : at = Len(visit) + 1 => Opened("paren", at)
    BY <1>1, <1>3, <1>5, ParenOpens, TInvParts
  <2>6. open' # << >>
    <3>1. Opened("paren", Len(visit) + 1)
      BY <2>5
    <3>2. \E q \in DOMAIN open' : open'[q] = open[1]
      BY <3>1 DEF Opened
    <3>3. DOMAIN << >> = {}
      OBVIOUS
    <3>4. QED
      BY <3>2, <3>3
  <2>7. QED
    BY <2>2, <2>3, <2>4, <2>5, <2>6 DEF Brings
<1>7. QED
  BY <1>1, <1>3, <1>5, <1>6, VisitTree

LEMMA HasId == ASSUME NEW s, NEW ops, NEW v, Has(s, ops, v) PROVE v \in Ids(s)
BY DEF Has, Ids

LEMMA OperandTree ==
    ASSUME TInv, Shape, CodeInv, TreeInv, NEW k \in Kinds, Operand(k) PROVE TreeInv'
<1>1. /\ open # << >> /\ pc = "visiting" /\ k \in AllKinds /\ << >> \in Seq(Place)
      /\ k \in {"literal", "load", "convert"} /\ Passed(k, << >>) /\ Value(k)
      /\ UNCHANGED << pc, broken, idReq, mark >>
      /\ types' = types \o Constants(k) /\ fnimpl' = fnimpl \o Loads(k)
      /\ scales' = Marked(k) /\ notConst' = NotConst(k)
  BY KindsAssumption, EmptySeq DEF Operand, Value, Visits, Goes, Leaves
<1>2. ASSUME Sound' PROVE Brings(k)
  <2>1. LeftDeep /\ CodeIs /\ TreeIs
    BY <1>1, <1>2, TreeNow
  <2>2. PICK U, G : U = NewTypes' /\ G = NewFn'
    OBVIOUS
  <2>3. U = NewTypes \o Constants(k) /\ G = NewFn \o Loads(k)
    BY <1>1, <2>1, <2>2, LeafSeqs, CodeGrows DEF CodeIs
  <2>4. LeafIn(k, U, G, idReq)
    <3>1. Formed(NewTypes, idReq) /\ Formed(NewFn, idReq)
      BY <2>1 DEF TreeIs
    <3>2. QED
      BY <2>1, <2>3, <3>1, LeafSections
  <2>5. Carries
    <3>1. ASSUME NEW j \in 2..Len(scales)
          PROVE  \E q \in 2..Len(scales') : scales'[q].id = scales[j].id
      <4>1. scales \in Seq(ScaleType)
        BY TInvParts DEF BufsOK
      <4>2. j \in DOMAIN scales
        BY <4>1
      <4>3. Len(Marked(k)) = Len(scales) /\ Marked(k)[j].id = scales[j].id
        BY <4>2, MarkedOK, TInvParts
      <4>4. QED
        BY <1>1, <4>3
    <3>2. QED
      BY <2>2, <2>4, <3>1, Zenon DEF Carries, LeafIn
  <2>6. Answers(k, CurrentId)
    BY <1>1, <2>2, <2>4 DEF Answers, LeafIn
  <2>7. Formed(NewTypes', idReq) /\ Formed(NewFn', idReq)
    BY <2>2, <2>4 DEF LeafIn
  <2>8. \A at : at = Len(visit) + 1 => Opened(k, at)
    BY <1>1, LeafOpens, TInvParts
  <2>9. ASSUME open' = << >> PROVE ValueIs'
    <3>1. Len(open') = Len(open) - 1
      BY <1>1, ValueOpen
    <3>2. ~AtRight
      BY <2>1, RightParts, TopWaits DEF Operand
    <3>3. open[1].side # "right"
      BY <1>1, <2>1, <3>2 DEF Shape, AtRoot, AtLeft
    <3>4. PICK d \in Nat, f \in Nat, n \in Nat, c \in Nat :
               /\ d = Depth /\ f = idReq /\ n = nextId /\ c = CurrentId
               /\ Len(scales) = d + 1 /\ Len(open) = d + 1 /\ Len(stack) = 2 * d
               /\ counter = 0 /\ Untouched /\ n = f + 1 + 2 * d
               /\ c = IF d = 0 THEN f ELSE f + 2 * d - 1
               /\ \A j \in 1..d : Numbered(scales[j + 1], j, f)
      BY <1>1, <2>1, <3>3, AwaitedLeft
    <3>5. d = 0
      BY <2>9, <3>1, <3>4
    <3>6. CurrentId = idReq /\ idReq' = idReq
      BY <1>1, <3>4, <3>5
    <3>7. notConst' <=> k # "literal"
      BY <1>1, <3>4 DEF Untouched, NotConst
    <3>8. CASE k = "literal"
      <4>1. Has(U, {"Constant"}, idReq)
        BY <2>4, <3>6, <3>8 DEF LeafIn
      <4>2. idReq \in Ids(NewTypes')
        BY <2>2, <4>1, HasId
      <4>3. QED
        BY <3>6, <3>7, <3>8, <4>2 DEF ValueIs
    <3>9. CASE k # "literal"
      <4>1. Has(G, {"Load"}, idReq) \/ Has(G, {"Convert"}, idReq)
        BY <1>1, <2>4, <3>6, <3>9 DEF LeafIn
      <4>2. idReq \in Ids(NewFn')
        BY <2>2, <4>1, HasId
      <4>3. QED
        BY <3>6, <3>7, <3>9, <4>2 DEF ValueIs
    <3>10. QED
      BY <3>8, <3>9
  <2>10. QED
    BY <2>5, <2>6, <2>7, <2>8, <2>9 DEF Brings
<1>3. QED
  BY <1>1, <1>2, VisitTree

\* The instruction of the innermost operator, and where it goes.
Completes(k, a, X, Y) ==
    /\ a.op \in Operators /\ a.id = scales[Len(scales)].id
    /\ a.args = << LeftId(a.id, idReq), RightId(a.id, idReq) >>
    /\ X \in Seq(TypesInstr) /\ Y \in Seq(FnInstr)
    /\ X = IF NotConst(k) THEN << >> ELSE << a >>
    /\ Y = IF NotConst(k) THEN << a >> ELSE << >>
    /\ types' = types \o Constants(k) \o X /\ fnimpl' = fnimpl \o Loads(k) \o Y

LEMMA Completed ==
    ASSUME TInv, NEW k \in Kinds, OperandLast(k), pc = "visiting",
           NEW d \in Nat \ {0}, Len(scales) = d + 1, Numbered(scales[d + 1], d, idReq)
    PROVE  \E a, X, Y : Completes(k, a, X, Y)
<1>1. scales \in Seq(ScaleType) /\ d + 1 \in DOMAIN scales
  BY TInvParts DEF BufsOK
<1>2. PICK m, s : m = Marked(k) /\ s = m[d + 1]
  OBVIOUS
<1>3. /\ m \in Seq(ScaleType) /\ Len(m) = d + 1
      /\ s.id = scales[d + 1].id /\ s.x = scales[d + 1].x /\ s.y = scales[d + 1].y
  BY <1>1, <1>2, MarkedOK, TInvParts
<1>4. s \in ScaleType /\ s = Top(m)
  BY <1>2, <1>3 DEF Top
<1>5. ~NotConst(k) => ~s.nc
  BY <1>1, <1>2, NotConstFlag
<1>6. PICK a : a = Operation(s)
  OBVIOUS
<1>7. /\ a.id = s.id /\ a.args = << s.x, s.y >> /\ a.op \in Operators
  BY <1>6 DEF Operation, Instr, Operators
<1>8. a \in FnInstr /\ (~NotConst(k) => a \in TypesInstr)
  BY <1>4, <1>5, <1>6, OperationOK
<1>9. PICK X, Y : /\ X = IF NotConst(k) THEN << >> ELSE << a >>
                  /\ Y = IF NotConst(k) THEN << a >> ELSE << >>
  OBVIOUS
<1>10. X \in Seq(TypesInstr) /\ Y \in Seq(FnInstr)
  BY <1>8, <1>9, EmptySeq
<1>11. types' = types \o Constants(k) \o X /\ fnimpl' = fnimpl \o Loads(k) \o Y
  BY <1>2, <1>4, <1>6, <1>9 DEF OperandLast
<1>12. a.args = << LeftId(a.id, idReq), RightId(a.id, idReq) >>
  <2>1. PICK f \in Nat : f = idReq
    BY TInvParts DEF RestOK
  <2>2. LeftId(scales[d + 1].id, f) = scales[d + 1].x
        /\ RightId(scales[d + 1].id, f) = scales[d + 1].y
    BY <2>1, NumberedIds
  <2>3. QED
    BY <1>3, <1>7, <2>1, <2>2
<1>13. QED
  BY <1>3, <1>7, <1>9, <1>10, <1>11, <1>12 DEF Completes

LEMMA OneFormed ==
    ASSUME NEW a, NEW f, a.args = << LeftId(a.id, f), RightId(a.id, f) >>,
           a.op \in Operators
    PROVE  /\ Formed(<< a >>, f) /\ Formed(<< >>, f)
           /\ Has(<< a >>, Operators, a.id)
<1>1. 1 \in DOMAIN << a >> /\ \A e \in DOMAIN << a >> : << a >>[e] = a
  OBVIOUS
<1>2. DOMAIN << >> = {}
  OBVIOUS
<1>3. Formed(<< >>, f)
  BY <1>2 DEF Formed
<1>4. Formed(<< a >>, f)
  BY <1>1 DEF Formed
<1>5. << a >>[1] = a
  OBVIOUS
<1>6. QED
  BY <1>1, <1>3, <1>4, <1>5 DEF Has

\* The sections with the code of the leaf and the instruction it completes.
LastIn(k, v) ==
    /\ Formed(NewTypes', idReq) /\ Formed(NewFn', idReq)
    /\ \A ops, w : Has(NewTypes, ops, w) => Has(NewTypes', ops, w)
    /\ \A ops, w : Has(NewFn, ops, w) => Has(NewFn', ops, w)
    /\ k = "literal" => Has(NewTypes', {"Constant"}, CurrentId)
    /\ k = "load" => Has(NewFn', {"Load"}, CurrentId)
    /\ k = "convert" => Has(NewFn', {"Convert"}, CurrentId)
    /\ IF NotConst(k) THEN Has(NewFn', Operators, v) ELSE Has(NewTypes', Operators, v)

LEMMA LastSections ==
    ASSUME TInv, CodeIs, TreeIs, UNCHANGED mark, NEW k, NEW a, NEW X, NEW Y,
           Completes(k, a, X, Y)
    PROVE  LastIn(k, a.id)
<1>1. NewTypes \in Seq(TypesInstr) /\ NewFn \in Seq(FnInstr)
  BY NewCodeOK DEF CodeIs
<1>2. PICK A \in Seq(TypesInstr), B \in Seq(FnInstr) : A = Constants(k) /\ B = Loads(k)
  BY LeafSeqs
<1>3. PICK U \in Seq(TypesInstr), G \in Seq(FnInstr) : U = NewTypes \o A /\ G = NewFn \o B
  BY <1>1, ConcatProperties
<1>4. LeafIn(k, U, G, idReq)
  <2>1. Formed(NewTypes, idReq) /\ Formed(NewFn, idReq)
    BY DEF TreeIs
  <2>2. U = NewTypes \o Constants(k) /\ G = NewFn \o Loads(k)
    BY <1>2, <1>3
  <2>3. QED
    BY <2>1, <2>2, LeafSections
<1>5. PICK W, H : W = NewTypes' /\ H = NewFn'
  OBVIOUS
<1>6. W = U \o X /\ H = G \o Y
  <2>1. /\ types' = types \o A \o X /\ fnimpl' = fnimpl \o B \o Y
        /\ X \in Seq(TypesInstr) /\ Y \in Seq(FnInstr)
    BY <1>2 DEF Completes
  <2>2. mark[1] <= Len(types) /\ mark[2] <= Len(fnimpl)
    BY DEF CodeIs
  <2>3. NewTypes' = NewTypes \o A \o X /\ NewFn' = NewFn \o B \o Y
    <3>1. PICK V \in Seq(TypesInstr), Z \in Seq(FnInstr) : V = X /\ Z = Y
      BY <2>1
    <3>2. types' = types \o A \o V /\ fnimpl' = fnimpl \o B \o Z
      BY <2>1, <3>1
    <3>3. /\ NewTypes' = NewTypes \o A \o V /\ NewFn' = NewFn \o B \o Z
          /\ mark'[1] <= Len(types') /\ mark'[2] <= Len(fnimpl')
      BY <2>2, <3>2, CodeGrowsTwice, Zenon
    <3>4. QED
      BY <3>1, <3>3
  <2>4. QED
    BY <1>3, <1>5, <2>3, Zenon
<1>7. Behind(U, X, W) /\ Behind(G, Y, H)
  <2>1. X \in Seq(TypesInstr) /\ Y \in Seq(FnInstr)
    BY DEF Completes
  <2>2. QED
    BY <1>6, <2>1, PutBehind
<1>8. /\ Formed(<< a >>, idReq) /\ Formed(<< >>, idReq)
      /\ Has(<< a >>, Operators, a.id)
  BY OneFormed DEF Completes
<1>9. Formed(X, idReq) /\ Formed(Y, idReq)
  BY <1>8, Zenon DEF Completes
<1>10. Formed(W, idReq) /\ Formed(H, idReq)
  <2>1. Formed(U, idReq) /\ Formed(G, idReq)
    BY <1>4 DEF LeafIn
  <2>2. QED
    BY <1>7, <1>9, <2>1, FormedKept
<1>11. \A ops, v : /\ Has(U, ops, v) \/ Has(X, ops, v) => Has(W, ops, v)
                   /\ Has(G, ops, v) \/ Has(Y, ops, v) => Has(H, ops, v)
  BY <1>7, HasKept
<1>12. IF NotConst(k) THEN Has(Y, Operators, a.id) ELSE Has(X, Operators, a.id)
  BY <1>8, Zenon DEF Completes
<1>13. IF NotConst(k) THEN Has(H, Operators, a.id) ELSE Has(W, Operators, a.id)
  BY <1>11, <1>12, Zenon
<1>14. /\ \A ops, w : Has(NewTypes, ops, w) => Has(W, ops, w)
       /\ \A ops, w : Has(NewFn, ops, w) => Has(H, ops, w)
       /\ k = "literal" => Has(W, {"Constant"}, CurrentId)
       /\ k = "load" => Has(H, {"Load"}, CurrentId)
       /\ k = "convert" => Has(H, {"Convert"}, CurrentId)
  BY <1>4, <1>11, Zenon DEF LeafIn
<1>15. QED
  BY <1>5, <1>10, <1>13, <1>14, Zenon DEF LastIn

LEMMA OperandLastTree ==
    ASSUME TInv, Shape, CodeInv, TreeInv, NEW k \in Kinds, OperandLast(k) PROVE TreeInv'
<1>1. /\ open # << >> /\ pc = "visiting" /\ k \in AllKinds /\ << >> \in Seq(Place)
      /\ k \in {"literal", "load", "convert"} /\ Passed(k, << >>)
      /\ UNCHANGED << pc, broken, idReq, mark >>
      /\ scales' = Joined(Marked(k)) /\ notConst' = NotConst(k)
  BY KindsAssumption, EmptySeq DEF OperandLast, Value, Visits, Goes, Leaves
<1>2. ASSUME Sound' PROVE Brings(k)
  <2>1. LeftDeep /\ CodeIs /\ TreeIs
    BY <1>1, <1>2, TreeNow
  <2>2. /\ Len(open') = Len(open) - 1
        /\ \E d \in Nat \ {0}, f \in Nat, n \in Nat, c \in Nat, i \in Nat :
            /\ d = Depth /\ f = idReq /\ n = nextId /\ c = CurrentId
            /\ Len(scales) = d + 1 /\ Len(open) = d /\ Len(stack) = 2 * d - 1
            /\ Halfway /\ c = f + 2 * d
            /\ i = IF d = 1 THEN f ELSE f + 2 * d - 3
            /\ \A j \in 1..d : Numbered(scales[j + 1], j, f)
            /\ Defined' = Defined \cup LeafIds(k) \cup {i}
    BY <1>2, LastNow
  <2>3. PICK d \in Nat \ {0} : /\ Len(scales) = d + 1 /\ Len(open) = d
                               /\ Numbered(scales[d + 1], d, idReq)
    <3>1. \A d \in Nat \ {0} : d \in 1..d
      OBVIOUS
    <3>2. QED
      BY <2>2, <3>1
  <2>4. PICK a, X, Y : Completes(k, a, X, Y)
    BY <1>1, <2>3, Completed
  <2>5. LastIn(k, a.id)
    BY <1>1, <2>1, <2>4, LastSections
  <2>6. a.id = scales[d + 1].id
    BY <2>3, <2>4 DEF Completes
  <2>7. Carries
    <3>1. ASSUME NEW j \in 2..(d + 1), j # d + 1
          PROVE  \E q \in 2..Len(scales') : scales'[q].id = scales[j].id
      <4>1. PICK i \in 1..(d - 1) : j = i + 1
        <5>1. j - 1 \in 1..(d - 1) /\ j = (j - 1) + 1
          BY <3>1
        <5>2. QED
          BY <5>1
      <4>2. /\ Len(Joined(Marked(k))) = d
            /\ Joined(Marked(k))[i + 1].id = scales[i + 1].id
        BY <2>3, JoinedScales
      <4>3. j \in 2..d
        BY <4>1
      <4>4. QED
        BY <1>1, <4>1, <4>2, <4>3
    <3>2. Has(NewTypes', Operators, a.id) \/ Has(NewFn', Operators, a.id)
      BY <2>5 DEF LastIn
    <3>3. \A j \in 2..Len(scales) :
             \/ \E q \in 2..Len(scales') : scales'[q].id = scales[j].id
             \/ Has(NewTypes', Operators, scales[j].id)
             \/ Has(NewFn', Operators, scales[j].id)
      BY <2>3, <2>6, <3>1, <3>2, Zenon
    <3>4. QED
      BY <2>5, <3>3, Zenon DEF Carries, LastIn
  <2>8. Answers(k, CurrentId)
    BY <1>1, <2>5 DEF Answers, LastIn
  <2>9. Formed(NewTypes', idReq) /\ Formed(NewFn', idReq)
    BY <2>5 DEF LastIn
  <2>10. \A at : at = Len(visit) + 1 => Opened(k, at)
    BY <1>1, LeafOpens, TInvParts
  <2>11. ASSUME open' = << >> PROVE ValueIs'
    <3>1. d = 1
      BY <2>2, <2>3, <2>11
    <3>2. a.id = idReq
      BY <2>3, <2>6, <3>1 DEF Numbered
    <3>3. IF NotConst(k) THEN Has(NewFn', Operators, idReq)
                         ELSE Has(NewTypes', Operators, idReq)
      BY <2>5, <3>2 DEF LastIn
    <3>4. IF NotConst(k) THEN idReq \in Ids(NewFn') ELSE idReq \in Ids(NewTypes')
      BY <3>3, HasId
    <3>5. QED
      BY <1>1, <3>4 DEF ValueIs
  <2>12. QED
    BY <2>7, <2>8, <2>9, <2>10, <2>11 DEF Brings
<1>3. QED
  BY <1>1, <1>2, VisitTree

LEMMA NoNodes ==
    ASSUME visit = << >>, NewTypes = << >>, NewFn = << >>,
           ~(open = << >> /\ calls > 0)
    PROVE  TreeIs
<1>1. DOMAIN << >> = {}
  OBVIOUS
<1>2. Formed(NewTypes, idReq) /\ Formed(NewFn, idReq)
  BY <1>1 DEF Formed
<1>3. \A i \in DOMAIN visit : Placed(i) /\ Compiled(i) /\ Asks(i)
  BY <1>1
<1>4. QED
  BY <1>2, <1>3 DEF TreeIs

LEMMA BeginTree == ASSUME TInv, Begin PROVE TreeInv'
<1>1. /\ types' = types /\ fnimpl' = fnimpl /\ visit' = << >>
      /\ mark' = << Len(types), Len(fnimpl) >>
      /\ open' # << >> /\ pc' = "visiting"
  BY DEF Begin, Asked, code
<1>2. types \in Seq(TypesInstr) /\ fnimpl \in Seq(FnInstr)
  BY TInvParts DEF CodeOK
<1>3. Tail2(types, Len(types)) = << >> /\ Tail2(fnimpl, Len(fnimpl)) = << >>
  BY <1>2, NothingNew
<1>4. NewTypes' = << >> /\ NewFn' = << >>
  BY <1>1, <1>3 DEF NewTypes, NewFn
<1>5. TreeIs'
  <2>1. DOMAIN << >> = {}
    OBVIOUS
  <2>2. Formed(NewTypes, idReq)' /\ Formed(NewFn, idReq)'
    BY <1>4, <2>1 DEF Formed
  <2>3. \A i \in DOMAIN visit' : Placed(i)' /\ Compiled(i)' /\ Asks(i)'
    BY <1>1, <2>1
  <2>4. QED
    BY <1>1, <2>2, <2>3, Zenon DEF TreeIs
<1>6. QED
  BY <1>1, <1>5 DEF TreeInv

LEMMA InitTree == ASSUME Init PROVE TreeInv
<1>1. /\ open = << >> /\ visit = << >> /\ calls = 0 /\ pc = "idle"
      /\ types = << >> /\ fnimpl = << >> /\ mark = << 0, 0 >>
  BY DEF Init
<1>2. types \in Seq(Nat) /\ fnimpl \in Seq(Nat) /\ Len(types) = 0 /\ Len(fnimpl) = 0
  BY <1>1, EmptySeq
<1>3. NewTypes = << >> /\ NewFn = << >>
  BY <1>1, <1>2, NothingNew DEF NewTypes, NewFn
<1>4. ~(calls > 0)
  BY <1>1
<1>5. QED
  BY <1>1, <1>3, <1>4, NoNodes DEF TreeInv

LEMMA TreeKept ==
    ASSUME TreeIs,
           UNCHANGED << open, visit, scales, types, fnimpl, mark, idReq, notConst, calls >>
    PROVE  TreeIs'
<1>1. NewTypes' = NewTypes /\ NewFn' = NewFn
  BY DEF NewTypes, NewFn
<1>2. Nodes' = Nodes
  BY DEF Nodes
<1>3. ASSUME NEW i \in DOMAIN visit PROVE Placed(i)'
  <2>1. Placed(i)
    BY DEF TreeIs
  <2>2. QED
    BY <2>1 DEF Placed
<1>4. ASSUME NEW i \in DOMAIN visit PROVE Compiled(i)'
  <2>1. Compiled(i)
    BY DEF TreeIs
  <2>2. QED
    BY <1>1, <2>1 DEF Compiled
<1>5. ASSUME NEW i \in DOMAIN visit PROVE Asks(i)'
  <2>1. Asks(i)
    BY DEF TreeIs
  <2>2. QED
    BY <1>2, <2>1 DEF Asks
<1>6. Formed(NewTypes, idReq)' /\ Formed(NewFn, idReq)'
  BY <1>1 DEF TreeIs
<1>7. (open' = << >> /\ calls' > 0) => ValueIs'
  BY <1>1 DEF TreeIs, ValueIs
<1>8. visit' = visit
  OBVIOUS
<1>9. QED
  BY <1>3, <1>4, <1>5, <1>6, <1>7, <1>8, Zenon DEF TreeIs

LEMMA NextTree ==
    ASSUME TInv, Shape, CodeInv, TreeInv, [Next]_vars PROVE TreeInv'
<1>1. CASE Begin
  BY <1>1, BeginTree
<1>2. CASE \E k \in Kinds : Transparent(k) \/ Operand(k) \/ OperandLast(k)
  BY <1>2, TransparentTree, OperandTree, OperandLastTree
<1>3. CASE Operator
  BY <1>3, OperatorTree
<1>4. ASSUME broken' = TRUE PROVE TreeInv'
  BY <1>4 DEF TreeInv, Sound
<1>5. CASE \/ BeginFails \/ OperatorFails \/ OperatorRefused \/ OperandForeign
           \/ \E k \in Kinds : OperandFails(k) \/ OperandLastFails(k)
  BY <1>4, <1>5 DEF BeginFails, OperatorFails, OperatorRefused, OperandForeign,
                    OperandFails, OperandLastFails, Break
<1>6. CASE Wild
  BY <1>6 DEF Wild, TreeInv, Sound
<1>7. ASSUME UNCHANGED << tree, bufs, notConst, idReq, code, mark, broken, calls >>,
             pc' # "crashed" => pc # "crashed"
      PROVE  Sound' => Sound /\ TreeIs'
  <2>1. LeftDeep' = LeftDeep
    BY <1>7 DEF LeftDeep, tree
  <2>2. Sound' => Sound
    BY <1>7, <2>1 DEF Sound
  <2>3. Sound => TreeIs
    BY DEF TreeInv
  <2>4. UNCHANGED << open, visit, scales, types, fnimpl, mark, idReq, notConst, calls >>
    BY <1>7 DEF tree, bufs, code
  <2>5. QED
    BY <2>2, <2>3, <2>4, TreeKept
<1>8. CASE Return
  BY <1>7, <1>8 DEF Return, TreeInv
<1>9. CASE Finished \/ UNCHANGED vars
  <2>1. /\ UNCHANGED << tree, bufs, notConst, idReq, code, mark, broken, calls >>
        /\ UNCHANGED << pc, answer >>
    BY <1>9 DEF Finished, vars
  <2>2. Sound' => Sound /\ TreeIs'
    BY <1>7, <2>1
  <2>3. Answer(notConst)' = Answer(notConst)
    BY <2>1
  <2>4. QED
    BY <2>1, <2>2, <2>3 DEF TreeInv
<1>10. QED
  BY <1>1, <1>2, <1>3, <1>5, <1>6, <1>8, <1>9 DEF Next

\* The ids behind a mark.
LEMMA TailIds ==
    ASSUME NEW S, NEW s \in Seq(S), NEW n \in Nat, n <= Len(s), NEW v
    PROVE  v \in Ids(Tail2(s, n)) <=> \E i \in (n + 1)..Len(s) : s[i].id = v
<1>1. PICK l \in Nat : l = Len(s)
  OBVIOUS
<1>2. PICK u : u = Tail2(s, n)
  OBVIOUS
<1>3. DOMAIN u = 1..(l - n) /\ \A i \in 1..(l - n) : u[i] = s[n + i]
  <2>1. \A i \in (n + 1)..l : s[i] \in S
    BY <1>1
  <2>2. /\ u \in Seq(S)
        /\ Len(u) = IF n + 1 <= l THEN l - (n + 1) + 1 ELSE 0
        /\ \A i \in 1..(l - (n + 1) + 1) : u[i] = s[n + 1 + i - 1]
    BY <1>1, <1>2, <2>1, SubSeqProperties DEF Tail2
  <2>3. l - (n + 1) + 1 = l - n /\ (~(n + 1 <= l) => l - n = 0)
    BY <1>1
  <2>4. Len(u) = l - n
    BY <2>2, <2>3
  <2>5. \A i \in 1..(l - n) : n + 1 + i - 1 = n + i
    OBVIOUS
  <2>6. QED
    BY <2>2, <2>3, <2>4, <2>5
<1>4. ASSUME NEW i \in 1..(l - n), u[i].id = v
      PROVE  \E j \in (n + 1)..l : s[j].id = v
  <2>1. n + i \in (n + 1)..l /\ s[n + i].id = v
    BY <1>3, <1>4
  <2>2. QED
    BY <2>1
<1>5. ASSUME NEW j \in (n + 1)..l, s[j].id = v
      PROVE  \E i \in 1..(l - n) : u[i].id = v
  <2>1. PICK i \in 1..(l - n) : j = n + i
    <3>1. j - n \in 1..(l - n) /\ j = n + (j - n)
      OBVIOUS
    <3>2. QED
      BY <3>1
  <2>2. u[i].id = v
    BY <1>3, <1>5, <2>1
  <2>3. QED
    BY <2>2
<1>6. QED
  BY <1>1, <1>2, <1>3, <1>4, <1>5 DEF Ids

\* The operand of a node that was visited to the end.
LEMMA OperandIs ==
    ASSUME TreeIs, open = << >>, NEW i \in Nodes, visit[i].kind = "op",
           NEW s \in {"left", "right"}
    PROVE  visit[OperandOf(i, s)].id = IF s = "left" THEN LeftId(visit[i].id, idReq)
                                                     ELSE RightId(visit[i].id, idReq)
<1>1. i \in DOMAIN visit /\ Asks(i)
  BY DEF Nodes, TreeIs
<1>2. DOMAIN open = {}
  OBVIOUS
<1>3. \E j \in Nodes : visit[j].par = i /\ visit[j].side = s
  <2>1. \/ \E j \in Nodes : visit[j].par = i /\ visit[j].side = s
        \/ \E m \in DOMAIN open : open[m].par = i /\ open[m].side = s
    BY <1>1, Zenon DEF Asks
  <2>2. QED
    BY <1>2, <2>1
<1>4. PICK j : j = OperandOf(i, s)
  OBVIOUS
<1>5. j \in Nodes /\ visit[j].par = i /\ visit[j].side = s
  BY <1>3, <1>4, Zenon DEF OperandOf
<1>6. Placed(j)
  BY <1>5 DEF Nodes, TreeIs
<1>7. visit[j].side # "root"
  BY <1>5
<1>8. visit[j].id = IF visit[j].side = "left"
                    THEN LeftId(visit[visit[j].par].id, idReq)
                    ELSE RightId(visit[visit[j].par].id, idReq)
  BY <1>6, <1>7, Zenon DEF Placed
<1>9. QED
  BY <1>4, <1>5, <1>8

\* The code of a call in one sequence.
LEMMA EmittedIs ==
    ASSUME TInv, CodeIs, TreeIs
    PROVE  /\ Once(Emitted) /\ Formed(Emitted, idReq)
           /\ \A ops, v : Has(NewTypes, ops, v) \/ Has(NewFn, ops, v) => Has(Emitted, ops, v)
<1>1. PICK T \in Seq(TypesInstr), F \in Seq(FnInstr), f \in Nat, n \in Nat :
           /\ T = NewTypes /\ F = NewFn /\ f = idReq /\ n = nextId
  BY NewCodeOK, TInvParts DEF CodeIs, RestOK
<1>2. Good(T, F, f, n)
  BY <1>1 DEF CodeIs
<1>3. PICK e : e = Emitted /\ e = T \o F
  BY <1>1 DEF Emitted, NewTypes, NewFn
<1>4. Once(e)
  BY <1>2, <1>3, GoodEmitted
<1>5. Behind(T, F, e)
  <2>1. T \in Seq(TypesInstr \cup FnInstr) /\ F \in Seq(TypesInstr \cup FnInstr)
    OBVIOUS
  <2>2. QED
    BY <1>3, <2>1, PutBehind
<1>6. Formed(e, f)
  <2>1. Formed(NewTypes, idReq) /\ Formed(NewFn, idReq)
    BY DEF TreeIs
  <2>2. Formed(T, f) /\ Formed(F, f)
    BY <1>1, <2>1, Zenon
  <2>3. QED
    BY <1>5, <2>2, FormedKept
<1>7. \A ops, v : Has(T, ops, v) \/ Has(F, ops, v) => Has(e, ops, v)
  BY <1>5, HasKept
<1>8. Once(Emitted) /\ Formed(Emitted, idReq)
  BY <1>1, <1>3, <1>4, <1>6, Zenon
<1>9. \A ops, v : Has(NewTypes, ops, v) \/ Has(NewFn, ops, v) => Has(Emitted, ops, v)
  BY <1>1, <1>3, <1>7, Zenon
<1>10. QED
  BY <1>8, <1>9

\* The instruction of an id.
LEMMA DefinitionIs ==
    ASSUME Once(Emitted), NEW i, NEW ops, Has(Emitted, ops, visit[i].id)
    PROVE  \E e \in DOMAIN Emitted : /\ DefinitionOf(i) = {e}
                                     /\ Emitted[e].op \in ops
                                     /\ Emitted[e].id = visit[i].id
<1>1. PICK e \in DOMAIN Emitted : Emitted[e].id = visit[i].id /\ Emitted[e].op \in ops
  BY DEF Has
<1>2. \A g \in DOMAIN Emitted : Emitted[g].id = visit[i].id => g = e
  BY <1>1 DEF Once
<1>3. DefinitionOf(i) = {e}
  BY <1>1, <1>2 DEF DefinitionOf
<1>4. QED
  BY <1>1, <1>3

\* The instructions a node can be compiled to.
OpsOf(k) == CASE k = "literal" -> {"Constant"} [] k = "load" -> {"Load"}
              [] k = "convert" -> {"Convert"} [] OTHER -> Operators

LEMMA NodeTranslates ==
    ASSUME TInv, CodeIs, TreeIs, open = << >>, NEW i \in Nodes
    PROVE  Translates(i)
<1>1. Placed(i) /\ Compiled(i) /\ visit[i].kind \in {"literal", "load", "convert", "op"}
  <2>1. i \in DOMAIN visit /\ visit[i].kind # "paren"
    BY DEF Nodes
  <2>2. Placed(i) /\ Compiled(i)
    BY <2>1 DEF TreeIs
  <2>3. QED
    BY <2>1, <2>2 DEF Placed
<1>2. PICK v : v = visit[i].id
  OBVIOUS
<1>3. PICK ops : ops = OpsOf(visit[i].kind)
  OBVIOUS
<1>4. Has(NewTypes, ops, v) \/ Has(NewFn, ops, v)
  <2>1. scales \in Seq(ScaleType) /\ Len(scales) <= 1
    BY TInvParts DEF BufsOK, CodeIs
  <2>2. ~(\E k \in 2..Len(scales) : scales[k].id = v)
    BY <2>1
  <2>3. CASE visit[i].kind = "literal"
    <3>1. ops = {"Constant"}
      BY <1>3, <2>3 DEF OpsOf
    <3>2. QED
      BY <1>1, <1>2, <2>3, <3>1, Zenon DEF Compiled
  <2>4. CASE visit[i].kind = "load"
    <3>1. ops = {"Load"}
      BY <1>3, <2>4 DEF OpsOf
    <3>2. QED
      BY <1>1, <1>2, <2>4, <3>1, Zenon DEF Compiled
  <2>5. CASE visit[i].kind = "convert"
    <3>1. ops = {"Convert"}
      BY <1>3, <2>5 DEF OpsOf
    <3>2. QED
      BY <1>1, <1>2, <2>5, <3>1, Zenon DEF Compiled
  <2>6. CASE visit[i].kind = "op"
    <3>1. ops = Operators
      BY <1>3, <2>6 DEF OpsOf
    <3>2. QED
      BY <1>1, <1>2, <2>2, <2>6, <3>1, Zenon DEF Compiled
  <2>7. QED
    BY <1>1, <2>3, <2>4, <2>5, <2>6
<1>5. Once(Emitted) /\ Formed(Emitted, idReq) /\ Has(Emitted, ops, visit[i].id)
  BY <1>2, <1>4, EmittedIs, Zenon
<1>6. PICK e \in DOMAIN Emitted : /\ DefinitionOf(i) = {e}
                                  /\ Emitted[e].op \in ops /\ Emitted[e].id = visit[i].id
  BY <1>5, DefinitionIs, Zenon
<1>7. visit[i].side = "root" => visit[i].id = idReq
  BY <1>1 DEF Placed
<1>8. /\ visit[i].kind = "literal" => Emitted[e].op = "Constant"
      /\ visit[i].kind = "load" => Emitted[e].op = "Load"
      /\ visit[i].kind = "convert" => Emitted[e].op = "Convert"
      /\ visit[i].kind = "op" => Emitted[e].op \in Operators
  BY <1>3, <1>6 DEF OpsOf
<1>9. ASSUME visit[i].kind = "op"
      PROVE  Emitted[e].args = << visit[OperandOf(i, "left")].id,
                                  visit[OperandOf(i, "right")].id >>
  <2>1. visit[OperandOf(i, "left")].id = LeftId(visit[i].id, idReq)
    BY <1>9, OperandIs
  <2>2. visit[OperandOf(i, "right")].id = RightId(visit[i].id, idReq)
    BY <1>9, OperandIs
  <2>3. Emitted[e].args = << LeftId(Emitted[e].id, idReq), RightId(Emitted[e].id, idReq) >>
    BY <1>5, <1>8, <1>9, Zenon DEF Formed
  <2>4. QED
    BY <1>6, <2>1, <2>2, <2>3
<1>10. QED
  BY <1>6, <1>7, <1>8, <1>9, Zenon DEF Translates, Operators

\* The answer says in which section the value is.
LEMMA AnswerIs ==
    ASSUME TInv, CodeIs, TreeIs, open = << >>, calls > 0, answer = Answer(notConst)
    PROVE  answer = "SUCCESS_CONSTANT" <=>
               \E i \in (mark[1] + 1)..Len(types) : types[i].id = idReq
<1>1. types \in Seq(TypesInstr) /\ mark[1] \in Nat /\ mark[1] <= Len(types)
  BY TInvParts DEF CodeOK, RestOK, CodeIs
<1>2. idReq \in Ids(NewTypes) <=> \E i \in (mark[1] + 1)..Len(types) : types[i].id = idReq
  BY <1>1, TailIds DEF NewTypes
<1>3. Ids(NewTypes) \cap Ids(NewFn) = {}
  BY DEF CodeIs, Good
<1>4. ValueIs
  BY DEF TreeIs
<1>5. notConst <=> idReq \notin Ids(NewTypes)
  BY <1>3, <1>4 DEF ValueIs
<1>6. answer = "SUCCESS_CONSTANT" <=> ~notConst
  BY DEF Answer
<1>7. QED
  BY <1>2, <1>5, <1>6, Zenon

LEMMA TreeTranslates ==
    ASSUME TInv, CodeInv, TreeInv PROVE TranslatesExpression
<1>1. SUFFICES ASSUME pc = "answered", calls > 0, Sound
               PROVE  /\ Translated
                      /\ answer = "SUCCESS_CONSTANT" <=>
                            \E i \in (mark[1] + 1)..Len(types) : types[i].id = idReq
  BY DEF TranslatesExpression
<1>2. CodeIs /\ TreeIs /\ open = << >> /\ answer = Answer(notConst)
  BY <1>1 DEF CodeInv, TreeInv
<1>3. Translated
  BY <1>2, NodeTranslates DEF Translated
<1>4. answer = "SUCCESS_CONSTANT" <=>
          \E i \in (mark[1] + 1)..Len(types) : types[i].id = idReq
  BY <1>1, <1>2, AnswerIs, Zenon
<1>5. QED
  BY <1>3, <1>4

\* A call that ran to its end has translated the expression: each node into one
\* instruction of its kind, an operator over the values of its own left and
\* right operand, the root under the id that was asked for, in the section the
\* answer names - though a visit passes nothing but a stack of ids, a stack of
\* scales and one counter from node to node.
THEOREM ExpressionsAreTranslated == Spec => []TranslatesExpression
<1> DEFINE Inv == TInv /\ Shape /\ CodeInv /\ TreeInv
<1>1. Init => Inv
  BY InitTInv, InitCode, InitTree DEF Init, Shape
<1>2. Inv /\ [Next]_vars => Inv'
  BY NextTInv, NextShape, NextCode, NextTree
<1>3. Inv => TranslatesExpression
  BY TreeTranslates
<1>4. QED
  BY <1>1, <1>2, <1>3, PTL DEF Spec
=============================================================================
