--------------------------- MODULE AssemblyProofs ---------------------------
(***************************************************************************)
(* The types of Assembly, the promise to the caller (OutputOwned) and what *)
(* the module consists of (Layout), for any number of words in each        *)
(* section.                                                                *)
(***************************************************************************)
EXTENDS Assembly, WellFoundedInduction, SequenceTheorems, TLAPS

\* While the module is copied, and once it was, the words that are announced
\* are there; before, and on every other way to the cleanup, there are none.
Announced ==
    /\ pc = "copy" => ~err
    /\ (pc = "copy" \/ (pc = "cleanup" /\ ~err)) => numRet # 0 /\ Len(ret) = numRet
    /\ (pc = "emit" \/ (pc = "cleanup" /\ err)) => ret = Nothing

IInv == TypeOK /\ Announced /\ OutputOwned

LEMMA OrderFacts ==
    /\ Len(Order) = 10
    /\ Order \in [1..10 -> Sections]
    /\ \A s \in {"capability", "ext", "memmodel", "entp", "execmode",
                 "name", "decorate", "types", "vars", "fndef"} : s \in Sections
<1>1. Len(Order) = 10 /\ DOMAIN Order = 1..10
  BY DEF Order
<1>2. \A i \in 1..10 : Order[i] \in Sections
  BY <1>1 DEF Sections
<1>3. /\ Order[1] = "capability" /\ Order[2] = "ext" /\ Order[3] = "memmodel"
      /\ Order[4] = "entp" /\ Order[5] = "execmode" /\ Order[6] = "name"
      /\ Order[7] = "decorate" /\ Order[8] = "types" /\ Order[9] = "vars"
      /\ Order[10] = "fndef"
  BY DEF Order
<1>4. Order = [i \in 1..10 |-> Order[i]]
  BY <1>1 DEF Order
<1>5. QED
  BY <1>1, <1>2, <1>3, <1>4

\* The words of a section are words of the module.
LEMMA WordsFacts ==
    ASSUME NEW s \in Sections
    PROVE  /\ SectionWord(s) \subseteq ModuleWord
           /\ Blank \in SectionWord(s)
           /\ \A k \in 1..Room[s] : << s, k >> \in SectionWord(s)
BY DEF SectionWord, ModuleWord

LEMMA HeaderFacts ==
    ASSUME NEW n \in Nat
    PROVE  /\ Garbage \in ModuleWord
           /\ \A i \in 1..HeaderWords : Header(n)[i] \in ModuleWord
<1>1. Header(n)[1] = Header(0)[1] /\ Header(n)[2] = Header(0)[2]
  BY DEF Header
<1>2. Header(n)[3] = Number(0) /\ Header(n)[4] = Number(n) /\ Header(n)[5] = Number(0)
  BY DEF Header
<1>3. Number(0) \in ModuleWord /\ Number(n) \in ModuleWord
  BY DEF Number, ModuleWord
<1>4. Header(0)[1] \in ModuleWord /\ Header(0)[2] \in ModuleWord /\ Garbage \in ModuleWord
  BY DEF ModuleWord
<1>5. \A i \in 1..HeaderWords : i = 1 \/ i = 2 \/ i = 3 \/ i = 4 \/ i = 5
  BY DEF HeaderWords
<1>6. QED
  BY <1>1, <1>2, <1>3, <1>4, <1>5

LEMMA TotalFacts == ASSUME TypeOK PROVE Total \in Nat /\ Total >= HeaderWords
<1>1. \A s \in Sections : Count(s) \in Nat
  BY DEF TypeOK, Count
<1>2. QED
  BY <1>1, OrderFacts DEF Total, HeaderWords

\* A section whose words change, and nothing of the others.
LEMMA SectionTyped ==
    ASSUME TypeOK, NEW t \in Sections, NEW held \in BOOLEAN, NEW ws \in Seq(SectionWord(t)),
           Len(ws) <= Room[t],
           section' = [section EXCEPT ![t] = [held |-> held, words |-> ws]]
    PROVE  /\ section' \in [Sections -> [held : BOOLEAN, words : Seq(ModuleWord)]]
           /\ \A s \in Sections : /\ Len(section'[s].words) <= Room[s]
                                  /\ section'[s].words \in Seq(SectionWord(s))
<1>1. ws \in Seq(ModuleWord)
  BY WordsFacts
<1>2. section \in [Sections -> [held : BOOLEAN, words : Seq(ModuleWord)]]
  BY DEF TypeOK
<1>3. section' \in [Sections -> [held : BOOLEAN, words : Seq(ModuleWord)]]
  BY <1>1, <1>2
<1>4. ASSUME NEW s \in Sections
      PROVE  Len(section'[s].words) <= Room[s] /\ section'[s].words \in Seq(SectionWord(s))
  <2>1. CASE s = t
    BY <1>2, <2>1
  <2>2. CASE s # t
    BY <1>2, <2>2 DEF TypeOK, Count
  <2>3. QED
    BY <2>1, <2>2
<1>5. QED
  BY <1>3, <1>4

LEMMA InitIInv == Init => IInv
<1> SUFFICES ASSUME Init PROVE IInv
  OBVIOUS
<1>1. section \in [Sections -> [held : BOOLEAN, words : Seq(ModuleWord)]]
  BY DEF Init, NoSection
<1>2. \A s \in Sections : Count(s) <= Room[s] /\ section[s].words \in Seq(SectionWord(s))
  <2>1. ASSUME NEW s \in Sections
        PROVE  Count(s) <= Room[s] /\ section[s].words \in Seq(SectionWord(s))
    <3>1. section[s].words = << >> /\ Room[s] \in Nat
      BY RoomAssumption DEF Init, NoSection
    <3>2. Count(s) = 0
      BY <3>1 DEF Count
    <3>3. QED
      BY <3>1, <3>2
  <2>2. QED
    BY <2>1
<1>3. copied \in 0..Len(Order)
  BY OrderFacts DEF Init
<1>4. output \in [wanted : BOOLEAN, words : Seq(ModuleWord), count : Nat]
  BY DEF Init, Nothing
<1>5. TypeOK
  BY <1>1, <1>2, <1>3, <1>4 DEF TypeOK, Init, Nothing
<1>6. QED
  BY <1>5 DEF IInv, Announced, OutputOwned, Init

\* The words change while no module is there and none is copied.
LEMMA Emitting ==
    ASSUME IInv, NEW t \in Sections, NEW held \in BOOLEAN, NEW ws \in Seq(SectionWord(t)),
           Len(ws) <= Room[t],
           section' = [section EXCEPT ![t] = [held |-> held, words |-> ws]],
           err' \in BOOLEAN, pc = "emit",
           pc' = "emit" \/ (pc' = "cleanup" /\ err'),
           UNCHANGED << ret, numRet, copied, output >>
    PROVE  IInv'
<1>1. /\ section' \in [Sections -> [held : BOOLEAN, words : Seq(ModuleWord)]]
      /\ \A s \in Sections : Len(section'[s].words) <= Room[s]
                             /\ section'[s].words \in Seq(SectionWord(s))
  BY SectionTyped DEF IInv
<1>2. TypeOK'
  BY <1>1 DEF IInv, TypeOK, Count
<1>3. Announced' /\ OutputOwned'
  BY DEF IInv, Announced, OutputOwned
<1>4. QED
  BY <1>2, <1>3 DEF IInv

LEMMA EmitInv == ASSUME IInv, NEW s \in Sections, Emit(s) PROVE IInv'
<1> DEFINE ws == Append(section[s].words, << s, Len(section[s].words) + 1 >>)
<1>1. section[s].words \in Seq(SectionWord(s)) /\ Len(section[s].words) < Room[s]
      /\ Room[s] \in Nat
  BY RoomAssumption DEF IInv, TypeOK, Emit, Count
<1>2. Len(section[s].words) + 1 \in 1..Room[s]
  BY <1>1
<1>3. << s, Len(section[s].words) + 1 >> \in SectionWord(s)
  BY <1>2, WordsFacts
<1>4. ws \in Seq(SectionWord(s)) /\ Len(ws) <= Room[s]
  BY <1>1, <1>3
<1>5. section' = [section EXCEPT ![s] = [held |-> TRUE, words |-> ws]]
  BY DEF Emit
<1>6. QED
  BY <1>4, <1>5, Emitting DEF Emit, IInv, TypeOK

LEMMA EmitFailsInv == ASSUME IInv, NEW s \in Sections, EmitFails(s) PROVE IInv'
<1>1. section' = [section EXCEPT ![s] = [held |-> FALSE, words |-> << >>]]
  BY DEF EmitFails, NoSection
<1>2. << >> \in Seq(SectionWord(s)) /\ Len(<< >>) <= Room[s]
  BY RoomAssumption
<1>3. /\ pc = "emit" /\ err' \in BOOLEAN
      /\ pc' = "emit" \/ (pc' = "cleanup" /\ err')
      /\ UNCHANGED << ret, numRet, copied, output >>
  BY DEF EmitFails, IInv, TypeOK
<1>4. QED
  BY <1>1, <1>2, <1>3, Emitting

LEMMA ExprFailsInv == ASSUME IInv, ExprFails PROVE IInv'
<1> DEFINE old == section["types"].words
           ws == [i \in DOMAIN old |-> Blank]
<1>1. "types" \in Sections
  BY OrderFacts
<1>2. old \in Seq(SectionWord("types")) /\ Len(old) <= Room["types"]
  BY <1>1 DEF IInv, TypeOK, Count
<1>3. ws \in Seq(SectionWord("types")) /\ Len(ws) = Len(old)
  BY <1>1, <1>2, WordsFacts
<1>4. section' = [section EXCEPT !["types"] = [held |-> FALSE, words |-> ws]]
  BY DEF ExprFails
<1>5. QED
  BY <1>1, <1>2, <1>3, <1>4, Emitting DEF ExprFails

LEMMA StartAsmInv == ASSUME IInv, StartAsm PROVE IInv'
<1> DEFINE word(i) == IF i <= HeaderWords THEN Header(Total)[i] ELSE Garbage
<1>1. Total \in Nat /\ Total >= HeaderWords
  BY TotalFacts DEF IInv
<1>2. ASSUME NEW i \in 1..Total PROVE word(i) \in ModuleWord
  BY <1>1, HeaderFacts DEF HeaderWords
<1>3. ret' = [i \in 1..Total |-> word(i)]
  BY DEF StartAsm
<1> HIDE DEF word
<1>4. ret' \in Seq(ModuleWord) /\ Len(ret') = Total
  BY <1>1, <1>2, <1>3
<1>5. numRet' = Total /\ Total # 0
  BY <1>1 DEF StartAsm, HeaderWords
<1>6. TypeOK'
  BY <1>1, <1>4, <1>5 DEF IInv, TypeOK, StartAsm, Count
<1>7. Announced' /\ OutputOwned'
  BY <1>4, <1>5 DEF Announced, OutputOwned, StartAsm
<1>8. QED
  BY <1>6, <1>7 DEF IInv

LEMMA CopySectionInv == ASSUME IInv, CopySection PROVE IInv'
<1> DEFINE n == copied + 1
           ws == Source(n).words
           word(i) == IF i - Offset(n) \in DOMAIN ws THEN ws[i - Offset(n)] ELSE ret[i]
<1>1. copied' \in 0..Len(Order) /\ Order[n] \in Sections
  <2>1. Len(Order) = 10 /\ copied \in 0..10 /\ copied < 10
    BY OrderFacts DEF IInv, TypeOK, CopySection
  <2>2. n \in 1..10
    BY <2>1
  <2>3. copied' = n
    BY DEF CopySection
  <2>4. QED
    BY <2>1, <2>2, <2>3, OrderFacts
<1>2. ws \in Seq(ModuleWord)
  BY <1>1 DEF Source, IInv, TypeOK
<1>3. ret \in Seq(ModuleWord) /\ Len(ret) = numRet /\ numRet # 0 /\ numRet \in Nat
  BY DEF IInv, TypeOK, Announced, CopySection
<1>4. ret' = [i \in DOMAIN ret |-> word(i)]
  BY DEF CopySection, Overwritten
<1>5. ASSUME NEW i \in DOMAIN ret PROVE word(i) \in ModuleWord
  BY <1>2, <1>3
<1> HIDE DEF word, ws
<1>6. ret' \in Seq(ModuleWord) /\ Len(ret') = numRet
  BY <1>3, <1>4, <1>5
<1>7. TypeOK'
  BY <1>1, <1>3, <1>6 DEF IInv, TypeOK, CopySection, Count
<1>8. Announced' /\ OutputOwned'
  BY <1>3, <1>6 DEF IInv, Announced, OutputOwned, CopySection
<1>9. QED
  BY <1>7, <1>8 DEF IInv

LEMMA ReturnInv == ASSUME IInv, Return PROVE IInv'
<1>1. PICK wanted \in BOOLEAN :
         output' = [wanted |-> wanted, count |-> numRet,
                    words |-> IF wanted THEN ret ELSE Nothing]
  BY DEF Return
<1>2. /\ section' \in [Sections -> [held : BOOLEAN, words : Seq(ModuleWord)]]
      /\ \A s \in Sections : section'[s].words = << >>
  BY DEF Return, NoSection
<1>3. \A s \in Sections : Len(section'[s].words) <= Room[s]
                          /\ section'[s].words \in Seq(SectionWord(s))
  BY <1>2, RoomAssumption
<1>4. ret \in Seq(ModuleWord) /\ numRet \in Nat
  BY DEF IInv, TypeOK
<1>5. output' \in [wanted : BOOLEAN, words : Seq(ModuleWord), count : Nat]
  BY <1>1, <1>4 DEF Nothing
<1>6. ret' \in Seq(ModuleWord) /\ Len(ret') = 0
  BY DEF Return, Nothing
<1>7. TypeOK'
  BY <1>2, <1>3, <1>5, <1>6 DEF IInv, TypeOK, Return, Count
<1>8. OutputOwned'
  <2>1. CASE err
    BY <1>1, <2>1 DEF IInv, Announced, OutputOwned, Return
  <2>2. CASE ~err
    <3>1. numRet # 0 /\ Len(ret) = numRet
      BY <2>2 DEF IInv, Announced, Return
    <3>2. ret # Nothing
      BY <3>1 DEF Nothing
    <3>3. QED
      BY <1>1, <2>2, <3>1, <3>2 DEF OutputOwned, Return
  <2>3. QED
    BY <2>1, <2>2
<1>9. QED
  BY <1>7, <1>8 DEF IInv, Announced, Return

LEMMA NextInv == ASSUME IInv, [Next]_vars PROVE IInv'
<1>1. CASE \E s \in Sections : Emit(s)
  BY <1>1, EmitInv
<1>2. CASE \E s \in Sections : EmitFails(s)
  BY <1>2, EmitFailsInv
<1>3. CASE ExprFails
  BY <1>3, ExprFailsInv
<1>4. CASE ExprSucceeds
  BY <1>4 DEF ExprSucceeds, IInv, TypeOK, Announced, OutputOwned, Count
<1>5. CASE GiveUp
  BY <1>5 DEF GiveUp, IInv, TypeOK, Announced, OutputOwned, Count
<1>6. CASE StartAsm
  BY <1>6, StartAsmInv
<1>7. CASE StartAsmFails
  BY <1>7, TotalFacts DEF StartAsmFails, IInv, TypeOK, Announced, OutputOwned, Count, Nothing
<1>8. CASE CopySection
  BY <1>8, CopySectionInv
<1>9. CASE CopyNull
  BY <1>9 DEF CopyNull, IInv, TypeOK, Announced, OutputOwned, Count
<1>10. CASE AsmEnds
  BY <1>10 DEF AsmEnds, IInv, TypeOK, Announced, OutputOwned, Count
<1>11. CASE Return
  BY <1>11, ReturnInv
<1>12. CASE Finished \/ UNCHANGED vars
  BY <1>12 DEF Finished, vars, IInv, TypeOK, Announced, OutputOwned, Count
<1>13. QED
  BY <1>1, <1>2, <1>3, <1>4, <1>5, <1>6, <1>7, <1>8, <1>9, <1>10, <1>11, <1>12 DEF Next

\* The invariant of the emission and of impl_asm.
THEOREM Inductive == Spec => []IInv
<1>1. Init => IInv
  BY InitIInv
<1>2. IInv /\ [Next]_vars => IInv'
  BY NextInv
<1>3. QED
  BY <1>1, <1>2, PTL DEF Spec

\* The variables of impl_asm keep their types, m_ret the length m_num_ret.
THEOREM TypeCorrect == Spec => []TypeOK
<1>1. IInv => TypeOK
  BY DEF IInv
<1>2. QED
  BY <1>1, Inductive, PTL

\* Who is told ACLSPV_COMPILE_OK has the words that are announced, and nobody
\* else has any, however the sections failed and whatever their sizes.
THEOREM OutputOwnedAlways == Spec => []OutputOwned
<1>1. IInv => OutputOwned
  BY DEF IInv
<1>2. QED
  BY <1>1, Inductive, PTL
------------------------------------------------------------------------------
(***************************************************************************)
(* Recursive functions over 0..n.  Induction is over the members of a set  *)
(* of naturals, by its least element.                                      *)
(***************************************************************************)
LEMMA Least ==
    ASSUME NEW T \in SUBSET Nat, T # {}
    PROVE  \E x \in T : \A y \in T : x <= y
<1> DEFINE R == OpToRel(<, Nat)
<1>1. IsWellFoundedOn(R, Nat)
  BY NatLessThanWellFounded
<1>2. PICK x \in T : \A y \in T : ~(<< y, x >> \in R)
  <2> HIDE DEF R
  <2>1. QED
    BY <1>1, WFMin
<1>3. \A y \in T : ~(y < x)
  BY <1>2 DEF OpToRel
<1>4. QED
  BY <1>3

LEMMA UpTo ==
    ASSUME NEW n \in Nat, NEW P, 0 \in P, \A j \in 1..n : j - 1 \in P => j \in P
    PROVE  \A j \in 0..n : j \in P
<1> DEFINE T == {j \in 0..n : j \notin P}
<1>1. SUFFICES ASSUME T # {} PROVE FALSE
  OBVIOUS
<1>2. PICK j \in T : \A i \in T : j <= i
  <2> T \in SUBSET Nat
    OBVIOUS
  <2> HIDE DEF T
  <2>1. QED
    BY <1>1, Least
<1>3. j \in 1..n
  BY <1>2
<1>4. j - 1 \in 0..n /\ ~(j <= j - 1)
  BY <1>3
<1>5. j - 1 \in P
  BY <1>2, <1>4
<1>6. QED
  BY <1>2, <1>3, <1>5

\* f iterates g from b.
Iterates(f, n, S, b, g) ==
    /\ f \in [0..n -> S]
    /\ f[0] = b
    /\ \A j \in 1..n : f[j] = g[<< j, f[j - 1] >>]

LEMMA Iterated ==
    ASSUME NEW n \in Nat, NEW S, NEW b \in S, NEW g \in [(1..n) \X S -> S]
    PROVE  \E f : Iterates(f, n, S, b, g)
<1> DEFINE P == {m \in 0..n : \E f : Iterates(f, m, S, b, g)}
<1>1. 0 \in P
  <2> DEFINE f == [j \in 0..0 |-> b]
  <2>1. Iterates(f, 0, S, b, g)
    BY DEF Iterates
  <2>2. QED
    BY <2>1
<1>2. ASSUME NEW m \in 1..n, m - 1 \in P
      PROVE  m \in P
  <2>1. PICK f : Iterates(f, m - 1, S, b, g)
    BY <1>2
  <2>2. f[m - 1] \in S
    BY <2>1 DEF Iterates
  <2>3. PICK y \in S : y = g[<< m, f[m - 1] >>]
    BY <2>2
  <2> DEFINE h == [j \in 0..m |-> IF j = m THEN y ELSE f[j]]
  <2>4. h \in [0..m -> S] /\ h[0] = b
    BY <2>1 DEF Iterates
  <2>5. \A j \in 1..m : h[j] = g[<< j, h[j - 1] >>]
    <3>1. \A j \in 1..m : h[j - 1] = f[j - 1]
      OBVIOUS
    <3>2. \A j \in 1..m : j # m => h[j] = f[j] /\ j \in 1..(m - 1)
      OBVIOUS
    <3>3. \A j \in 1..(m - 1) : f[j] = g[<< j, f[j - 1] >>]
      BY <2>1 DEF Iterates
    <3>4. h[m] = y
      OBVIOUS
    <3> HIDE DEF h
    <3>5. QED
      BY <2>3, <3>1, <3>2, <3>3, <3>4
  <2> HIDE DEF h
  <2>6. Iterates(h, m, S, b, g)
    BY <2>4, <2>5 DEF Iterates
  <2>7. QED
    BY <2>6
<1>3. n \in P
  <2> HIDE DEF P
  <2>1. \A j \in 0..n : j \in P
    BY <1>1, <1>2, UpTo
  <2>2. QED
    BY <2>1
<1>4. QED
  BY <1>3
------------------------------------------------------------------------------
(***************************************************************************)
(* The sections in their order, and their words.                           *)
(***************************************************************************)
\* The words of the first n sections.
Before ==
    LET sum[n \in 0..Len(Order)] == IF n = 0 THEN 0 ELSE sum[n - 1] + Count(Order[n])
    IN  sum

\* Before and Code are what adds up the sections sec.
Sums(f, sec) ==
    f = [n \in 0..Len(Order) |-> IF n = 0 THEN 0 ELSE f[n - 1] + Len(sec[Order[n]].words)]
Joins(f, sec) ==
    f = [n \in 0..Len(Order) |-> IF n = 0 THEN << >> ELSE f[n - 1] \o sec[Order[n]].words]

BeforeOf(sec) == CHOOSE f : Sums(f, sec)
CodeOf(sec) == CHOOSE f : Joins(f, sec)

LEMMA BeforeAndCode == Before = BeforeOf(section) /\ Code = CodeOf(section)
BY Zenon DEF Before, BeforeOf, Sums, Count, Code, CodeOf, Joins, Source

LEMMA SectionWords ==
    ASSUME TypeOK, NEW n \in 1..10
    PROVE  section[Order[n]].words \in Seq(ModuleWord) /\ Order[n] \in Sections
BY OrderFacts DEF TypeOK

LEMMA CountIs == ASSUME TypeOK, NEW n \in 1..10 PROVE Count(Order[n]) \in Nat
<1>1. section[Order[n]].words \in Seq(ModuleWord)
  BY SectionWords
<1>2. QED
  BY <1>1 DEF Count

IsFunction(f, D) == f = [x \in D |-> f[x]]

LEMMA InFunctions ==
    ASSUME NEW D, NEW T, NEW f, IsFunction(f, D), \A x \in D : f[x] \in T
    PROVE  f \in [D -> T]
BY DEF IsFunction

LEMMA UpToTen ==
    ASSUME NEW P, 0 \in P, \A j \in 1..10 : j - 1 \in P => j \in P
    PROVE  \A j \in 0..10 : j \in P
<1>1. PICK k \in Nat : k = 10
  OBVIOUS
<1>2. \A j \in 1..k : j - 1 \in P => j \in P
  BY <1>1
<1>3. \A j \in 0..k : j \in P
  BY <1>2, UpTo
<1>4. QED
  BY <1>1, <1>3

LEMMA BeforeIs ==
    ASSUME TypeOK
    PROVE  /\ Before \in [0..10 -> Nat] /\ Before[0] = 0
           /\ \A n \in 1..10 : Before[n] = Before[n - 1] + Count(Order[n])
<1>1. \A n \in 1..10 : Count(Order[n]) \in Nat
  BY CountIs
<1>2. PICK c \in [1..10 -> Nat] : \A n \in 1..10 : c[n] = Count(Order[n])
  <2> DEFINE c == [n \in 1..10 |-> Count(Order[n])]
  <2>1. c \in [1..10 -> Nat] /\ \A n \in 1..10 : c[n] = Count(Order[n])
    BY <1>1
  <2>2. QED
    BY <2>1
<1> DEFINE g == [p \in (1..10) \X Nat |-> p[2] + c[p[1]]]
<1>3. /\ g \in [(1..10) \X Nat -> Nat]
      /\ \A n \in 1..10, x \in Nat : g[<< n, x >>] = x + Count(Order[n])
  <2>1. ASSUME NEW p \in (1..10) \X Nat PROVE p[2] + c[p[1]] \in Nat
    OBVIOUS
  <2>2. ASSUME NEW n \in 1..10, NEW x \in Nat PROVE g[<< n, x >>] = x + Count(Order[n])
    <3>1. << n, x >> \in (1..10) \X Nat
      OBVIOUS
    <3>2. QED
      BY <1>2, <3>1
  <2>3. QED
    BY <2>1, <2>2
<1> HIDE DEF g
<1>4. PICK f : Iterates(f, 10, Nat, 0, g)
  <2>1. 10 \in Nat /\ 0 \in Nat
    OBVIOUS
  <2>2. QED
    BY <1>3, <2>1, Iterated, Zenon
<1>5. /\ f \in [0..10 -> Nat] /\ f[0] = 0
      /\ \A n \in 1..10 : f[n] = g[<< n, f[n - 1] >>] /\ f[n - 1] \in Nat
  BY <1>4 DEF Iterates
<1>6. \A n \in 1..10 : f[n] = f[n - 1] + Count(Order[n])
  BY <1>3, <1>5
<1>7. Sums(f, section)
  <2>1. f = [n \in 0..10 |-> f[n]]
    BY <1>5
  <2>2. ASSUME NEW n \in 0..10
        PROVE  f[n] = IF n = 0 THEN 0 ELSE f[n - 1] + Len(section[Order[n]].words)
    <3>1. CASE n = 0
      BY <1>5, <3>1
    <3>2. CASE n # 0
      <4>1. n \in 1..10
        BY <3>2
      <4>2. QED
        BY <1>6, <3>2, <4>1 DEF Count
    <3>3. QED
      BY <3>1, <3>2
  <2>3. QED
    BY <2>1, <2>2, OrderFacts DEF Sums
<1>8. Sums(Before, section)
  <2>1. Sums(BeforeOf(section), section)
    BY <1>7, Zenon DEF BeforeOf
  <2>2. QED
    BY <2>1, BeforeAndCode, Zenon
<1>9. PICK b : b = Before /\ Sums(b, section)
  BY <1>8
<1>10. /\ DOMAIN b = 0..10 /\ IsFunction(b, 0..10) /\ b[0] = 0
       /\ \A n \in 1..10 : b[n] = b[n - 1] + Count(Order[n])
  <2>1. b = [n \in 0..10 |-> IF n = 0 THEN 0 ELSE b[n - 1] + Len(section[Order[n]].words)]
    BY <1>9, OrderFacts DEF Sums
  <2>2. DOMAIN b = 0..10 /\ IsFunction(b, 0..10) /\ b[0] = 0
    BY <2>1 DEF IsFunction
  <2>3. ASSUME NEW n \in 1..10 PROVE b[n] = b[n - 1] + Count(Order[n])
    <3>1. n \in 0..10 /\ n # 0
      OBVIOUS
    <3>2. QED
      BY <2>1, <3>1 DEF Count
  <2>4. QED
    BY <2>2, <2>3
<1>11. \A n \in 0..10 : b[n] \in Nat
  <2> DEFINE P == {n \in 0..10 : b[n] \in Nat}
  <2>1. 0 \in P
    BY <1>10
  <2>2. ASSUME NEW n \in 1..10, n - 1 \in P PROVE n \in P
    BY <1>1, <1>10, <2>2
  <2> HIDE DEF P
  <2>3. \A n \in 0..10 : n \in P
    BY <2>1, <2>2, UpToTen
  <2>4. QED
    BY <2>3 DEF P
<1>12. b \in [0..10 -> Nat]
  <2>1. IsFunction(b, 0..10)
    BY <1>10
  <2>2. QED
    BY <2>1, <1>11, InFunctions
<1>13. QED
  BY <1>9, <1>10, <1>12

LEMMA UpToNine ==
    ASSUME NEW P, 0 \in P, \A j \in 1..9 : j - 1 \in P => j \in P
    PROVE  \A j \in 0..9 : j \in P
<1>1. PICK k \in Nat : k = 9
  OBVIOUS
<1>2. \A j \in 1..k : j - 1 \in P => j \in P
  BY <1>1
<1>3. \A j \in 0..k : j \in P
  BY <1>2, UpTo
<1>4. QED
  BY <1>1, <1>3

\* Each sum has one term more than the one before it.
LEMMA OneTermMore ==
    /\ Offset(1) = HeaderWords
    /\ \A n \in 1..9 : Offset(n + 1) = Offset(n) + Count(Order[n])
<1>1. Offset(1) = HeaderWords
  BY DEF Offset
<1>2. Offset(2) = Offset(1) + Count("capability")
  BY DEF Offset
<1>3. Offset(3) = Offset(2) + Count("ext")
  BY DEF Offset
<1>4. Offset(4) = Offset(3) + Count("memmodel")
  BY DEF Offset
<1>5. Offset(5) = Offset(4) + Count("entp")
  BY DEF Offset
<1>6. Offset(6) = Offset(5) + Count("execmode")
  BY DEF Offset
<1>7. Offset(7) = Offset(6) + Count("name")
  BY DEF Offset
<1>8. Offset(8) = Offset(7) + Count("decorate")
  BY DEF Offset
<1>9. Offset(9) = Offset(8) + Count("types")
  BY DEF Offset
<1>10. Offset(10) = Offset(9) + Count("vars")
  BY DEF Offset
<1>11. /\ Order[1] = "capability" /\ Order[2] = "ext" /\ Order[3] = "memmodel"
       /\ Order[4] = "entp" /\ Order[5] = "execmode" /\ Order[6] = "name"
       /\ Order[7] = "decorate" /\ Order[8] = "types" /\ Order[9] = "vars"
  BY DEF Order
<1>12. QED
  <2>1. ASSUME NEW n \in 1..9 PROVE Offset(n + 1) = Offset(n) + Count(Order[n])
    <3>1. n = 1 \/ n = 2 \/ n = 3 \/ n = 4 \/ n = 5 \/ n = 6 \/ n = 7 \/ n = 8 \/ n = 9
      OBVIOUS
    <3>2. QED
      BY <1>2, <1>3, <1>4, <1>5, <1>6, <1>7, <1>8, <1>9, <1>10, <1>11, <3>1
  <2>2. QED
    BY <1>1, <2>1

\* Each of the ten sums adds up the sections before its own.
LEMMA OffsetIs ==
    ASSUME TypeOK, NEW n \in 1..10
    PROVE  Offset(n) = HeaderWords + Before[n - 1]
<1> DEFINE P == {j \in 0..9 : Offset(j + 1) = HeaderWords + Before[j]}
<1>1. 0 \in P
  <2>1. Before[0] = 0 /\ Offset(0 + 1) = HeaderWords
    BY BeforeIs, OneTermMore
  <2>2. QED
    BY <2>1 DEF HeaderWords
<1>2. ASSUME NEW j \in 1..9, j - 1 \in P PROVE j \in P
  <2>1. Offset(j + 1) = Offset(j) + Count(Order[j])
    BY OneTermMore
  <2>2. (j - 1) + 1 = j /\ j \in 1..10 /\ j - 1 \in 0..10 /\ j \in 0..9
    OBVIOUS
  <2>3. Offset(j) = HeaderWords + Before[j - 1]
    BY <1>2, <2>2
  <2>4. Before[j] = Before[j - 1] + Count(Order[j])
    BY <2>2, BeforeIs
  <2>5. PICK h \in Nat, b \in Nat, c \in Nat : h = HeaderWords /\ b = Before[j - 1] /\ c = Count(Order[j])
    <3>1. Before[j - 1] \in Nat
      BY <2>2, BeforeIs
    <3>2. QED
      BY <2>2, <3>1, CountIs DEF HeaderWords
  <2>6. (h + b) + c = h + (b + c)
    OBVIOUS
  <2>7. QED
    BY <2>1, <2>2, <2>3, <2>4, <2>5, <2>6
<1>3. \A j \in 0..9 : j \in P
  <2> HIDE DEF P
  <2>1. QED
    BY <1>1, <1>2, UpToNine
<1>4. PICK k \in 0..9 : k = n - 1
  OBVIOUS
<1>5. k + 1 = n
  BY <1>4
<1>6. QED
  BY <1>3, <1>4, <1>5

LEMMA CodeIs ==
    ASSUME TypeOK
    PROVE  /\ Code \in [0..10 -> Seq(ModuleWord)] /\ Code[0] = << >>
           /\ \A n \in 1..10 : Code[n] = Code[n - 1] \o Source(n).words
<1> DEFINE S == Seq(ModuleWord)
<1>0. << >> \in S
  OBVIOUS
<1>1. ASSUME NEW x \in S, NEW y \in S PROVE x \o y \in S
  OBVIOUS
<1>2. PICK w \in [1..10 -> S] : \A n \in 1..10 : w[n] = section[Order[n]].words
  <2> DEFINE w == [n \in 1..10 |-> section[Order[n]].words]
  <2>1. ASSUME NEW n \in 1..10 PROVE section[Order[n]].words \in S
    BY SectionWords
  <2> HIDE DEF S
  <2>2. w \in [1..10 -> S]
    BY <2>1
  <2>3. \A n \in 1..10 : w[n] = section[Order[n]].words
    OBVIOUS
  <2> HIDE DEF w
  <2>4. QED
    BY <2>2, <2>3
<1> DEFINE g == [p \in (1..10) \X S |-> p[2] \o w[p[1]]]
<1> HIDE DEF S
<1>3. /\ g \in [(1..10) \X S -> S]
      /\ \A n \in 1..10, x \in S : g[<< n, x >>] = x \o w[n]
  <2>1. ASSUME NEW p \in (1..10) \X S PROVE p[2] \o w[p[1]] \in S
    <3>1. p[2] \in S /\ w[p[1]] \in S
      OBVIOUS
    <3>2. QED
      BY <1>1, <3>1
  <2>2. ASSUME NEW n \in 1..10, NEW x \in S PROVE g[<< n, x >>] = x \o w[n]
    <3>1. << n, x >> \in (1..10) \X S
      OBVIOUS
    <3>2. QED
      BY <3>1
  <2>3. QED
    BY <2>1, <2>2
<1> HIDE DEF g
<1>4. PICK f : Iterates(f, 10, S, << >>, g)
  <2>1. 10 \in Nat
    OBVIOUS
  <2>2. QED
    BY <1>0, <1>3, <2>1, Iterated, Zenon
<1>5. /\ f \in [0..10 -> S] /\ f[0] = << >>
      /\ \A n \in 1..10 : f[n] = g[<< n, f[n - 1] >>] /\ f[n - 1] \in S
  BY <1>4 DEF Iterates
<1>6. ASSUME NEW n \in 1..10 PROVE f[n] = f[n - 1] \o section[Order[n]].words
  <2>1. PICK x \in S : x = f[n - 1] /\ f[n] = g[<< n, x >>]
    BY <1>5
  <2>2. f[n] = x \o w[n]
    BY <1>3, <2>1
  <2>3. QED
    BY <1>2, <2>1, <2>2
<1>7. Joins(f, section)
  <2>1. f = [n \in 0..10 |-> f[n]]
    BY <1>5
  <2>2. ASSUME NEW n \in 0..10
        PROVE  f[n] = IF n = 0 THEN << >> ELSE f[n - 1] \o section[Order[n]].words
    <3>1. CASE n = 0
      BY <1>5, <3>1
    <3>2. CASE n # 0
      <4>1. n \in 1..10
        BY <3>2
      <4>2. QED
        BY <1>6, <3>2, <4>1
    <3>3. QED
      BY <3>1, <3>2
  <2>3. QED
    BY <2>1, <2>2, OrderFacts DEF Joins
<1>8. PICK c : c = Code /\ Joins(c, section)
  <2>1. Joins(CodeOf(section), section)
    BY <1>7, Zenon DEF CodeOf
  <2>2. QED
    BY <2>1, BeforeAndCode, Zenon
<1>9. /\ DOMAIN c = 0..10 /\ IsFunction(c, 0..10) /\ c[0] = << >>
      /\ \A n \in 1..10 : c[n] = c[n - 1] \o section[Order[n]].words
  <2>1. c = [n \in 0..10 |-> IF n = 0 THEN << >> ELSE c[n - 1] \o section[Order[n]].words]
    BY <1>8, OrderFacts DEF Joins
  <2>2. \A n \in 0..10 : c[n] = IF n = 0 THEN << >>
                                ELSE c[n - 1] \o section[Order[n]].words
    BY <2>1, Zenon
  <2>3. DOMAIN c = 0..10
    BY <2>1, Zenon
  <2>4. IsFunction(c, 0..10)
    BY <2>1, <2>2, Zenon DEF IsFunction
  <2>5. 0 \in 0..10 /\ \A n \in 1..10 : n \in 0..10 /\ n # 0
    OBVIOUS
  <2>6. QED
    BY <2>2, <2>3, <2>4, <2>5, Zenon
<1>10. \A n \in 0..10 : c[n] \in S
  <2> DEFINE P == {n \in 0..10 : c[n] \in S}
  <2>1. 0 \in P
    BY <1>0, <1>9
  <2>2. ASSUME NEW n \in 1..10, n - 1 \in P PROVE n \in P
    <3>1. c[n - 1] \in S
      BY <2>2
    <3>2. w[n] \in S /\ section[Order[n]].words = w[n]
      BY <1>2
    <3>3. c[n] \in S
      <4>1. c[n - 1] \o w[n] \in S
        BY <1>1, <3>1, <3>2
      <4>2. c[n] = c[n - 1] \o w[n]
        BY <1>9, <3>2, Zenon
      <4>3. QED
        BY <4>1, <4>2
    <3>4. n \in 0..10
      OBVIOUS
    <3>5. QED
      BY <3>3, <3>4
  <2> HIDE DEF P
  <2>3. \A n \in 0..10 : n \in P
    BY <2>1, <2>2, UpToTen
  <2>4. QED
    BY <2>3 DEF P
<1>11. c \in [0..10 -> S]
  <2>1. IsFunction(c, 0..10)
    BY <1>9
  <2>2. QED
    BY <2>1, <1>10, InFunctions
<1>12. \A n \in 1..10 : c[n] = c[n - 1] \o Source(n).words
  BY <1>9 DEF Source
<1>13. QED
  BY <1>8, <1>9, <1>11, <1>12 DEF S

LEMMA SumsAt ==
    ASSUME TypeOK, NEW n \in 0..10 PROVE Before[n] \in Nat /\ Code[n] \in Seq(ModuleWord)
<1>1. Before \in [0..10 -> Nat]
  BY BeforeIs
<1>2. Code \in [0..10 -> Seq(ModuleWord)]
  BY CodeIs
<1>3. QED
  BY <1>1, <1>2, Zenon

\* As many words as the counts add up to.
LEMMA CodeCounted ==
    ASSUME TypeOK PROVE \A n \in 0..10 : Len(Code[n]) = Before[n]
<1> DEFINE P == {n \in 0..10 : Len(Code[n]) = Before[n]}
<1>1. 0 \in P
  BY BeforeIs, CodeIs
<1>2. ASSUME NEW n \in 1..10, n - 1 \in P PROVE n \in P
  <2>1. PICK x \in Seq(ModuleWord), y \in Seq(ModuleWord) :
             x = Code[n - 1] /\ y = Source(n).words
    <3>1. Code[n - 1] \in Seq(ModuleWord)
      <4>1. n - 1 \in 0..10
        OBVIOUS
      <4>2. QED
        BY <4>1, CodeIs
    <3>2. Source(n).words \in Seq(ModuleWord)
      BY SectionWords DEF Source
    <3>3. QED
      BY <3>1, <3>2
  <2>2. Len(x \o y) = Len(x) + Len(y)
    OBVIOUS
  <2>3. Code[n] = x \o y
    BY <2>1, CodeIs
  <2>4. Before[n] = Len(x) + Len(y)
    <3>1. Len(x) = Before[n - 1]
      BY <1>2, <2>1
    <3>2. Len(y) = Count(Order[n])
      BY <2>1 DEF Source, Count
    <3>3. QED
      BY <3>1, <3>2, BeforeIs
  <2>5. Len(Code[n]) = Before[n]
    BY <2>2, <2>3, <2>4, Zenon
  <2>6. n \in 0..10
    OBVIOUS
  <2>7. QED
    BY <2>5, <2>6
<1> HIDE DEF P
<1>3. \A n \in 0..10 : n \in P
  BY <1>1, <1>2, UpToTen
<1>4. QED
  BY <1>3 DEF P

\* All words are there: what m_num_ret adds up, section by section.
LEMMA TotalIs ==
    ASSUME TypeOK
    PROVE  /\ Total = HeaderWords + Before[10]
           /\ \A n \in 0..10 : Before[n] <= Before[10]
<1>1. PICK b \in [0..10 -> Nat] : b = Before /\ b[0] = 0
  BY BeforeIs
<1>2. PICK c \in [1..10 -> Nat] : \A n \in 1..10 : c[n] = Count(Order[n])
  <2> DEFINE c == [n \in 1..10 |-> Count(Order[n])]
  <2>1. \A n \in 1..10 : Count(Order[n]) \in Nat
    BY CountIs
  <2>2. c \in [1..10 -> Nat] /\ \A n \in 1..10 : c[n] = Count(Order[n])
    BY <2>1
  <2>3. QED
    BY <2>2
<1>3. ASSUME NEW n \in 1..10 PROVE b[n] = b[n - 1] + c[n]
  BY <1>1, <1>2, BeforeIs
<1>4. /\ b[1] = b[0] + c[1] /\ b[2] = b[1] + c[2] /\ b[3] = b[2] + c[3]
      /\ b[4] = b[3] + c[4] /\ b[5] = b[4] + c[5] /\ b[6] = b[5] + c[6]
      /\ b[7] = b[6] + c[7] /\ b[8] = b[7] + c[8] /\ b[9] = b[8] + c[9]
      /\ b[10] = b[9] + c[10]
  BY <1>3
<1>5. Total = HeaderWords + b[10]
  <2>1. /\ Order[1] = "capability" /\ Order[2] = "ext" /\ Order[3] = "memmodel"
        /\ Order[4] = "entp" /\ Order[5] = "execmode" /\ Order[6] = "name"
        /\ Order[7] = "decorate" /\ Order[8] = "types" /\ Order[9] = "vars"
        /\ Order[10] = "fndef"
    BY DEF Order
  <2>2. /\ c[1] = Count("capability") /\ c[2] = Count("ext") /\ c[3] = Count("memmodel")
        /\ c[4] = Count("entp") /\ c[5] = Count("execmode") /\ c[6] = Count("name")
        /\ c[7] = Count("decorate") /\ c[8] = Count("types") /\ c[9] = Count("vars")
        /\ c[10] = Count("fndef")
    BY <1>2, <2>1
  <2>3. Total = c[1] + c[2] + c[3] + c[4] + c[5] + c[6] + c[7] + c[8] + c[9] + c[10]
                + HeaderWords
    BY <2>2 DEF Total
  <2>4. b[10] = c[1] + c[2] + c[3] + c[4] + c[5] + c[6] + c[7] + c[8] + c[9] + c[10]
    BY <1>1, <1>4
  <2>5. QED
    BY <2>3, <2>4 DEF HeaderWords
<1>6. ASSUME NEW n \in 0..10 PROVE b[n] <= b[10]
  <2> DEFINE P == {m \in 0..10 : n <= m => b[n] <= b[m]}
  <2>1. 0 \in P
    OBVIOUS
  <2>2. ASSUME NEW m \in 1..10, m - 1 \in P PROVE m \in P
    <3>1. b[m] = b[m - 1] + c[m] /\ b[m] \in Nat /\ b[m - 1] \in Nat /\ c[m] \in Nat
      BY <1>3
    <3>2. CASE n <= m - 1
      BY <2>2, <3>1, <3>2
    <3>3. CASE n = m
      BY <3>1, <3>3
    <3>4. CASE n > m
      BY <3>4
    <3>5. QED
      BY <3>2, <3>3, <3>4
  <2> HIDE DEF P
  <2>3. \A m \in 0..10 : m \in P
    BY <2>1, <2>2, UpToTen
  <2>4. QED
    BY <2>3 DEF P
<1>7. QED
  BY <1>1, <1>5, <1>6
------------------------------------------------------------------------------
\* The header and the first n sections are where they belong.
Laid(n) ==
    /\ numRet = Total /\ Len(ret) = Total
    /\ \A i \in 1..HeaderWords : ret[i] = Header(numRet)[i]
    /\ \A i \in 1..Before[n] : ret[HeaderWords + i] = Code[n][i]

LaidOut == /\ pc = "emit" => copied = 0
           /\ pc = "copy" => Laid(copied)
           /\ (pc = "cleanup" /\ ~err) => Laid(10)

LEMMA SumsStay == ASSUME section' = section PROVE Before' = Before /\ Code' = Code
<1>1. Before' = BeforeOf(section') /\ Code' = CodeOf(section')
  BY Zenon DEF Before, BeforeOf, Sums, Count, Code, CodeOf, Joins, Source
<1>2. QED
  BY <1>1, BeforeAndCode, Zenon

\* What is laid out stays, while neither the sections nor m_ret change.
LEMMA LaidStays ==
    ASSUME NEW n, Laid(n), UNCHANGED << section, ret, numRet >> PROVE Laid(n)'
<1>1. Before' = Before /\ Code' = Code
  BY SumsStay
<1>2. Total' = Total
  BY DEF Total, Count
<1>3. QED
  BY <1>1, <1>2 DEF Laid, Header

LEMMA StartAsmLaid == ASSUME TypeOK, copied = 0, StartAsm PROVE Laid(copied)'
<1>1. /\ numRet' = Total /\ section' = section /\ copied' = 0 /\ Total \in Nat
      /\ ret' = [i \in 1..Total |-> IF i <= HeaderWords THEN Header(Total)[i] ELSE Garbage]
  BY TotalFacts DEF StartAsm
<1>2. Total' = Total
  BY <1>1 DEF Total, Count
<1>3. Len(ret') = Total'
  BY <1>1, <1>2
<1>4. \A i \in 1..HeaderWords : ret'[i] = Header(Total)[i]
  BY <1>1, TotalFacts DEF HeaderWords
<1>5. Before'[0] = 0
  BY <1>1, SumsStay, BeforeIs
<1>6. 1..Before'[copied'] = {}
  BY <1>1, <1>5
<1>7. QED
  BY <1>1, <1>2, <1>3, <1>4, <1>6 DEF Laid, Header
LEMMA SeqOf ==
    ASSUME NEW S, NEW n \in Nat, NEW q \in [1..n -> S] PROVE q \in Seq(S) /\ Len(q) = n
OBVIOUS

\* The words ws, copied to r behind h + Len(c) words of which the last are c.
LEMMA Copies ==
    ASSUME NEW S, NEW r \in Seq(S), NEW c \in Seq(S), NEW ws \in Seq(S), NEW h \in Nat,
           NEW l \in Nat, l = Len(c), NEW m \in Nat, m = Len(ws), NEW n \in Nat, n = Len(r),
           h + l + m <= n, \A i \in 1..l : r[h + i] = c[i],
           NEW q, q = [i \in DOMAIN r |-> IF i - (h + l) \in DOMAIN ws
                                          THEN ws[i - (h + l)] ELSE r[i]],
           NEW d, d = c \o ws
    PROVE  /\ q \in Seq(S) /\ Len(q) = n
           /\ \A i \in 1..h : q[i] = r[i]
           /\ \A i \in 1..(l + m) : q[h + i] = d[i]
<1>1. /\ DOMAIN r = 1..n /\ DOMAIN ws = 1..m
      /\ \A i \in 1..n : r[i] \in S
      /\ \A i \in 1..m : ws[i] \in S
  OBVIOUS
<1>2. \A i \in 1..n : q[i] = IF i - (h + l) \in 1..m THEN ws[i - (h + l)] ELSE r[i]
  BY <1>1
<1>3. q \in Seq(S) /\ Len(q) = n
  <2>1. q \in [1..n -> S]
    <3>1. \A i \in 1..n : q[i] \in S
      BY <1>1, <1>2
    <3>2. DOMAIN q = 1..n /\ q = [i \in 1..n |-> q[i]]
      BY <1>1
    <3>3. QED
      BY <3>1, <3>2
  <2>2. QED
    BY <2>1, SeqOf
<1>4. \A i \in 1..h : q[i] = r[i]
  BY <1>2
<1>5. \A i \in 1..(l + m) : d[i] = IF i <= l THEN c[i] ELSE ws[i - l]
  BY ConcatProperties
<1>6. ASSUME NEW i \in 1..(l + m) PROVE q[h + i] = d[i]
  <2>1. PICK j \in 1..n : j = h + i
    OBVIOUS
  <2>2. CASE i <= l
    <3>1. ~(j - (h + l) \in 1..m) /\ i \in 1..l
      BY <2>1, <2>2
    <3>2. q[j] = r[h + i]
      BY <1>2, <2>1, <3>1
    <3>3. QED
      BY <1>5, <2>1, <2>2, <3>1, <3>2
  <2>3. CASE ~(i <= l)
    <3>1. j - (h + l) = i - l /\ i - l \in 1..m
      BY <2>1, <2>3
    <3>2. q[j] = ws[i - l]
      BY <1>2, <3>1
    <3>3. QED
      BY <1>5, <2>1, <2>3, <3>2
  <2>4. QED
    BY <2>2, <2>3
<1>7. QED
  BY <1>3, <1>4, <1>6

\* A sequence that is g, and c behind it.
LEMMA InTwo ==
    ASSUME NEW S, NEW r \in Seq(S), NEW g \in Seq(S), NEW c \in Seq(S),
           NEW h \in Nat, h = Len(g), NEW l \in Nat, l = Len(c), Len(r) = h + l,
           \A i \in 1..h : r[i] = g[i], \A i \in 1..l : r[h + i] = c[i]
    PROVE  r = g \o c
<1>1. PICK d : d = g \o c
  OBVIOUS
<1>2. /\ d \in Seq(S) /\ Len(d) = h + l
      /\ \A i \in 1..(h + l) : d[i] = IF i <= h THEN g[i] ELSE c[i - h]
  BY <1>1, ConcatProperties
<1>3. ASSUME NEW i \in 1..(h + l) PROVE r[i] = d[i]
  <2>1. CASE i <= h
    BY <1>2, <2>1
  <2>2. CASE ~(i <= h)
    <3>1. i - h \in 1..l /\ h + (i - h) = i
      BY <2>2
    <3>2. r[h + (i - h)] = c[i - h]
      BY <3>1
    <3>3. QED
      BY <1>2, <2>2, <3>1, <3>2
  <2>3. QED
    BY <2>1, <2>2
<1>4. r = d
  BY <1>2, <1>3, SeqEqual
<1>5. QED
  BY <1>1, <1>4

LEMMA CopySectionLaid ==
    ASSUME TypeOK, CopySection, Laid(copied) PROVE Laid(copied)'
<1>1. PICK k \in 0..10, n \in 1..10 : k = copied /\ n = copied + 1 /\ n - 1 = k
  <2>1. copied \in 0..10 /\ copied < 10
    BY OrderFacts DEF TypeOK, CopySection
  <2>2. QED
    BY <2>1
<1>2. PICK r \in Seq(ModuleWord), c \in Seq(ModuleWord), ws \in Seq(ModuleWord) :
           r = ret /\ c = Code[k] /\ ws = Source(n).words
  <2>1. ret \in Seq(ModuleWord)
    BY DEF TypeOK
  <2>2. Code[k] \in Seq(ModuleWord)
    BY SumsAt
  <2>3. Source(n).words \in Seq(ModuleWord)
    BY SectionWords DEF Source
  <2>4. QED
    BY <2>1, <2>2, <2>3
<1>3. PICK l \in Nat, m \in Nat, t \in Nat : l = Len(c) /\ m = Len(ws) /\ t = Len(r)
  OBVIOUS
<1>4. /\ l = Before[k] /\ m = Count(Order[n])
  <2>1. Len(Code[k]) = Before[k]
    BY CodeCounted
  <2>2. QED
    BY <1>2, <1>3, <2>1 DEF Source, Count
<1>5. Before[n] = l + m /\ Before[n] <= Before[10] /\ t = HeaderWords + Before[10]
  <2>1. Before[n] = Before[k] + Count(Order[n])
    BY <1>1, BeforeIs
  <2>2. n \in 0..10
    OBVIOUS
  <2>3. QED
    BY <1>2, <1>3, <1>4, <2>1, <2>2, TotalIs DEF Laid
<1>6. HeaderWords + l + m <= t
  <2>1. n \in 0..10 /\ 10 \in 0..10
    OBVIOUS
  <2>2. Before[n] \in Nat /\ Before[10] \in Nat
    BY <2>1, SumsAt
  <2>3. QED
    BY <1>5, <2>2 DEF HeaderWords
<1>7. \A i \in 1..l : r[HeaderWords + i] = c[i]
  BY <1>1, <1>2, <1>4 DEF Laid
<1>8. PICK q : /\ q = ret'
               /\ q = [i \in DOMAIN r |-> IF i - (HeaderWords + l) \in DOMAIN ws
                                          THEN ws[i - (HeaderWords + l)] ELSE r[i]]
  <2>1. Offset(n) = HeaderWords + l
    BY <1>1, <1>4, OffsetIs
  <2>2. PICK o : o = HeaderWords + l
    OBVIOUS
  <2>3. copied + 1 = n /\ o = Offset(copied + 1) /\ ws = Source(copied + 1).words
    BY <1>1, <1>2, <2>1, <2>2
  <2>4. ret' = [i \in DOMAIN r |-> IF i - o \in DOMAIN ws THEN ws[i - o] ELSE r[i]]
    BY <1>2, <2>3 DEF CopySection, Overwritten
  <2>5. QED
    BY <2>2, <2>4
<1>9. PICK d : d = Code[n] /\ d = c \o ws
  BY <1>1, <1>2, CodeIs
<1>10. PICK h \in Nat : h = HeaderWords
  BY DEF HeaderWords
<1>11. /\ Len(q) = t
       /\ \A i \in 1..h : q[i] = r[i]
       /\ \A i \in 1..(l + m) : q[h + i] = d[i]
  BY <1>3, <1>6, <1>7, <1>8, <1>9, <1>10, Copies
<1>12. /\ section' = section /\ numRet' = numRet /\ copied' = n
  BY <1>1 DEF CopySection
<1>13. Before' = Before /\ Code' = Code
  BY <1>12, SumsStay
<1>14. Total' = Total
  BY <1>12 DEF Total, Count
<1>15. numRet = Total /\ Len(ret) = Total /\ \A i \in 1..HeaderWords : ret[i] = Header(numRet)[i]
  BY DEF Laid
<1>16. numRet' = Total' /\ Len(ret') = Total'
  BY <1>2, <1>3, <1>8, <1>11, <1>12, <1>14, <1>15
<1>17. \A i \in 1..HeaderWords : ret'[i] = Header(numRet')[i]
  BY <1>2, <1>8, <1>10, <1>11, <1>12, <1>15 DEF Header
<1>18. \A i \in 1..Before'[copied'] : ret'[HeaderWords + i] = Code'[copied'][i]
  BY <1>5, <1>8, <1>9, <1>10, <1>11, <1>12, <1>13
<1>19. QED
  BY <1>16, <1>17, <1>18 DEF Laid, Header

LEMMA LaidNext == ASSUME IInv, LaidOut, [Next]_vars PROVE LaidOut'
<1>0. TypeOK /\ Len(Order) = 10
  BY OrderFacts DEF IInv
<1>1. CASE CopySection
  <2>1. Laid(copied)' /\ pc' = "copy"
    BY <1>0, <1>1, CopySectionLaid DEF LaidOut, CopySection
  <2>2. QED
    BY <2>1 DEF LaidOut
<1>2. CASE StartAsm
  <2>1. Laid(copied)' /\ pc' = "copy"
    BY <1>0, <1>2, StartAsmLaid DEF LaidOut, StartAsm
  <2>2. QED
    BY <2>1 DEF LaidOut
<1>3. CASE AsmEnds
  <2>1. Laid(10) /\ UNCHANGED << section, ret, numRet >>
    BY <1>0, <1>3 DEF LaidOut, AsmEnds
  <2>2. Laid(10)'
    BY <2>1, LaidStays
  <2>3. QED
    BY <1>3, <2>2 DEF LaidOut, AsmEnds
<1>4. CASE \/ GiveUp \/ StartAsmFails \/ CopyNull \/ Return
           \/ \E s \in Sections : EmitFails(s)
  BY <1>4 DEF LaidOut, GiveUp, StartAsmFails, CopyNull, Return, EmitFails
<1>5. CASE ExprFails \/ ExprSucceeds \/ \E s \in Sections : Emit(s)
  BY <1>5 DEF LaidOut, ExprFails, ExprSucceeds, Emit
<1>6. CASE Finished \/ UNCHANGED vars
  <2>1. UNCHANGED << section, ret, numRet, pc, err, copied >>
    BY <1>6 DEF Finished, vars
  <2>2. ASSUME NEW n, Laid(n) PROVE Laid(n)'
    BY <2>1, <2>2, LaidStays
  <2>3. pc = "copy" => Laid(copied)'
    <3>1. PICK n : n = copied
      OBVIOUS
    <3>2. pc = "copy" => Laid(n)'
      BY <2>2, <3>1 DEF LaidOut
    <3>3. n = copied'
      BY <2>1, <3>1
    <3>4. QED
      BY <3>2, <3>3 DEF Laid
  <2>4. (pc = "cleanup" /\ ~err) => Laid(10)'
    BY <2>2 DEF LaidOut
  <2>5. QED
    BY <2>1, <2>3, <2>4 DEF LaidOut
<1>7. QED
  BY <1>1, <1>2, <1>3, <1>4, <1>5, <1>6 DEF Next

LEMMA LaidLayout == ASSUME IInv, LaidOut PROVE Layout
<1>1. SUFFICES ASSUME pc = "cleanup", ~err PROVE ret = Header(numRet) \o Code[10]
  BY OrderFacts DEF Layout
<1>2. TypeOK /\ Laid(10) /\ numRet \in Nat
  BY <1>1 DEF IInv, LaidOut, TypeOK
<1>3. PICK r \in Seq(ModuleWord), c \in Seq(ModuleWord), g \in Seq(ModuleWord) :
           r = ret /\ c = Code[10] /\ g = Header(numRet) /\ Len(g) = HeaderWords
  <2>1. ret \in Seq(ModuleWord)
    BY <1>2 DEF TypeOK
  <2>2. Code[10] \in Seq(ModuleWord)
    <3>1. 10 \in 0..10
      OBVIOUS
    <3>2. QED
      BY <1>2, <3>1, SumsAt
  <2>3. Header(numRet) \in Seq(ModuleWord) /\ Len(Header(numRet)) = HeaderWords
    <3>1. \A i \in 1..5 : Header(numRet)[i] \in ModuleWord
      BY <1>2, HeaderFacts DEF HeaderWords
    <3>2. /\ DOMAIN Header(numRet) = 1..5 /\ Len(Header(numRet)) = 5
          /\ Header(numRet) = [i \in 1..5 |-> Header(numRet)[i]]
      BY DEF Header
    <3>3. QED
      BY <3>1, <3>2 DEF HeaderWords
  <2>4. QED
    BY <2>1, <2>2, <2>3
<1>4. PICK h \in Nat, l \in Nat : h = HeaderWords /\ l = Before[10]
  <2>1. 10 \in 0..10
    OBVIOUS
  <2>2. Before[10] \in Nat
    BY <1>2, <2>1, SumsAt
  <2>3. QED
    BY <2>2 DEF HeaderWords
<1>5. l = Len(c) /\ h = Len(g)
  BY <1>2, <1>3, <1>4, CodeCounted
<1>6. Len(r) = h + l
  BY <1>2, <1>3, <1>4, TotalIs DEF Laid
<1>7. (\A i \in 1..h : r[i] = g[i]) /\ (\A i \in 1..l : r[h + i] = c[i])
  BY <1>2, <1>3, <1>4 DEF Laid
<1>8. r = g \o c
  BY <1>5, <1>6, <1>7, InTwo
<1>9. QED
  BY <1>3, <1>8

\* The module is the header and the ten sections in their order, whatever words
\* they have: each offset, added up by hand, is where the section before ended.
THEOREM LayoutAlways == Spec => []Layout
<1>1. Init => IInv /\ LaidOut
  BY InitIInv DEF Init, LaidOut
<1>2. IInv /\ LaidOut /\ [Next]_vars => (IInv /\ LaidOut)'
  BY NextInv, LaidNext
<1>3. IInv /\ LaidOut => Layout
  BY LaidLayout
<1>4. QED
  BY <1>1, <1>2, <1>3, PTL DEF Spec
=============================================================================
