---------------------------- MODULE SectionProofs ----------------------------
(***************************************************************************)
(* For every address space, every bound below half of it, every number of  *)
(* operands and every length of strings: the words of a section lie in its *)
(* allocation, its instructions tile it, and it is a log of words.         *)
(***************************************************************************)
EXTENDS Section, TLAPS

\* Nothing grows past the bound, so that no size wraps; an instruction that is
\* open was opened after the allocation was lost last.
Bounded == cap <= 2 * Limit /\ count <= Limit
Opened == pos # None => blank <= pos

IInv == TypeOK /\ WithinAllocation /\ Tiled /\ Bounded /\ Opened

LEMMA WrapSmall == ASSUME NEW n \in Nat, n < Words PROVE Wrap(n) = n
BY WordsAssumption DEF Wrap

\* A request for up to Limit words is granted, with room to spare or not, and
\* never takes words away.
LEMMA RoomEnough ==
    ASSUME IInv, NEW n \in Nat, n # 0, n <= Limit,
           NEW room, room = Room(n) \/ room = ExactRoom(n)
    PROVE  room \in Nat /\ n <= room /\ cap <= room /\ room <= 2 * Limit
<1>1. cap \in Nat /\ cap <= 2 * Limit /\ Limit \in Nat /\ Words \in Nat /\ 2 * Limit < Words
  BY WordsAssumption, LimitAssumption DEF IInv, TypeOK, Bounded
<1>2. n < Words /\ 2 * n \in Nat /\ 2 * n < Words /\ cap < Words
  BY <1>1
<1>3. Wrap(n) = n /\ Wrap(2 * n) = 2 * n /\ Wrap(cap) = cap
  BY <1>1, <1>2, WrapSmall
<1>4. QED
  BY <1>1, <1>2, <1>3 DEF Room, ExactRoom

\* What an emission leaves: the words there were, and the new ones behind.
LEMMA AppendsFacts ==
    ASSUME IInv, NEW ws \in Seq(Word), Len(ws) # 0,
           NEW room, room = Room(count + Len(ws)) \/ room = ExactRoom(count + Len(ws)),
           Appends(ws, room)
    PROVE  /\ cap' = room /\ room \in Nat /\ room # 0 /\ room <= 2 * Limit
           /\ count' = count + Len(ws) /\ count' \in Nat
           /\ count' <= room /\ count' <= Limit
           /\ mem' \in [0..(room - 1) -> Word]
           /\ \A i \in 0..(count - 1) : mem'[i] = IF cap # 0 THEN mem[i] ELSE Zero
           /\ \A i \in count..(count + Len(ws) - 1) : mem'[i] = ws[i - count + 1]
<1>1. /\ count \in Nat /\ Len(ws) \in Nat /\ cap \in Nat /\ mem \in [0..(cap - 1) -> Word]
      /\ (cap # 0 => count <= cap)
  BY DEF IInv, TypeOK, WithinAllocation
<1>2. /\ cap' = room /\ count' = count + Len(ws) /\ count' <= Limit
      /\ mem' = Written(ws, room)
  BY <1>1 DEF Appends, Fits
<1>3. room \in Nat /\ count + Len(ws) <= room /\ cap <= room /\ room <= 2 * Limit
  BY <1>1, <1>2, RoomEnough
<1>4. \A i \in 1..Len(ws) : ws[i] \in Word
  OBVIOUS
<1>5. Zero \in Word
  BY DEF Zero, Word
<1>6. \A i \in 0..(room - 1) : Moved(room)[i] = IF i < cap THEN mem[i] ELSE Zero
  BY <1>3 DEF Moved
<1>7. \A i \in 0..(room - 1) :
        mem'[i] = IF i \in count..(count + Len(ws) - 1) THEN ws[i - count + 1]
                  ELSE Moved(room)[i]
  BY <1>2 DEF Written
<1>8. mem' \in [0..(room - 1) -> Word]
  <2>1. ASSUME NEW i \in 0..(room - 1) PROVE Written(ws, room)[i] \in Word
    <3>1. CASE i \in count..(count + Len(ws) - 1)
      <4>1. i - count + 1 \in 1..Len(ws)
        BY <3>1, <1>1
      <4>2. QED
        BY <4>1, <3>1, <1>4, <1>7, <1>2
    <3>2. CASE i \notin count..(count + Len(ws) - 1)
      BY <3>2, <1>1, <1>2, <1>3, <1>5, <1>6, <1>7
    <3>3. QED
      BY <3>1, <3>2
  <2>2. QED
    BY <2>1, <1>2 DEF Written
<1>9. \A i \in 0..(count - 1) : mem'[i] = IF cap # 0 THEN mem[i] ELSE Zero
  BY <1>1, <1>3, <1>6, <1>7
<1>10. \A i \in count..(count + Len(ws) - 1) : mem'[i] = ws[i - count + 1]
  <2>1. ASSUME NEW i \in count..(count + Len(ws) - 1) PROVE i \in 0..(room - 1)
    BY <1>1, <1>3
  <2>2. QED
    BY <2>1, <1>7
<1>11. QED
  BY <1>1, <1>2, <1>3, <1>8, <1>9, <1>10

\* An instruction with its operands.
LEMMA InstructionFacts ==
    ASSUME NEW n \in Nat
    PROVE  /\ Instruction(n) \in Seq(Word)
           /\ Len(Instruction(n)) = n + 1
           /\ Instruction(n)[1] = Opcode(n)
           /\ \A i \in 2..(n + 1) : Instruction(n)[i] = Operand
<1> DEFINE ops == [i \in 1..n |-> Operand]
<1>1. << Opcode(n) >> \in Seq(Word) /\ Len(<< Opcode(n) >>) = 1
  BY DEF Opcode, HeadWord, Word
<1>2. ops \in Seq(Word) /\ Len(ops) = n
  BY DEF Operand, Word
<1>3. QED
  BY <1>1, <1>2 DEF Instruction

\* A string is at least one word, none of which begins an instruction.
LEMMA StrFacts ==
    ASSUME NEW len \in Nat \ {0}
    PROVE  /\ Str(len) \in Seq(Word)
           /\ Len(Str(len)) = PadWrds(len)
           /\ PadWrds(len) \in Nat \ {0}
           /\ \A i \in 1..PadWrds(len) : ~Str(len)[i].head
<1>1. PadWrds(len) \in Nat \ {0}
  BY SMT DEF PadWrds
<1>2. Operand \in Word /\ Zero \in Word /\ ~Operand.head /\ ~Zero.head
  BY DEF Operand, Zero, Word
<1>3. \A i \in 1..PadWrds(len) : Str(len)[i] \in {Operand, Zero}
  BY <1>1 DEF Str
<1>4. Len(Str(len)) = PadWrds(len) /\ Str(len) \in Seq(Word)
  BY <1>1, <1>2 DEF Str
<1>5. QED
  BY <1>1, <1>2, <1>3, <1>4

\* An allocation that was lost satisfies everything, with or without a count.
LEMMA LostInv ==
    ASSUME IInv, cap' = 0, mem' = NoWords, pos' = None,
           count' \in Nat, count' <= Limit, blank' = count'
    PROVE  IInv'
<1>1. mem' \in [0..(cap' - 1) -> Word]
  BY DEF NoWords
<1>2. Limit \in Nat
  BY WordsAssumption
<1>3. TypeOK' /\ Bounded'
  BY <1>1, <1>2 DEF TypeOK, Bounded
<1>4. QED
  BY <1>3 DEF IInv, WithinAllocation, Tiled, Opened

LEMMA LosesInv ==
    ASSUME IInv, NEW n, NEW room, Loses(n, room) PROVE IInv'
<1>1. Limit \in Nat
  BY WordsAssumption
<1>2. QED
  BY <1>1, LostInv DEF Loses

\* Words that stay as they are stay tiled.
LEMMA TilesAgree ==
    ASSUME NEW b \in Nat, NEW e \in Nat, NEW m, NEW m2,
           \A i \in 0..(e - 1) : m[i] \in Word /\ m2[i] = m[i],
           Tiles(m, b, e)
    PROVE  Tiles(m2, b, e)
<1>1. e > b => m2[b].head
  BY DEF Tiles
<1>2. ASSUME NEW h \in b..(e - 1), m2[h].head
      PROVE  /\ h + m2[h].len \in (h + 1)..e
             /\ h + m2[h].len = e \/ m2[h + m2[h].len].head
             /\ \A i \in (h + 1)..(h + m2[h].len - 1) : ~m2[i].head
  <2>1. h \in 0..(e - 1) /\ m2[h] = m[h] /\ m[h] \in Word
    OBVIOUS
  <2>2. PICK len \in Nat : m[h].len = len /\ m2[h].len = len
    BY <2>1 DEF Word
  <2>3. /\ h + len \in (h + 1)..e
        /\ h + len = e \/ m[h + len].head
        /\ \A i \in (h + 1)..(h + len - 1) : ~m[i].head
    BY <1>2, <2>1, <2>2 DEF Tiles
  <2>4. h + len = e \/ m2[h + len].head
    BY <2>1, <2>3
  <2>5. ASSUME NEW i \in (h + 1)..(h + len - 1) PROVE ~m2[i].head
    <3>1. i \in 0..(e - 1)
      BY <2>1, <2>3
    <3>2. QED
      BY <2>3, <3>1
  <2>6. QED
    BY <2>2, <2>3, <2>4, <2>5
<1>3. QED
  BY <1>1, <1>2 DEF Tiles

\* An instruction behind a tiling extends it.
LEMMA TilesExtend ==
    ASSUME NEW b \in Nat, NEW e \in Nat, b <= e, NEW k \in Nat \ {0}, NEW m,
           \A i \in 0..(e + k - 1) : m[i] \in Word,
           m[e].head, m[e].len = k,
           \A i \in (e + 1)..(e + k - 1) : ~m[i].head,
           Tiles(m, b, e)
    PROVE  Tiles(m, b, e + k)
<1>1. m[b].head
  <2>1. CASE b = e
    BY <2>1
  <2>2. CASE b < e
    BY <2>2 DEF Tiles
  <2>3. QED
    BY <2>1, <2>2
<1>2. ASSUME NEW h \in b..(e + k - 1), m[h].head
      PROVE  /\ h + m[h].len \in (h + 1)..(e + k)
             /\ h + m[h].len = e + k \/ m[h + m[h].len].head
             /\ \A i \in (h + 1)..(h + m[h].len - 1) : ~m[i].head
  <2>1. CASE h = e
    BY <2>1
  <2>2. CASE h > e
    BY <1>2, <2>2
  <2>3. CASE h < e
    <3>1. h \in b..(e - 1) /\ h \in Nat
      BY <2>3
    <3>2. /\ h + m[h].len \in (h + 1)..e
          /\ h + m[h].len = e \/ m[h + m[h].len].head
          /\ \A i \in (h + 1)..(h + m[h].len - 1) : ~m[i].head
      BY <1>2, <3>1 DEF Tiles
    <3>3. h + m[h].len \in (h + 1)..(e + k)
      BY <3>1, <3>2
    <3>4. m[h + m[h].len].head
      BY <3>2
    <3>5. QED
      BY <3>2, <3>3, <3>4
  <2>4. QED
    BY <2>1, <2>2, <2>3
<1>3. QED
  BY <1>1, <1>2 DEF Tiles

\* What is common to the emissions: all but the tiling.
LEMMA AppendsInv ==
    ASSUME IInv, NEW ws \in Seq(Word), Len(ws) # 0,
           NEW room, room = Room(count + Len(ws)) \/ room = ExactRoom(count + Len(ws)),
           Appends(ws, room), blank' = blank,
           pos' = pos \/ pos' = count
    PROVE  TypeOK' /\ WithinAllocation' /\ Bounded' /\ Opened'
<1>1. /\ cap' = room /\ room \in Nat /\ room # 0 /\ room <= 2 * Limit
      /\ count' = count + Len(ws) /\ count' \in Nat
      /\ count' <= room /\ count' <= Limit
      /\ mem' \in [0..(room - 1) -> Word]
  BY AppendsFacts
<1>2. /\ count \in Nat /\ blank \in 0..count /\ pos \in 0..(count - 1) \cup {None}
      /\ Len(ws) \in Nat
  BY DEF IInv, TypeOK
<1>3. TypeOK'
  BY <1>1, <1>2 DEF TypeOK
<1>4. Opened'
  BY <1>2 DEF IInv, Opened, None
<1>5. QED
  BY <1>1, <1>3, <1>4 DEF WithinAllocation, Bounded

\* The tiling there was, after an emission that kept the words before it.
LEMMA TilesKept ==
    ASSUME IInv, NEW ws \in Seq(Word), Len(ws) # 0,
           NEW room, room = Room(count + Len(ws)) \/ room = ExactRoom(count + Len(ws)),
           Appends(ws, room)
    PROVE  Tiles(mem', blank, Ends)
<1>1. \A i \in 0..(count - 1) : mem'[i] = IF cap # 0 THEN mem[i] ELSE Zero
  BY AppendsFacts
<1>2. /\ cap \in Nat /\ count \in Nat /\ blank \in 0..count /\ Ends \in 0..count
      /\ mem \in [0..(cap - 1) -> Word]
  BY DEF IInv, TypeOK, Ends, None
<1>3. CASE cap = 0
  <2>1. blank = count
    BY <1>3 DEF IInv, WithinAllocation
  <2>2. QED
    BY <2>1, <1>2 DEF Tiles
<1>4. CASE cap # 0
  <2>1. count <= cap /\ Tiles(mem, blank, Ends)
    BY <1>4 DEF IInv, WithinAllocation, Tiled
  <2>2. \A i \in 0..(Ends - 1) : mem[i] \in Word /\ mem'[i] = mem[i]
    <3>1. ASSUME NEW i \in 0..(Ends - 1) PROVE mem[i] \in Word /\ mem'[i] = mem[i]
      <4>1. i \in 0..(count - 1) /\ i \in 0..(cap - 1)
        BY <1>2, <2>1
      <4>2. QED
        BY <4>1, <1>1, <1>2, <1>4
    <3>2. QED
      BY <3>1
  <2>3. blank \in Nat /\ Ends \in Nat
    BY <1>2
  <2>4. QED
    BY <2>1, <2>2, <2>3, TilesAgree, Zenon
<1>5. QED
  BY <1>3, <1>4

\* A whole instruction behind the others.
LEMMA InstructionInv ==
    ASSUME IInv, pos = None, NEW n \in Nat,
           NEW room, room = Room(count + n + 1) \/ room = ExactRoom(count + n + 1),
           Appends(Instruction(n), room), UNCHANGED << pos, blank >>
    PROVE  IInv'
<1> DEFINE ws == Instruction(n)
<1>1. /\ ws \in Seq(Word) /\ Len(ws) = n + 1 /\ ws[1] = Opcode(n)
      /\ \A i \in 2..(n + 1) : ws[i] = Operand
  BY InstructionFacts
<1>2. count \in Nat /\ blank \in 0..count /\ cap \in Nat
  BY DEF IInv, TypeOK
<1>3. Len(ws) # 0 /\ count + Len(ws) = count + n + 1
  BY <1>1, <1>2
<1> HIDE DEF ws
<1>4. /\ count' = count + n + 1 /\ count' <= room /\ room \in Nat
      /\ mem' \in [0..(room - 1) -> Word]
      /\ \A i \in count..(count + n) : mem'[i] = ws[i - count + 1]
  BY <1>1, <1>3, AppendsFacts DEF ws
<1>5. TypeOK' /\ WithinAllocation' /\ Bounded' /\ Opened'
  BY <1>1, <1>3, AppendsInv DEF ws
<1>6. mem'[count].head /\ mem'[count].len = n + 1
  <2>1. count \in count..(count + n) /\ count - count + 1 = 1
    BY <1>2, <1>4
  <2>2. mem'[count] = Opcode(n)
    BY <2>1, <1>1, <1>4
  <2>3. QED
    BY <2>2 DEF Opcode, HeadWord
<1>7. ASSUME NEW i \in (count + 1)..(count + n) PROVE ~mem'[i].head
  <2>1. i \in count..(count + n) /\ i - count + 1 \in 2..(n + 1)
    BY <1>2, <1>4
  <2>2. mem'[i] = Operand
    BY <2>1, <1>1, <1>4
  <2>3. QED
    BY <2>2 DEF Operand
<1>8. Tiles(mem', blank, count)
  <2>1. Ends = count
    BY DEF Ends
  <2>2. QED
    BY <2>1, <1>1, <1>3, TilesKept DEF ws
<1>9. Tiles(mem', blank, count + (n + 1))
  <2>1. ASSUME NEW i \in 0..(count + (n + 1) - 1) PROVE mem'[i] \in Word
    <3>1. i \in 0..(room - 1)
      BY <1>2, <1>4
    <3>2. QED
      BY <3>1, <1>4
  <2>2. /\ n + 1 \in Nat \ {0} /\ (count + (n + 1)) - 1 = count + n
        /\ count \in Nat /\ blank \in Nat /\ blank <= count
    BY <1>2
  <2>3. \A i \in (count + 1)..(count + (n + 1) - 1) : ~mem'[i].head
    BY <1>7, <2>2
  <2>4. QED
    BY <1>6, <1>8, <2>1, <2>2, <2>3, TilesExtend, Zenon
<1>10. Tiled'
  BY <1>2, <1>4, <1>9 DEF Tiled, Ends
<1>11. QED
  BY <1>5, <1>10 DEF IInv

\* The first word of an instruction whose operands are still to come.
LEMMA EmitOpcodeInv == IInv /\ EmitOpcode => IInv'
<1> SUFFICES ASSUME IInv, EmitOpcode PROVE IInv'
  OBVIOUS
<1> DEFINE ws == << Opcode(0) >>
<1>1. ws \in Seq(Word) /\ Len(ws) = 1 /\ ws[1].head
  BY DEF Opcode, HeadWord, Word
<1>2. /\ pos = None /\ pos' = count /\ blank' = blank
      /\ Appends(ws, Room(count + Len(ws)))
  BY <1>1 DEF EmitOpcode
<1>3. count \in Nat /\ blank \in 0..count
  BY DEF IInv, TypeOK
<1> HIDE DEF ws
<1>4. PICK room : Appends(ws, room) /\ room = Room(count + Len(ws)) /\ Len(ws) # 0
  BY <1>1, <1>2
<1>5. /\ count' = count + 1
      /\ \A i \in count..count : mem'[i] = ws[i - count + 1]
  <2>1. /\ count' = count + Len(ws)
        /\ \A i \in count..(count + Len(ws) - 1) : mem'[i] = ws[i - count + 1]
    BY <1>1, <1>4, AppendsFacts
  <2>2. count + Len(ws) = count + 1 /\ (count + Len(ws)) - 1 = count
    BY <1>1, <1>3
  <2>3. count \in count..(count + Len(ws) - 1) /\ count + Len(ws) - 1 \in Int
    BY <1>1, <1>3
  <2>4. \A i \in count..count : i = count
    BY <1>3
  <2>5. QED
    BY <2>1, <2>2, <2>3, <2>4, Zenon
<1>6. mem'[count].head
  BY <1>1, <1>3, <1>5
<1>7. TypeOK' /\ WithinAllocation' /\ Bounded' /\ Opened'
  BY <1>1, <1>2, <1>4, AppendsInv
<1>8. Tiles(mem', blank, count)
  BY <1>1, <1>2, <1>4, TilesKept DEF Ends
<1>9. Tiled'
  <2>1. \A i \in (count + 1)..((count + 1) - 1) : FALSE
    BY <1>3
  <2>2. Reaches(mem', count, count + 1)
    BY <2>1, <1>6 DEF Reaches
  <2>3. pos' = count /\ blank' = blank /\ Ends' = count /\ count' = count + 1
    BY <1>2, <1>3, <1>5 DEF Ends, None
  <2>4. QED
    BY <2>2, <2>3, <1>8 DEF Tiled
<1>10. QED
  BY <1>7, <1>9 DEF IInv

\* Words that begin no instruction, behind the one that is open.
LEMMA OperandsInv ==
    ASSUME IInv, pos # None, NEW ws \in Seq(Word), Len(ws) # 0,
           \A i \in 1..Len(ws) : ~ws[i].head,
           NEW room, room = Room(count + Len(ws)) \/ room = ExactRoom(count + Len(ws)),
           Appends(ws, room), UNCHANGED << pos, blank >>
    PROVE  IInv'
<1>1. /\ count \in Nat /\ Len(ws) \in Nat /\ pos \in 0..(count - 1) /\ blank \in 0..pos
      /\ cap \in Nat
  BY DEF IInv, TypeOK, Opened
<1>2. /\ cap # 0 /\ mem[pos].head
      /\ \A i \in (pos + 1)..(count - 1) : ~mem[i].head
  <2>1. cap # 0
    BY <1>1 DEF IInv, WithinAllocation
  <2>2. QED
    BY <2>1 DEF IInv, Tiled, Reaches
<1>3. /\ count' = count + Len(ws)
      /\ \A i \in 0..(count - 1) : mem'[i] = mem[i]
      /\ \A i \in count..(count + Len(ws) - 1) : mem'[i] = ws[i - count + 1]
  BY <1>2, AppendsFacts
<1>4. TypeOK' /\ WithinAllocation' /\ Bounded' /\ Opened'
  BY AppendsInv
<1>5. Tiles(mem', blank, pos)
  BY TilesKept DEF Ends
<1>6. mem'[pos].head
  BY <1>1, <1>2, <1>3
<1>7. PICK to : to = count + Len(ws)
  OBVIOUS
<1>8. ASSUME NEW i \in (pos + 1)..(to - 1) PROVE ~mem'[i].head
  <2>1. CASE i < count
    BY <2>1, <1>1, <1>2, <1>3
  <2>2. CASE i >= count
    <3>1. mem'[i] = ws[i - count + 1] /\ i - count + 1 \in 1..Len(ws)
      BY <2>2, <1>1, <1>3, <1>7
    <3>2. QED
      BY <3>1
  <2>3. QED
    BY <2>1, <2>2, <1>1, <1>7
<1>9. Tiled'
  <2>1. Reaches(mem', pos, to)
    BY <1>6, <1>8 DEF Reaches
  <2>2. pos' = pos /\ blank' = blank /\ Ends' = pos /\ count' = to
    BY <1>3, <1>7 DEF Ends
  <2>3. QED
    <3>1. Reaches(mem', pos', count') /\ Tiles(mem', blank', Ends')
      BY <2>1, <2>2, <1>5, Zenon
    <3>2. QED
      BY <3>1 DEF Tiled
<1>10. QED
  BY <1>4, <1>9 DEF IInv

\* The instruction is closed: its words are counted, and it is a tile.
LEMMA SetOprndCountInv == IInv /\ SetOprndCount => IInv'
<1> SUFFICES ASSUME IInv, SetOprndCount PROVE IInv'
  OBVIOUS
<1>1. /\ count \in Nat /\ pos \in 0..(count - 1) /\ blank \in 0..pos /\ cap \in Nat
      /\ mem \in [0..(cap - 1) -> Word]
  BY DEF IInv, TypeOK, Opened, SetOprndCount
<1>2. cap # 0 /\ count <= cap
  BY <1>1 DEF IInv, WithinAllocation
<1>3. /\ Tiles(mem, blank, pos)
      /\ \A i \in (pos + 1)..(count - 1) : ~mem[i].head
  BY <1>2 DEF IInv, Tiled, Reaches, Ends, SetOprndCount
<1>4. /\ mem' = [mem EXCEPT ![pos] = Opcode(count - pos - 1)] /\ pos' = None
      /\ cap' = cap /\ count' = count /\ blank' = blank
  BY DEF SetOprndCount
<1>5. Opcode(count - pos - 1) \in Word
  BY <1>1 DEF Opcode, HeadWord, Word
<1>6. mem' \in [0..(cap - 1) -> Word]
  BY <1>1, <1>4, <1>5
<1>7. mem'[pos].head /\ mem'[pos].len = count - pos
  BY <1>1, <1>2, <1>4 DEF Opcode, HeadWord
<1>8. \A i \in 0..(count - 1) : i # pos => mem'[i] = mem[i]
  BY <1>1, <1>2, <1>4
<1>9. Tiles(mem', blank, pos)
  <2>1. \A i \in 0..(pos - 1) : mem[i] \in Word /\ mem'[i] = mem[i]
    BY <1>1, <1>2, <1>8
  <2>2. QED
    BY <2>1, <1>1, <1>3, TilesAgree
<1>10. Tiles(mem', blank, pos + (count - pos))
  <2>1. /\ count - pos \in Nat \ {0} /\ pos + (count - pos) = count
        /\ pos \in Nat /\ blank \in Nat /\ blank <= pos
    BY <1>1
  <2>2. \A i \in 0..(pos + (count - pos) - 1) : mem'[i] \in Word
    BY <1>1, <1>2, <1>6
  <2>3. \A i \in (pos + 1)..(pos + (count - pos) - 1) : ~mem'[i].head
    BY <1>1, <1>3, <1>8
  <2>4. QED
    BY <1>7, <1>9, <2>1, <2>2, <2>3, TilesExtend
<1>11. Tiled'
  BY <1>1, <1>4, <1>10 DEF Tiled, Ends
<1>12. TypeOK' /\ WithinAllocation' /\ Bounded' /\ Opened'
  BY <1>1, <1>2, <1>4, <1>6 DEF IInv, TypeOK, WithinAllocation, Bounded, Opened
<1>13. QED
  BY <1>11, <1>12 DEF IInv

LEMMA InitInv == Init => IInv
<1> SUFFICES ASSUME Init PROVE IInv
  OBVIOUS
<1>1. mem \in [0..(cap - 1) -> Word]
  BY DEF Init, NoWords
<1>2. QED
  BY <1>1, WordsAssumption
     DEF Init, IInv, TypeOK, WithinAllocation, Tiled, Bounded, Opened

\* Every step keeps the invariant.
LEMMA NextInv == IInv /\ [Next]_vars => IInv'
<1> SUFFICES ASSUME IInv, [Next]_vars PROVE IInv'
  OBVIOUS
<1>1. ASSUME NEW n \in Operands, Emitx(n) PROVE IInv'
  BY <1>1, EmissionAssumption, InstructionInv DEF Emitx
<1>2. ASSUME NEW n \in Operands, EmitxFails(n) PROVE IInv'
  BY <1>2, LosesInv DEF EmitxFails
<1>3. ASSUME NEW n \in Operands, Copy(n) PROVE IInv'
  BY <1>3, EmissionAssumption, InstructionInv DEF Copy
<1>4. ASSUME NEW n \in Operands, CopyFails(n) PROVE IInv'
  <2>1. count \in Nat /\ count <= Limit
    BY DEF IInv, TypeOK, Bounded
  <2>2. QED
    BY <1>4, <2>1, LostInv DEF CopyFails
<1>5. CASE EmitOpcode
  BY <1>5, EmitOpcodeInv
<1>6. CASE EmitOpcodeFails
  BY <1>6, LosesInv DEF EmitOpcodeFails
<1>7. CASE EmitWrd
  <2>1. << Operand >> \in Seq(Word) /\ Len(<< Operand >>) = 1 /\ ~<< Operand >>[1].head
    BY DEF Operand, Word
  <2> DEFINE ws == << Operand >>
  <2>2. \A i \in 1..Len(ws) : ~ws[i].head
    BY <2>1
  <2>3. /\ pos # None /\ Appends(ws, Room(count + Len(ws)))
        /\ UNCHANGED << pos, blank >>
    BY <1>7, <2>1 DEF EmitWrd
  <2>4. ws \in Seq(Word) /\ Len(ws) # 0
    BY <2>1
  <2> HIDE DEF ws
  <2>5. QED
    BY <2>2, <2>3, <2>4, OperandsInv
<1>8. CASE EmitWrdFails
  BY <1>8, LosesInv DEF EmitWrdFails
<1>9. ASSUME NEW len \in Lengths, EmitStr(len) PROVE IInv'
  <2>1. /\ Str(len) \in Seq(Word) /\ Len(Str(len)) = PadWrds(len)
        /\ PadWrds(len) # 0 /\ \A i \in 1..PadWrds(len) : ~Str(len)[i].head
    BY EmissionAssumption, StrFacts
  <2>2. /\ pos # None /\ Appends(Str(len), ExactRoom(count + Len(Str(len))))
        /\ UNCHANGED << pos, blank >>
    BY <1>9, <2>1 DEF EmitStr
  <2>3. QED
    BY <2>1, <2>2, OperandsInv
<1>10. ASSUME NEW len \in Lengths, EmitStrFails(len) PROVE IInv'
  BY <1>10, LosesInv DEF EmitStrFails
<1>11. CASE SetOprndCount
  BY <1>11, SetOprndCountInv
<1>12. CASE UNCHANGED vars
  BY <1>12 DEF vars, IInv, TypeOK, WithinAllocation, Tiled, Bounded, Opened, Ends
<1>13. QED
  BY <1>1, <1>2, <1>3, <1>4, <1>5, <1>6, <1>7, <1>8, <1>9, <1>10, <1>11, <1>12
     DEF Next, Done

LEMMA Inductive == Spec => []IInv
BY InitInv, NextInv, PTL DEF Spec

\* The state of a section has its type (wrdemit.h, emitx.h).
THEOREM TypeCorrect == Spec => []TypeOK
<1>1. IInv => TypeOK
  BY DEF IInv
<1>2. QED
  BY <1>1, Inductive, PTL

\* No emitter counts a word its allocation does not have (util_emit_wrd,
\* util_emit_str, the copies of expr.h and aclspv.c).
THEOREM WithinAllocationAlways == Spec => []WithinAllocation
<1>1. IInv => WithinAllocation
  BY DEF IInv
<1>2. QED
  BY <1>1, Inductive, PTL

\* The instructions of a section tile it (emit_opcode,
\* set_oprnd_count_for_opcode, util_emitx_*).
THEOREM TiledAlways == Spec => []Tiled
<1>1. IInv => Tiled
  BY DEF IInv
<1>2. QED
  BY <1>1, Inductive, PTL
------------------------------------------------------------------------------
LEMMA ContentsFacts ==
    ASSUME IInv
    PROVE  /\ Len(Contents) = count /\ DOMAIN Contents = 1..count /\ count \in Nat
           /\ \A i \in 1..count : Contents[i] = IF cap # 0 THEN mem[i - 1] ELSE Zero
BY DEF IInv, TypeOK, Contents

\* An emission extends the log.
LEMMA AppendsExtends ==
    ASSUME IInv, NEW ws \in Seq(Word), Len(ws) # 0,
           NEW room, room = Room(count + Len(ws)) \/ room = ExactRoom(count + Len(ws)),
           Appends(ws, room)
    PROVE  Log!Extend
<1>1. /\ count \in Nat /\ Len(ws) \in Nat
      /\ DOMAIN Contents = 1..count /\ Len(Contents) = count
      /\ \A i \in 1..count : Contents[i] = IF cap # 0 THEN mem[i - 1] ELSE Zero
  BY ContentsFacts
<1>2. PICK n \in Nat : n = count + Len(ws) /\ n > count
  BY <1>1
<1>3. /\ cap' = room /\ room \in Nat /\ room # 0 /\ count' = n /\ n <= room
      /\ mem' \in [0..(room - 1) -> Word]
      /\ \A i \in 0..(count - 1) : mem'[i] = IF cap # 0 THEN mem[i] ELSE Zero
  BY <1>2, AppendsFacts
<1>4. Contents' = [i \in 1..n |-> mem'[i - 1]]
  BY <1>3 DEF Contents
<1>5. ASSUME NEW i \in 1..n PROVE mem'[i - 1] \in Word
  <2>1. i - 1 \in 0..(room - 1)
    BY <1>3
  <2>2. QED
    BY <2>1, <1>3
<1>6. Contents' \in Seq(Word) /\ Len(Contents') = n
  BY <1>4, <1>5
<1>7. ASSUME NEW i \in DOMAIN Contents PROVE Contents'[i] = Contents[i]
  <2>1. i \in 1..count /\ i \in 1..n /\ i - 1 \in 0..(count - 1)
    BY <1>1, <1>2
  <2>2. Contents'[i] = mem'[i - 1]
    BY <2>1, <1>4
  <2>3. QED
    BY <2>1, <2>2, <1>1, <1>3
<1>8. QED
  BY <1>1, <1>2, <1>6, <1>7 DEF Log!Extend

\* The instruction that is closed is the last of the log.
LEMMA SetOprndCountCompletes == IInv /\ SetOprndCount => Log!Complete
<1> SUFFICES ASSUME IInv, SetOprndCount PROVE Log!Complete
  OBVIOUS
<1>1. /\ count \in Nat /\ pos \in 0..(count - 1) /\ blank \in 0..pos /\ cap \in Nat
      /\ mem \in [0..(cap - 1) -> Word]
  BY DEF IInv, TypeOK, Opened, SetOprndCount
<1>2. cap # 0 /\ count <= cap
  BY <1>1 DEF IInv, WithinAllocation
<1>3. /\ mem[pos].head
      /\ \A i \in (pos + 1)..(count - 1) : ~mem[i].head
  BY <1>2 DEF IInv, Tiled, Reaches, SetOprndCount
<1>4. PICK w : w = Opcode(count - pos - 1)
  OBVIOUS
<1>5. mem' = [mem EXCEPT ![pos] = w] /\ cap' = cap /\ count' = count
  BY <1>4 DEF SetOprndCount
<1>6. w \in Word /\ w \in HeadWords
  BY <1>1, <1>4 DEF Opcode, HeadWord, Word, HeadWords
<1>7. Contents = [i \in 1..count |-> mem[i - 1]]
  BY <1>2 DEF Contents
<1>8. Contents' = [i \in 1..count |-> mem'[i - 1]]
  BY <1>2, <1>5 DEF Contents
<1>9. PICK p \in 1..count : p = pos + 1
  BY <1>1
<1>10. ASSUME NEW i \in 1..count
       PROVE  /\ mem[i - 1] \in Word
              /\ mem'[i - 1] = IF i = p THEN w ELSE mem[i - 1]
  <2>1. i - 1 \in 0..(cap - 1)
    BY <1>1, <1>2
  <2>2. mem'[i - 1] = IF i - 1 = pos THEN w ELSE mem[i - 1]
    BY <2>1, <1>1, <1>5
  <2>3. QED
    BY <2>1, <2>2, <1>1, <1>9
<1>11. Contents' \in Seq(Word) /\ DOMAIN Contents' = DOMAIN Contents
  <2>1. \A i \in 1..count : mem'[i - 1] \in Word
    BY <1>6, <1>10
  <2>2. QED
    BY <2>1, <1>1, <1>7, <1>8
<1>12. p \in DOMAIN Contents /\ Contents'[p] \in HeadWords
  BY <1>6, <1>7, <1>8, <1>10
<1>13. ASSUME NEW j \in DOMAIN Contents \ {p} PROVE Contents'[j] = Contents[j]
  BY <1>7, <1>8, <1>10
<1>14. Contents[p] \in HeadWords
  <2>1. Contents[p] = mem[pos] /\ mem[pos] \in Word
    BY <1>1, <1>2, <1>7, <1>9
  <2>2. QED
    BY <2>1, <1>3 DEF Word, HeadWords
<1>15. ASSUME NEW j \in DOMAIN Contents, j > p PROVE Contents[j] \notin HeadWords
  <2>1. j \in 1..count /\ j - 1 \in (pos + 1)..(count - 1)
    BY <1>1, <1>7, <1>9, <1>15
  <2>2. ~Contents[j].head
    BY <2>1, <1>3, <1>7
  <2>3. QED
    BY <2>2 DEF HeadWords
<1>16. QED
  BY <1>11, <1>12, <1>13, <1>14, <1>15 DEF Log!Complete

LEMMA LosesLog == \A n, room : Loses(n, room) => Log!Lose
BY DEF Loses, Contents, Log!Lose

\* A step of the section is one of the log, or leaves it as it is.
LEMMA LogStep == IInv /\ [Next]_vars => [Log!Next]_Contents
<1> SUFFICES ASSUME IInv, [Next]_vars PROVE Log!Next \/ Contents' = Contents
  OBVIOUS
<1> USE DEF Log!Next
<1>1. ASSUME NEW n \in Nat, NEW room,
             room = Room(count + n + 1) \/ room = ExactRoom(count + n + 1),
             Appends(Instruction(n), room)
      PROVE  Log!Extend
  <2> DEFINE ws == Instruction(n)
  <2>1. ws \in Seq(Word) /\ Len(ws) = n + 1 /\ Len(ws) # 0
    BY InstructionFacts
  <2>2. count + n + 1 = count + Len(ws)
    BY <2>1 DEF IInv, TypeOK
  <2>3. Appends(ws, room) /\ (room = Room(count + Len(ws)) \/ room = ExactRoom(count + Len(ws)))
    BY <1>1, <2>2
  <2> HIDE DEF ws
  <2>4. QED
    BY <2>1, <2>3, AppendsExtends
<1>2. ASSUME NEW n \in Operands, Emitx(n) \/ Copy(n) PROVE Log!Extend
  BY <1>1, <1>2, EmissionAssumption DEF Emitx, Copy
<1>3. ASSUME NEW n \in Operands, EmitxFails(n) PROVE Log!Lose
  BY <1>3, LosesLog DEF EmitxFails
<1>4. ASSUME NEW n \in Operands, CopyFails(n) PROVE Log!Erase
  <2>1. cap' = 0 /\ count' = count
    BY <1>4 DEF CopyFails
  <2>2. Contents' = [i \in 1..count |-> Zero]
    BY <2>1 DEF Contents
  <2>3. QED
    BY <2>2, ContentsFacts DEF Log!Erase
<1>5. ASSUME NEW w \in Word, Appends(<< w >>, Room(count + 1)) PROVE Log!Extend
  <2> DEFINE ws == << w >>
  <2>1. ws \in Seq(Word) /\ Len(ws) = 1 /\ Len(ws) # 0
    OBVIOUS
  <2>2. Appends(ws, Room(count + Len(ws)))
    BY <2>1, <1>5
  <2> HIDE DEF ws
  <2>3. QED
    BY <2>1, <2>2, AppendsExtends
<1>6. CASE EmitOpcode
  <2>1. Opcode(0) \in Word
    BY DEF Opcode, HeadWord, Word
  <2>2. QED
    BY <2>1, <1>5, <1>6 DEF EmitOpcode
<1>7. CASE EmitOpcodeFails
  BY <1>7, LosesLog DEF EmitOpcodeFails
<1>8. CASE EmitWrd
  <2>1. Operand \in Word
    BY DEF Operand, Word
  <2>2. QED
    BY <2>1, <1>5, <1>8 DEF EmitWrd
<1>9. CASE EmitWrdFails
  BY <1>9, LosesLog DEF EmitWrdFails
<1>10. ASSUME NEW len \in Lengths, EmitStr(len) PROVE Log!Extend
  <2>1. /\ Str(len) \in Seq(Word) /\ Len(Str(len)) = PadWrds(len)
        /\ PadWrds(len) # 0
    BY EmissionAssumption, StrFacts
  <2>2. Appends(Str(len), ExactRoom(count + Len(Str(len))))
    BY <1>10, <2>1 DEF EmitStr
  <2>3. QED
    BY <2>1, <2>2, AppendsExtends
<1>11. ASSUME NEW len \in Lengths, EmitStrFails(len) PROVE Log!Lose
  BY <1>11, LosesLog DEF EmitStrFails
<1>12. CASE SetOprndCount
  BY <1>12, SetOprndCountCompletes
<1>13. CASE UNCHANGED vars
  BY <1>13 DEF vars, Contents
<1>14. QED
  BY <1>2, <1>3, <1>4, <1>6, <1>7, <1>8, <1>9, <1>10, <1>11, <1>12, <1>13
     DEF Next, Done

\* A section is a log of words, whatever its vector does (util_emit_wrd,
\* util_emit_str, util_emitx_*, the copies of expr.h and aclspv.c).
THEOREM Implements == Spec => ImplementsLog
<1>1. Init => Log!Init
  BY DEF Init, Contents, Log!Init
<1>2. QED
  BY <1>1, Inductive, LogStep, PTL DEF Spec, ImplementsLog, Log!Spec
=============================================================================
