--------------------------- MODULE ScaleRefinement ---------------------------
(***************************************************************************)
(* scale.h implements the stack of buffers of ScaleStack, for every size   *)
(* of the header word and of a record, every set of buffer sizes and every *)
(* bound on the allocation.  The identifiers of the nodes are what maps a  *)
(* node to its place in the stack: to the inductive invariant of           *)
(* ScaleProofs comes that they grow with the offset, that none is left     *)
(* out, and that the sizes are those the callers ask for.  From the same   *)
(* invariant, a walk along m_nxt finds every node (IndexFinds).            *)
(***************************************************************************)
EXTENDS ScaleProofs, Sequences, WellFoundedInduction

Numbered ==
    cap # 0 =>
        /\ \A o, p \in DOMAIN at : o < p => at[o].id < at[p].id
        /\ \A i \in 0..at[last].id : \E o \in DOMAIN at : at[o].id = i
        /\ \A o \in DOMAIN at : at[o].sz \in Sizes

JInv == IInv /\ Numbered

\* The facts about the nodes that the steps need.
LEMMA Nodes ==
    ASSUME IInv, cap # 0
    PROVE  /\ last \in DOMAIN at /\ First \in DOMAIN at /\ at[First].id = 0
           /\ at[last].nxt = 0 /\ cap \in Nat
           /\ \A o \in DOMAIN at :
                 /\ o \in Nat /\ First <= o /\ o <= last /\ o # 0
                 /\ at[o] \in Node /\ at[o].id \in Nat
                 /\ at[o].buf \in Nat /\ at[o].sz \in Nat
                 /\ at[o].buf = o + NodeSize /\ at[o].buf + at[o].sz <= cap
                 /\ End(at[o]) = at[o].buf + at[o].sz
                 /\ o # last => /\ at[o].nxt = End(at[o])
                                /\ at[o].nxt \in DOMAIN at
                                /\ at[at[o].nxt].id = at[o].id + 1
<1>1. /\ last \in DOMAIN at /\ First \in DOMAIN at /\ at[First].id = 0
      /\ at[last].nxt = 0 /\ cap \in Nat
  BY DEF IInv, TypeOK, Linked
<1>2. ASSUME NEW o \in DOMAIN at
      PROVE  /\ o \in Nat /\ First <= o /\ o <= last /\ o # 0
             /\ at[o] \in Node /\ at[o].id \in Nat
             /\ at[o].buf \in Nat /\ at[o].sz \in Nat
             /\ at[o].buf = o + NodeSize /\ at[o].buf + at[o].sz <= cap
             /\ End(at[o]) = at[o].buf + at[o].sz
             /\ o # last => /\ at[o].nxt = End(at[o])
                            /\ at[o].nxt \in DOMAIN at
                            /\ at[at[o].nxt].id = at[o].id + 1
  <2>1. /\ o \in Nat /\ at[o] \in Node /\ at[o].id \in Nat
        /\ at[o].buf \in Nat /\ at[o].sz \in Nat
    BY NodeAt DEF IInv
  <2>2. First <= o /\ o <= last /\ o # 0
    BY <2>1, SizeAssumption DEF IInv, Linked, First
  <2>3. End(at[o]) = at[o].buf + at[o].sz
    BY DEF End
  <2>4. at[o].buf = o + NodeSize /\ at[o].buf + at[o].sz <= cap
    BY <2>3 DEF IInv, Packed
  <2>5. o # last => /\ at[o].nxt = End(at[o])
                    /\ at[o].nxt \in DOMAIN at
                    /\ at[at[o].nxt].id = at[o].id + 1
    BY DEF IInv, Linked
  <2>6. QED
    BY <2>1, <2>2, <2>3, <2>4, <2>5
<1>3. QED
  BY <1>1, <1>2

LEMMA MkScaleNodes ==
    ASSUME IInv, NEW n \in Sizes, MkScale(n)
    PROVE  LET nx == End(at[last]) IN
           /\ cap # 0 /\ cap' # 0 /\ n \in Nat /\ nx \in Nat /\ nx > last
           /\ last' = nx /\ DOMAIN at' = DOMAIN at \cup {nx} /\ nx \notin DOMAIN at
           /\ at'[nx].id = at[last].id + 1 /\ at'[nx].sz = n
           /\ \A o \in DOMAIN at : /\ at'[o].id = at[o].id /\ at'[o].sz = at[o].sz
                                   /\ at'[o].buf = at[o].buf
<1> DEFINE nx == End(at[last])
<1>1. cap # 0 /\ n \in Nat
  BY SizeAssumption DEF MkScale
<1>2. /\ last \in DOMAIN at /\ last \in Nat
      /\ at[last].buf \in Nat /\ at[last].sz \in Nat /\ at[last].buf = last + NodeSize
      /\ nx = at[last].buf + at[last].sz
      /\ at[last].buf + at[last].sz <= cap /\ cap \in Nat
  BY <1>1, Nodes
<1>3. nx \in Nat /\ nx > last
  BY <1>2, SizeAssumption
<1>4. \A o \in DOMAIN at : o \in Nat /\ o <= last /\ at[o] \in Node
  BY <1>1, Nodes
<1>5. nx \notin DOMAIN at
  BY <1>2, <1>3, <1>4
<1>6. cap' # 0
  BY <1>1, <1>2 DEF MkScale, AtLeast, MkSize
<1> HIDE DEF nx
<1>7. /\ last' = nx /\ DOMAIN at' = DOMAIN at \cup {nx}
      /\ at'[nx] = [id |-> at[last].id + 1, nxt |-> 0, prv |-> at[last].buf - NodeSize,
                    buf |-> nx + NodeSize, sz |-> n]
      /\ at'[last] = [at[last] EXCEPT !.nxt = nx]
      /\ \A o \in DOMAIN at \ {last} : at'[o] = at[o]
  BY <1>2, <1>5 DEF MkScale, nx
<1>8. ASSUME NEW o \in DOMAIN at
      PROVE  at'[o].id = at[o].id /\ at'[o].sz = at[o].sz /\ at'[o].buf = at[o].buf
  BY <1>2, <1>4, <1>7 DEF Node
<1>9. QED
  BY <1>1, <1>3, <1>5, <1>6, <1>7, <1>8 DEF nx

LEMMA MkScaleNumbered ==
    ASSUME JInv, NEW n \in Sizes, MkScale(n) PROVE Numbered'
<1>1. PICK nx \in Nat :
          /\ cap # 0 /\ nx > last
          /\ last' = nx /\ DOMAIN at' = DOMAIN at \cup {nx}
          /\ at'[nx].id = at[last].id + 1 /\ at'[nx].sz = n
          /\ \A o \in DOMAIN at : at'[o].id = at[o].id /\ at'[o].sz = at[o].sz
  BY MkScaleNodes DEF JInv
<1>2. /\ last \in DOMAIN at
      /\ \A o \in DOMAIN at : o \in Nat /\ o <= last /\ at[o].id \in Nat
  BY <1>1, Nodes DEF JInv
<1>3. PICK a : a = at'
  OBVIOUS
<1>4. ASSUME NEW o \in DOMAIN a, NEW p \in DOMAIN a, o < p PROVE a[o].id < a[p].id
  <2>1. CASE p = nx
    <3>1. o \in DOMAIN at
      BY <2>1, <1>1, <1>3, <1>4
    <3>2. at[o].id <= at[last].id
      BY <3>1, <1>1, <1>2 DEF JInv, Numbered
    <3>3. QED
      BY <2>1, <3>1, <3>2, <1>1, <1>2, <1>3
  <2>2. CASE p # nx
    <3>1. o \in DOMAIN at /\ p \in DOMAIN at
      BY <2>2, <1>1, <1>2, <1>3, <1>4
    <3>2. QED
      BY <3>1, <1>1, <1>3, <1>4 DEF JInv, Numbered
  <2>3. QED
    BY <2>1, <2>2
<1>5. a[nx].id = at[last].id + 1
  BY <1>1, <1>3
<1>6. ASSUME NEW i \in 0..a[nx].id PROVE \E o \in DOMAIN a : a[o].id = i
  <2>1. CASE i = a[nx].id
    BY <2>1, <1>1, <1>3
  <2>2. CASE i # a[nx].id
    <3>1. i \in 0..at[last].id
      BY <2>2, <1>2, <1>5
    <3>2. PICK o \in DOMAIN at : at[o].id = i
      BY <3>1, <1>1 DEF JInv, Numbered
    <3>3. QED
      BY <3>2, <1>1, <1>3
  <2>3. QED
    BY <2>1, <2>2
<1>7. \A o \in DOMAIN a : a[o].sz \in Sizes
  BY <1>1, <1>3 DEF JInv, Numbered
<1>8. QED
  BY <1>1, <1>3, <1>4, <1>6, <1>7 DEF Numbered

LEMMA DelLastNodes ==
    ASSUME IInv, DelLast, at[last].prv # last
    PROVE  /\ cap # 0 /\ mem' = mem /\ last' \in DOMAIN at
           /\ DOMAIN at' = DOMAIN at \ {last}
           /\ at[last].id = at[last'].id + 1
           /\ last' # last
           /\ \A o \in DOMAIN at' : /\ at'[o].id = at[o].id /\ at'[o].sz = at[o].sz
                                    /\ at'[o].buf = at[o].buf
<1> DEFINE p == at[last].prv
<1>1. cap # 0 /\ mem' = mem /\ last' = p /\ cap' = cap
  BY DEF DelLast
<1>2. last \in DOMAIN at /\ last # First
  BY <1>1 DEF IInv, Linked
<1>3. p \in DOMAIN at /\ at[p].nxt = last
  BY <1>1, <1>2 DEF IInv, Linked
<1>4. at[last].id = at[p].id + 1
  BY <1>1, <1>3, Nodes
<1>5. \A o \in DOMAIN at : at[o] \in Node
  BY <1>1, Nodes
<1>6. /\ DOMAIN at' = DOMAIN at \ {last}
      /\ at'[p] = [at[p] EXCEPT !.nxt = 0]
      /\ \A o \in DOMAIN at' \ {p} : at'[o] = at[o]
  BY <1>3 DEF DelLast
<1> HIDE DEF p
<1>7. ASSUME NEW o \in DOMAIN at'
      PROVE  at'[o].id = at[o].id /\ at'[o].sz = at[o].sz /\ at'[o].buf = at[o].buf
  BY <1>3, <1>5, <1>6 DEF Node
<1>8. QED
  BY <1>1, <1>2, <1>3, <1>4, <1>6, <1>7 DEF p

\* The only node is its own predecessor: nothing changes.
LEMMA DelLastKeeps == ASSUME IInv, DelLast, at[last].prv = last PROVE UNCHANGED vars
<1>1. cap # 0 /\ mem' = mem /\ last' = last /\ cap' = cap
  BY DEF DelLast
<1>2. last \in DOMAIN at /\ at[last].nxt = 0 /\ at[last] \in Node
      /\ \A o \in DOMAIN at : at[o] \in Node
  BY <1>1, Nodes
<1>3. at' = [o \in DOMAIN at |-> IF o = last THEN [at[o] EXCEPT !.nxt = 0] ELSE at[o]]
  BY DEF DelLast
<1>4. [at[last] EXCEPT !.nxt = 0] = at[last]
  BY <1>2 DEF Node
<1>5. at' = at
  BY <1>3, <1>4 DEF IInv, TypeOK
<1>6. QED
  BY <1>1, <1>5 DEF vars

LEMMA NumberedNext == JInv /\ [Next]_vars => Numbered'
<1> SUFFICES ASSUME JInv, [Next]_vars PROVE Numbered'
  OBVIOUS
<1>1. ASSUME NEW n \in Sizes, InitScale(n) PROVE Numbered'
  <2>1. PICK a : a = at'
    OBVIOUS
  <2>2. DOMAIN a = {First} /\ last' = First /\ a[First].id = 0 /\ a[First].sz = n
    BY <1>1, <2>1 DEF InitScale
  <2>3. First \in Nat
    BY SizeAssumption DEF First
  <2>4. QED
    BY <2>1, <2>2, <2>3 DEF Numbered
<1>2. ASSUME NEW n, Fail(n) PROVE Numbered'
  BY <1>2 DEF Fail, Numbered
<1>3. ASSUME NEW n \in Sizes, MkScale(n) PROVE Numbered'
  BY <1>3, MkScaleNumbered
<1>4. ASSUME NEW n \in Sizes, GrowLast(n) PROVE Numbered'
  <2>1. cap # 0 /\ last' = last /\ at' = [at EXCEPT ![last].sz = n]
    BY <1>4 DEF GrowLast
  <2>2. last \in DOMAIN at /\ \A o \in DOMAIN at : at[o] \in Node
    BY <2>1, Nodes DEF JInv
  <2>3. PICK a : a = at'
    OBVIOUS
  <2>4. DOMAIN a = DOMAIN at
        /\ \A o \in DOMAIN at : /\ a[o].id = at[o].id
                                /\ a[o].sz = IF o = last THEN n ELSE at[o].sz
    BY <2>1, <2>2, <2>3 DEF Node
  <2>5. \A o, p \in DOMAIN a : o < p => a[o].id < a[p].id
    BY <2>1, <2>4 DEF JInv, Numbered
  <2>6. \A i \in 0..a[last].id : \E o \in DOMAIN a : a[o].id = i
    BY <2>1, <2>2, <2>4 DEF JInv, Numbered
  <2>7. \A o \in DOMAIN a : a[o].sz \in Sizes
    BY <2>1, <2>4 DEF JInv, Numbered
  <2>8. QED
    BY <2>1, <2>3, <2>5, <2>6, <2>7 DEF Numbered
<1>5. CASE DelLast
  <2>1. CASE at[last].prv = last
    BY <2>1, <1>5, DelLastKeeps DEF JInv, Numbered, vars
  <2>2. CASE at[last].prv # last
    <3>1. /\ cap # 0 /\ DOMAIN at' = DOMAIN at \ {last} /\ last' \in DOMAIN at
          /\ at[last].id = at[last'].id + 1 /\ last' # last
          /\ \A o \in DOMAIN at' : at'[o].id = at[o].id /\ at'[o].sz = at[o].sz
      BY <2>2, <1>5, DelLastNodes DEF JInv
    <3>2. PICK a, l : a = at' /\ l = last'
      OBVIOUS
    <3>3. \A o \in DOMAIN at : at[o].id \in Nat
      BY <3>1, Nodes DEF JInv
    <3>4. ASSUME NEW i \in 0..a[l].id PROVE \E o \in DOMAIN a : a[o].id = i
      <4>1. a[l].id = at[l].id /\ at[last].id = at[l].id + 1 /\ at[l].id \in Nat
        BY <3>1, <3>2, <3>3
      <4>2. i \in 0..at[last].id /\ i # at[last].id
        BY <4>1
      <4>3. PICK o \in DOMAIN at : at[o].id = i
        BY <4>2, <3>1 DEF JInv, Numbered
      <4>4. o \in DOMAIN a /\ a[o].id = at[o].id
        BY <4>2, <4>3, <3>1, <3>2
      <4>5. QED
        BY <4>3, <4>4
    <3>5. \A o, q \in DOMAIN a : o < q => a[o].id < a[q].id
      BY <3>1, <3>2 DEF JInv, Numbered
    <3>6. \A o \in DOMAIN a : a[o].sz \in Sizes
      BY <3>1, <3>2 DEF JInv, Numbered
    <3>7. QED
      BY <3>2, <3>4, <3>5, <3>6 DEF Numbered
  <2>3. QED
    BY <2>1, <2>2
<1>6. ASSUME UNCHANGED << cap, last, at >> PROVE Numbered'
  BY <1>6 DEF JInv, Numbered
<1>7. QED
  BY <1>1, <1>2, <1>3, <1>4, <1>5, <1>6
     DEF Next, InitScaleFails, MkScaleFails, GrowLastFails, Write, vars

LEMMA JInductive == Spec => []JInv
<1>1. Init => Numbered
  BY DEF Init, Numbered
<1>2. Numbered /\ IInv <=> JInv
  BY DEF JInv
<1>3. QED
  BY <1>1, <1>2, InitInv, NextInv, NumberedNext, PTL DEF Spec

------------------------------------------------------------------------------
\* The cells of a buffer of n cells at offset b, in the memory m.
CellsAt(m, b, n) == [j \in 1..n |-> m[b + j - 1]]

\* The stack S is what the nodes a, the last of them l and the memory m hold.
Represents(S, a, l, m) ==
    /\ l \in DOMAIN a /\ a[l].id \in Nat
    /\ S \in Seq(Stack!Buffer) /\ Len(S) = a[l].id + 1
    /\ \A o \in DOMAIN a : a[o].id \in 0..a[l].id
                           /\ S[a[o].id + 1] = CellsAt(m, a[o].buf, a[o].sz)
    /\ \A i \in 0..a[l].id : \E o \in DOMAIN a : a[o].id = i

LEMMA InBuffer ==
    ASSUME NEW n \in Sizes, NEW f \in [1..n -> Cell]
    PROVE  f \in Stack!Buffer
  BY DEF Stack!Buffer

LEMMA SeqOf ==
    ASSUME NEW n \in Nat, NEW X, NEW f \in [1..n -> X]
    PROVE  f \in Seq(X) /\ Len(f) = n
  OBVIOUS

\* A node with a given identifier is the only one.
LEMMA OneNode ==
    ASSUME JInv, cap # 0, NEW o \in DOMAIN at
    PROVE  NodeWithId(at[o].id) = o
<1>1. \A p \in DOMAIN at : p \in Nat /\ at[p].id \in Nat
  BY Nodes DEF JInv
<1>2. \A p \in DOMAIN at : at[p].id = at[o].id => p = o
  <2>1. SUFFICES ASSUME NEW p \in DOMAIN at, at[p].id = at[o].id, p # o PROVE FALSE
    OBVIOUS
  <2>2. p < o \/ o < p
    BY <1>1, <2>1
  <2>3. QED
    BY <1>1, <2>1, <2>2 DEF JInv, Numbered
<1>3. QED
  BY <1>2 DEF NodeWithId

LEMMA Facts == (JInv /\ cap # 0) => Represents(BufferStack, at, last, mem)
<1> SUFFICES ASSUME JInv, cap # 0 PROVE Represents(BufferStack, at, last, mem)
  OBVIOUS
<1>1. /\ last \in DOMAIN at /\ at[last].id \in Nat /\ cap \in Nat
      /\ \A o \in DOMAIN at : /\ o \in Nat /\ o <= last /\ at[o].id \in Nat
                              /\ at[o].buf \in Nat /\ at[o].sz \in Nat
                              /\ at[o].buf + at[o].sz <= cap
  BY Nodes DEF JInv
<1>2. \A o \in DOMAIN at : at[o].id \in 0..at[last].id
  BY <1>1 DEF JInv, Numbered
<1>3. \A i \in 0..at[last].id : \E o \in DOMAIN at : at[o].id = i
  BY DEF JInv, Numbered
<1>4. BufferStack = [i \in 1..(at[last].id + 1) |-> Contents(at[NodeWithId(i - 1)])]
  BY DEF BufferStack
<1>5. ASSUME NEW o \in DOMAIN at
      PROVE  BufferStack[at[o].id + 1] = CellsAt(mem, at[o].buf, at[o].sz)
  <2>1. at[o].id + 1 \in 1..(at[last].id + 1) /\ (at[o].id + 1) - 1 = at[o].id
    BY <1>1, <1>2
  <2>2. BufferStack[at[o].id + 1] = Contents(at[NodeWithId(at[o].id)])
    BY <1>4, <2>1
  <2>3. NodeWithId(at[o].id) = o
    BY OneNode
  <2>4. QED
    BY <2>2, <2>3 DEF Contents, CellsAt
<1>6. ASSUME NEW o \in DOMAIN at
      PROVE  CellsAt(mem, at[o].buf, at[o].sz) \in Stack!Buffer
  <2>1. at[o].sz \in Sizes
    BY DEF JInv, Numbered
  <2>2. mem \in [0..(cap - 1) -> Cell]
    BY DEF JInv, IInv, TypeOK
  <2>3. \A j \in 1..at[o].sz : at[o].buf + j - 1 \in 0..(cap - 1)
    BY <1>1
  <2>4. CellsAt(mem, at[o].buf, at[o].sz) \in [1..at[o].sz -> Cell]
    BY <2>2, <2>3 DEF CellsAt
  <2>5. QED
    BY <2>1, <2>4, InBuffer
<1>7. ASSUME NEW i \in 1..(at[last].id + 1) PROVE BufferStack[i] \in Stack!Buffer
  <2>1. PICK o \in DOMAIN at : at[o].id = i - 1
    BY <1>1, <1>3
  <2>2. at[o].id + 1 = i
    BY <2>1
  <2>3. QED
    BY <2>2, <1>5, <1>6
<1>8. BufferStack \in Seq(Stack!Buffer) /\ Len(BufferStack) = at[last].id + 1
  <2>1. PICK n \in Nat : n = at[last].id + 1
    BY <1>1
  <2>2. BufferStack \in [1..n -> Stack!Buffer]
    BY <2>1, <1>4, <1>7
  <2>3. QED
    BY <2>1, <2>2, SeqOf
<1>9. QED
  BY <1>1, <1>2, <1>3, <1>5, <1>8 DEF Represents

LEMMA FactsNext ==
    (JInv /\ cap # 0)' => Represents(BufferStack', at', last', mem')
<1>1. (JInv /\ cap # 0)' => Represents(BufferStack, at, last, mem)'
  BY Facts, PTL
<1>2. QED
  BY <1>1 DEF Represents
------------------------------------------------------------------------------
\* The cells of a buffer are kept by a memory that agrees with the old one
\* on them.
LEMMA SameCells ==
    ASSUME NEW m, NEW k, NEW b \in Nat, NEW n \in Nat,
           \A x \in Nat : (b <= x /\ x < b + n) => k[x] = m[x]
    PROVE  CellsAt(k, b, n) = CellsAt(m, b, n)
<1>1. \A j \in 1..n : b + j - 1 \in Nat /\ b <= b + j - 1 /\ b + j - 1 < b + n
  OBVIOUS
<1>2. \A j \in 1..n : k[b + j - 1] = m[b + j - 1]
  BY <1>1
<1>3. QED
  BY <1>2 DEF CellsAt

\* A buffer whose node and cells are kept is the same in both stacks.
LEMMA Kept ==
    ASSUME NEW S, NEW T, NEW a, NEW b, NEW l, NEW k, NEW m, NEW w,
           Represents(S, a, l, m), Represents(T, b, k, w),
           NEW i \in 1..Len(T), i <= Len(S),
           \A o \in DOMAIN a : a[o].id = i - 1 =>
                  o \in DOMAIN b /\ b[o].id = a[o].id
                  /\ CellsAt(w, b[o].buf, b[o].sz) = CellsAt(m, a[o].buf, a[o].sz)
    PROVE  T[i] = S[i]
<1>1. i - 1 \in 0..a[l].id
  BY DEF Represents
<1>2. PICK o \in DOMAIN a : a[o].id = i - 1
  BY <1>1 DEF Represents
<1>3. a[o].id + 1 = i
  BY <1>2
<1>4. QED
  BY <1>2, <1>3 DEF Represents

\* A node more on top of the others: the stack grows by one buffer.
LEMMA Pushed ==
    ASSUME NEW S, NEW T, NEW a, NEW b, NEW l, NEW k, NEW m, NEW w,
           Represents(S, a, l, m), Represents(T, b, k, w),
           b[k].id = a[l].id + 1,
           \A o \in DOMAIN a : o \in DOMAIN b /\ b[o].id = a[o].id
                               /\ CellsAt(w, b[o].buf, b[o].sz) = CellsAt(m, a[o].buf, a[o].sz)
    PROVE  S # << >> /\ \E c \in Stack!Buffer : T = Append(S, c)
<1>1. PICK n \in Nat : n = a[l].id + 1 /\ Len(S) = n /\ Len(T) = n + 1
  BY DEF Represents
<1>2. S \in Seq(Stack!Buffer) /\ T \in Seq(Stack!Buffer) /\ n >= 1
  BY <1>1 DEF Represents
<1>3. ASSUME NEW i \in 1..n PROVE T[i] = S[i]
  <2>1. i \in 1..Len(T) /\ i <= Len(S)
    BY <1>1
  <2>2. QED
    BY <2>1, Kept
<1>4. T[n + 1] \in Stack!Buffer
  BY <1>1, <1>2
<1>5. T = Append(S, T[n + 1])
  BY <1>1, <1>2, <1>3
<1>6. QED
  BY <1>1, <1>2, <1>4, <1>5

\* The top node goes and the others keep their cells: the stack loses its
\* top buffer.
LEMMA Popped ==
    ASSUME NEW S, NEW T, NEW a, NEW b, NEW l, NEW k, NEW m, NEW w,
           Represents(S, a, l, m), Represents(T, b, k, w),
           a[l].id = b[k].id + 1,
           \A o \in DOMAIN a : a[o].id # a[l].id =>
                  o \in DOMAIN b /\ b[o].id = a[o].id
                  /\ CellsAt(w, b[o].buf, b[o].sz) = CellsAt(m, a[o].buf, a[o].sz)
    PROVE  Len(S) > 1 /\ T = SubSeq(S, 1, Len(S) - 1)
<1>1. PICK n \in Nat : n = b[k].id + 1 /\ Len(S) = n + 1 /\ Len(T) = n /\ a[l].id = n
  BY DEF Represents
<1>2. S \in Seq(Stack!Buffer) /\ T \in Seq(Stack!Buffer) /\ n >= 1
  BY <1>1 DEF Represents
<1>3. ASSUME NEW i \in 1..n PROVE T[i] = S[i]
  <2>1. \A o \in DOMAIN a : a[o].id = i - 1 => a[o].id # a[l].id
    BY <1>1
  <2>2. QED
    BY <2>1, <1>1, Kept
<1>4. T = SubSeq(S, 1, n)
  BY <1>1, <1>2, <1>3
<1>5. QED
  BY <1>1, <1>2, <1>4

\* The top buffer is resized: the others are kept, and so are the cells that
\* both sizes have.
LEMMA Resized ==
    ASSUME NEW S, NEW T, NEW a, NEW b, NEW l, NEW m, NEW w,
           Represents(S, a, l, m), Represents(T, b, l, w),
           b[l].id = a[l].id, b[l].buf = a[l].buf,
           a[l].buf \in Nat, a[l].sz \in Nat, b[l].sz \in Nat,
           \A j \in Nat : j < a[l].sz => w[a[l].buf + j] = m[a[l].buf + j],
           \A o \in DOMAIN a : a[o].id # a[l].id =>
                  o \in DOMAIN b /\ b[o].id = a[o].id
                  /\ CellsAt(w, b[o].buf, b[o].sz) = CellsAt(m, a[o].buf, a[o].sz)
    PROVE  S # << >> /\ \E c \in Stack!Buffer :
                /\ Stack!Common(c, S[Len(S)])
                /\ T = [S EXCEPT ![Len(S)] = c]
<1>1. PICK n \in Nat : n = a[l].id + 1 /\ Len(S) = n /\ Len(T) = n /\ b[l].id + 1 = n
  BY DEF Represents
<1>2. S \in Seq(Stack!Buffer) /\ T \in Seq(Stack!Buffer) /\ n >= 1
  BY <1>1 DEF Represents
<1>3. ASSUME NEW i \in 1..n, i # n PROVE T[i] = S[i]
  <2>1. \A o \in DOMAIN a : a[o].id = i - 1 => a[o].id # a[l].id
    BY <1>1, <1>3
  <2>2. i \in 1..Len(T) /\ i <= Len(S)
    BY <1>1
  <2>3. QED
    BY <2>1, <2>2, Kept
<1>4. S[n] = CellsAt(m, a[l].buf, a[l].sz) /\ T[n] = CellsAt(w, b[l].buf, b[l].sz)
  BY <1>1 DEF Represents
<1>5. Stack!Common(T[n], S[n])
  <2>1. ASSUME NEW j \in (1..b[l].sz) \cap (1..a[l].sz)
        PROVE  w[b[l].buf + j - 1] = m[a[l].buf + j - 1]
    <3>1. j - 1 \in Nat /\ j - 1 < a[l].sz
      OBVIOUS
    <3>2. PICK q \in Nat : q = j - 1
      BY <3>1
    <3>3. a[l].buf + j - 1 = a[l].buf + q
      BY <3>2
    <3>4. QED
      BY <3>1, <3>2, <3>3
  <2>2. QED
    BY <1>4, <2>1 DEF Stack!Common, CellsAt
<1>6. T = [S EXCEPT ![n] = T[n]]
  BY <1>1, <1>2, <1>3
<1>7. QED
  BY <1>1, <1>2, <1>5, <1>6

\* T is the stack S with one cell of one buffer written.
OneCell(S, T) ==
    \E n \in DOMAIN S : \E j \in DOMAIN S[n], c \in Cell : T = [S EXCEPT ![n][j] = c]

\* The memory w is m with d in the i-th cell of the buffer of node o, and
\* with the other buffers as they were.
Writes(a, o, i, d, m, w) ==
    /\ i \in Nat /\ a[o].buf \in Nat /\ a[o].sz \in Nat /\ i < a[o].sz
    /\ \A j \in Nat : j < a[o].sz =>
            w[a[o].buf + j] = IF j = i THEN d ELSE m[a[o].buf + j]
    /\ \A p \in DOMAIN a : a[p].id # a[o].id =>
            CellsAt(w, a[p].buf, a[p].sz) = CellsAt(m, a[p].buf, a[p].sz)

\* One cell of one buffer is written.
LEMMA Poked ==
    ASSUME NEW S, NEW T, NEW a, NEW l, NEW m, NEW w,
           Represents(S, a, l, m), Represents(T, a, l, w),
           NEW o \in DOMAIN a, NEW i, NEW d \in Cell, Writes(a, o, i, d, m, w)
    PROVE  OneCell(S, T)
<1>0. /\ i \in Nat /\ a[o].buf \in Nat /\ a[o].sz \in Nat /\ i < a[o].sz
      /\ \A j \in Nat : j < a[o].sz =>
            w[a[o].buf + j] = IF j = i THEN d ELSE m[a[o].buf + j]
      /\ \A p \in DOMAIN a : a[p].id # a[o].id =>
            CellsAt(w, a[p].buf, a[p].sz) = CellsAt(m, a[p].buf, a[p].sz)
  BY DEF Writes
<1>1. PICK n, h : n = a[l].id + 1 /\ h = a[o].id + 1
  OBVIOUS
<1>2. /\ n \in Nat /\ Len(S) = n /\ Len(T) = n /\ h \in 1..n
      /\ S \in Seq(Stack!Buffer) /\ T \in Seq(Stack!Buffer)
      /\ S[h] = CellsAt(m, a[o].buf, a[o].sz) /\ T[h] = CellsAt(w, a[o].buf, a[o].sz)
  <2>1. /\ a[l].id \in Nat /\ a[o].id \in 0..a[l].id
        /\ Len(S) = a[l].id + 1 /\ Len(T) = a[l].id + 1
    BY DEF Represents
  <2>2. n \in Nat /\ Len(S) = n /\ Len(T) = n /\ h \in 1..n
    BY <1>1, <2>1
  <2>3. S \in Seq(Stack!Buffer) /\ T \in Seq(Stack!Buffer)
    BY DEF Represents
  <2>4. S[h] = CellsAt(m, a[o].buf, a[o].sz) /\ T[h] = CellsAt(w, a[o].buf, a[o].sz)
    BY <1>1 DEF Represents
  <2>5. QED
    BY <2>2, <2>3, <2>4
<1>3. ASSUME NEW x \in 1..n, x # h PROVE T[x] = S[x]
  <2>1. x - 1 \in 0..a[l].id /\ a[o].id \in Nat
    BY <1>2 DEF Represents
  <2>2. PICK p \in DOMAIN a : a[p].id = x - 1
    BY <2>1 DEF Represents
  <2>3. a[p].id + 1 = x /\ a[p].id # a[o].id
    BY <1>1, <1>3, <2>1, <2>2
  <2>4. QED
    BY <1>0, <2>2, <2>3 DEF Represents
<1>5. T[h] = [S[h] EXCEPT ![i + 1] = d] /\ i + 1 \in DOMAIN S[h]
  <2>1. PICK z \in Nat, u \in Nat : z = a[o].sz /\ u = a[o].buf
    BY <1>0
  <2>2. S[h] = [j \in 1..z |-> m[u + j - 1]]
    BY <1>2, <2>1 DEF CellsAt
  <2>3. T[h] = [j \in 1..z |-> w[u + j - 1]]
    BY <1>2, <2>1 DEF CellsAt
  <2>4. ASSUME NEW j \in 1..z
        PROVE  w[u + j - 1] = IF j = i + 1 THEN d ELSE m[u + j - 1]
    <3>1. PICK y \in Nat : y = j - 1
      OBVIOUS
    <3>2. u + j - 1 = u + y /\ y < z /\ (j = i + 1 <=> y = i)
      BY <1>0, <3>1
    <3>3. w[u + y] = IF y = i THEN d ELSE m[u + y]
      BY <1>0, <2>1, <3>2
    <3>4. QED
      BY <3>2, <3>3
  <2>5. \A j \in 1..z : w[u + j - 1] = IF j = i + 1 THEN d ELSE m[u + j - 1]
    BY <2>4
  <2>6. PICK q : q = i + 1
    OBVIOUS
  <2>7. q \in 1..z
    BY <1>0, <2>1, <2>6
  <2>8. PICK f, g : f = S[h] /\ g = T[h]
    OBVIOUS
  <2>9. f = [j \in 1..z |-> m[u + j - 1]]
    BY <2>2, <2>8
  <2>10. g = [j \in 1..z |-> IF j = q THEN d ELSE m[u + j - 1]]
    BY <2>3, <2>5, <2>6, <2>8
  <2>11. g = [f EXCEPT ![q] = d] /\ q \in DOMAIN f
    BY <2>7, <2>9, <2>10
  <2>12. T[h] = [S[h] EXCEPT ![q] = d] /\ q \in DOMAIN S[h]
    BY <2>8, <2>11
  <2>13. QED
    BY <2>6, <2>12
<1>6. T = [S EXCEPT ![h] = T[h]]
  BY <1>2, <1>3
<1>7. T = [S EXCEPT ![h][i + 1] = d] /\ h \in DOMAIN S
  BY <1>2, <1>5, <1>6
<1>8. QED
  BY <1>5, <1>7 DEF OneCell
------------------------------------------------------------------------------
\* What a buffer holds is kept by a memory that agrees with the old one below
\* the end of the allocation.
LEMMA BuffersKept ==
    ASSUME JInv, cap # 0, NEW o \in DOMAIN at, NEW w,
           \A x \in Nat : x < at[o].buf + at[o].sz => w[x] = mem[x]
    PROVE  CellsAt(w, at[o].buf, at[o].sz) = CellsAt(mem, at[o].buf, at[o].sz)
<1>1. at[o].buf \in Nat /\ at[o].sz \in Nat
  BY Nodes DEF JInv
<1>2. QED
  BY <1>1, SameCells

LEMMA InitScaleStep ==
    ASSUME JInv, JInv', NEW n \in Sizes, InitScale(n)
    PROVE  Stack!Boot
<1>1. cap' # 0 /\ last' = First /\ at'[First].id = 0
  <2>1. n \in Nat /\ cap \in Nat
    BY SizeAssumption DEF JInv, IInv, TypeOK
  <2>2. PICK c : c = cap'
    OBVIOUS
  <2>3. c = IF n + HdrSize + NodeSize > cap THEN n + HdrSize + NodeSize ELSE cap
    BY <2>2 DEF InitScale, AtLeast, InitSize
  <2>4. c # 0
    BY <2>1, <2>3, SizeAssumption
  <2>5. QED
    BY <2>2, <2>4 DEF InitScale, First
<1>2. PICK T : T = BufferStack'
  OBVIOUS
<1>3. Represents(T, at', First, mem')
  BY <1>1, <1>2, FactsNext
<1>4. T \in Seq(Stack!Buffer) /\ Len(T) = 1
  BY <1>1, <1>3 DEF Represents
<1>5. T = << T[1] >> /\ T[1] \in Stack!Buffer
  BY <1>4
<1>6. QED
  BY <1>2, <1>5 DEF Stack!Boot

LEMMA FailStep ==
    ASSUME NEW n, Fail(n)
    PROVE  Stack!Lose
<1>1. cap' = 0
  BY DEF Fail
<1>2. 1..0 = {}
  OBVIOUS
<1>3. BufferStack' = << >>
  BY <1>1, <1>2 DEF BufferStack
<1>4. QED
  BY <1>3 DEF Stack!Lose

LEMMA MkScaleStep ==
    ASSUME JInv, JInv', NEW n \in Sizes, MkScale(n)
    PROVE  Stack!Push
<1>0. PICK nx : nx = End(at[last])
  OBVIOUS
<1>1. /\ cap # 0 /\ cap' # 0 /\ nx \in Nat /\ last' = nx
      /\ at'[nx].id = at[last].id + 1 /\ DOMAIN at' = DOMAIN at \cup {nx}
      /\ \A o \in DOMAIN at : /\ at'[o].id = at[o].id /\ at'[o].sz = at[o].sz
                              /\ at'[o].buf = at[o].buf
  BY <1>0, MkScaleNodes DEF JInv
<1>2. Represents(BufferStack, at, last, mem) /\ Represents(BufferStack', at', last', mem')
  BY <1>1, Facts, FactsNext
<1>3. ASSUME NEW o \in DOMAIN at
      PROVE  CellsAt(mem', at[o].buf, at[o].sz) = CellsAt(mem, at[o].buf, at[o].sz)
  <2>1. /\ last \in DOMAIN at /\ last \in Nat /\ cap \in Nat /\ o \in Nat /\ o <= last
        /\ at[o].buf \in Nat /\ at[o].sz \in Nat
        /\ End(at[o]) = at[o].buf + at[o].sz /\ at[o].buf + at[o].sz <= cap
        /\ at[last].buf = last + NodeSize /\ at[last].sz \in Nat
        /\ nx = at[last].buf + at[last].sz
    BY <1>0, <1>1, Nodes DEF JInv
  <2>2. at[o].buf + at[o].sz <= nx
    <3>1. CASE o = last
      BY <3>1, <2>1
    <3>2. CASE o # last
      <4>1. at[o].buf + at[o].sz <= last
        BY <3>2, <2>1 DEF JInv, IInv, Packed
      <4>2. last <= nx
        BY <2>1, SizeAssumption
      <4>3. QED
        BY <4>1, <4>2, <2>1
    <3>3. QED
      BY <3>1, <3>2
  <2>3. MkSize(n) \in Nat
    BY <1>0, <1>1, SizeAssumption DEF MkSize
  <2>4. ASSUME NEW x \in Nat, x < at[o].buf + at[o].sz PROVE mem'[x] = mem[x]
    <3>1. x < nx /\ x < cap
      BY <2>1, <2>2, <2>4
    <3>2. x \notin Record(nx)
      BY <3>1, <1>1 DEF Record
    <3>3. x \in 0..(AtLeast(MkSize(n)) - 1)
      BY <3>1, <2>1, <2>3 DEF AtLeast
    <3>4. Grown(MkSize(n))[x] = mem[x]
      BY <3>1, <3>3 DEF Grown
    <3>5. mem' = [y \in 0..(AtLeast(MkSize(n)) - 1) |->
                    IF y \in Record(nx) THEN Meta ELSE Grown(MkSize(n))[y]]
      BY <1>0 DEF MkScale
    <3>6. QED
      BY <3>2, <3>3, <3>4, <3>5
  <2>5. QED
    BY <1>1, <2>4, BuffersKept
<1>4. \A o \in DOMAIN at :
          o \in DOMAIN at' /\ at'[o].id = at[o].id
          /\ CellsAt(mem', at'[o].buf, at'[o].sz) = CellsAt(mem, at[o].buf, at[o].sz)
  BY <1>1, <1>3
<1>5. at'[last'].id = at[last].id + 1
  BY <1>1
<1>6. /\ BufferStack # << >>
      /\ \E c \in Stack!Buffer : BufferStack' = Append(BufferStack, c)
  BY <1>2, <1>4, <1>5, Pushed
<1>7. QED
  BY <1>6 DEF Stack!Push

LEMMA GrowLastStep ==
    ASSUME JInv, JInv', NEW n \in Sizes, GrowLast(n)
    PROVE  Stack!Resize
<1>1. cap # 0 /\ last' = last /\ at' = [at EXCEPT ![last].sz = n] /\ n \in Nat
  BY SizeAssumption DEF GrowLast
<1>2. /\ last \in DOMAIN at /\ cap \in Nat
      /\ \A o \in DOMAIN at : /\ at[o] \in Node /\ at[o].buf \in Nat /\ at[o].sz \in Nat
                              /\ at[o].buf + at[o].sz <= cap
  BY <1>1, Nodes DEF JInv
<1>3. /\ DOMAIN at' = DOMAIN at
      /\ \A o \in DOMAIN at : at'[o].id = at[o].id /\ at'[o].buf = at[o].buf
      /\ \A o \in DOMAIN at \ {last} : at'[o].sz = at[o].sz
      /\ at'[last].sz = n
  BY <1>1, <1>2 DEF Node
<1>4. GrowSize(n) \in Nat
  BY <1>1, <1>2 DEF GrowSize
<1>5. cap' # 0
  <2>1. PICK c : c = cap'
    OBVIOUS
  <2>2. c = AtLeast(GrowSize(n))
    BY <2>1 DEF GrowLast
  <2>3. c # 0
    BY <2>2, <1>1, <1>2, <1>4 DEF AtLeast
  <2>4. QED
    BY <2>1, <2>3
<1>6. ASSUME NEW x \in Nat, x < cap PROVE mem'[x] = mem[x]
  <2>1. x \in 0..(AtLeast(GrowSize(n)) - 1)
    BY <1>2, <1>4, <1>6 DEF AtLeast
  <2>2. QED
    BY <1>6, <2>1 DEF GrowLast, Grown
<1>7. Represents(BufferStack, at, last, mem) /\ Represents(BufferStack', at', last, mem')
  BY <1>1, <1>5, Facts, FactsNext
<1>8. \A o \in DOMAIN at : CellsAt(mem', at[o].buf, at[o].sz) = CellsAt(mem, at[o].buf, at[o].sz)
  <2>1. ASSUME NEW o \in DOMAIN at, NEW x \in Nat, x < at[o].buf + at[o].sz
        PROVE  mem'[x] = mem[x]
    <3>1. x < cap
      BY <2>1, <1>2
    <3>2. QED
      BY <3>1, <1>6
  <2>2. QED
    BY <1>1, <2>1, BuffersKept
<1>9. \A o \in DOMAIN at : at[o].id # at[last].id =>
          o \in DOMAIN at' /\ at'[o].id = at[o].id
          /\ CellsAt(mem', at'[o].buf, at'[o].sz) = CellsAt(mem, at[o].buf, at[o].sz)
  BY <1>3, <1>8
<1>10. \A j \in Nat : j < at[last].sz => mem'[at[last].buf + j] = mem[at[last].buf + j]
  <2>1. ASSUME NEW j \in Nat, j < at[last].sz
        PROVE  mem'[at[last].buf + j] = mem[at[last].buf + j]
    <3>1. at[last].buf + j \in Nat /\ at[last].buf + j < cap
      BY <2>1, <1>2
    <3>2. QED
      BY <3>1, <1>6
  <2>2. QED
    BY <2>1
<1>11. at'[last].id = at[last].id /\ at'[last].buf = at[last].buf /\ at'[last].sz \in Nat
  BY <1>1, <1>2, <1>3
<1>12. at[last].buf \in Nat /\ at[last].sz \in Nat
  BY <1>2
<1>13. /\ BufferStack # << >>
       /\ \E c \in Stack!Buffer :
            /\ Stack!Common(c, BufferStack[Len(BufferStack)])
            /\ BufferStack' = [BufferStack EXCEPT ![Len(BufferStack)] = c]
  BY <1>7, <1>9, <1>10, <1>11, <1>12, Resized
<1>14. QED
  BY <1>13 DEF Stack!Resize

LEMMA DelLastStep ==
    ASSUME JInv, JInv', DelLast
    PROVE  Stack!Pop \/ UNCHANGED vars
<1>1. CASE at[last].prv = last
  BY <1>1, DelLastKeeps DEF JInv
<1>2. CASE at[last].prv # last
  <2>1. /\ cap # 0 /\ cap' = cap /\ mem' = mem /\ last' \in DOMAIN at /\ last' # last
        /\ DOMAIN at' = DOMAIN at \ {last} /\ at[last].id = at[last'].id + 1
        /\ \A o \in DOMAIN at' : /\ at'[o].id = at[o].id /\ at'[o].sz = at[o].sz
                                 /\ at'[o].buf = at[o].buf
    BY <1>2, DelLastNodes DEF JInv, DelLast
  <2>2. Represents(BufferStack, at, last, mem) /\ Represents(BufferStack', at', last', mem')
    BY <2>1, Facts, FactsNext
  <2>3. at[last].id = at'[last'].id + 1
    BY <2>1
  <2>4. \A o \in DOMAIN at : at[o].id # at[last].id =>
            o \in DOMAIN at' /\ at'[o].id = at[o].id
            /\ CellsAt(mem', at'[o].buf, at'[o].sz) = CellsAt(mem, at[o].buf, at[o].sz)
    BY <2>1
  <2>5. /\ Len(BufferStack) > 1
        /\ BufferStack' = SubSeq(BufferStack, 1, Len(BufferStack) - 1)
    BY <2>2, <2>3, <2>4, Popped
  <2>6. QED
    BY <2>5 DEF Stack!Pop
<1>3. QED
  BY <1>1, <1>2

LEMMA WriteStep ==
    ASSUME JInv, JInv', NEW o \in DOMAIN at, NEW i \in 0..(at[o].sz - 1), NEW d \in Data,
           Write(o, i, d)
    PROVE  Stack!Poke
<1>1. cap # 0 /\ d \in Cell
  BY DEF JInv, IInv, Linked, Cell
<1>2. /\ \A p \in DOMAIN at : /\ p \in Nat /\ at[p].buf \in Nat /\ at[p].sz \in Nat
                              /\ at[p].buf = p + NodeSize
                              /\ at[p].buf + at[p].sz <= cap
      /\ cap \in Nat /\ NodeSize \in Nat /\ i \in Nat /\ i < at[o].sz
  <2>1. /\ \A p \in DOMAIN at : /\ p \in Nat /\ at[p].buf \in Nat /\ at[p].sz \in Nat
                                /\ at[p].buf = p + NodeSize
                                /\ at[p].buf + at[p].sz <= cap
        /\ cap \in Nat
    BY <1>1, Nodes DEF JInv
  <2>2. at[o].sz \in Nat
    BY <2>1
  <2>3. i \in Nat /\ i < at[o].sz
    BY <2>2
  <2>4. QED
    BY <2>1, <2>3, SizeAssumption
<1>3. PICK e : e = at[o].buf + i
  OBVIOUS
<1>4. mem' = [mem EXCEPT ![e] = d] /\ mem \in [0..(cap - 1) -> Cell] /\ e \in 0..(cap - 1)
  <2>1. e \in 0..(cap - 1)
    BY <1>2, <1>3
  <2>2. mem' = [mem EXCEPT ![e] = d]
    BY <1>3 DEF Write
  <2>3. QED
    BY <2>1, <2>2 DEF JInv, IInv, TypeOK
<1>5. \A x \in Nat : mem'[x] = IF x = e THEN d ELSE mem[x]
  BY <1>4
<1>6. ASSUME NEW p \in DOMAIN at, at[p].id # at[o].id
      PROVE  CellsAt(mem', at[p].buf, at[p].sz) = CellsAt(mem, at[p].buf, at[p].sz)
  <2>1. p < o \/ o < p
    BY <1>2, <1>6
  <2>2. at[p].buf + at[p].sz <= o \/ at[o].buf + at[o].sz <= p
    BY <2>1 DEF JInv, IInv, Packed, End
  <2>3. ASSUME NEW x \in Nat, at[p].buf <= x, x < at[p].buf + at[p].sz
        PROVE  x # e
    BY <1>2, <1>3, <2>2, <2>3
  <2>4. \A x \in Nat : (at[p].buf <= x /\ x < at[p].buf + at[p].sz) => mem'[x] = mem[x]
    BY <1>5, <2>3
  <2>5. at[p].buf \in Nat /\ at[p].sz \in Nat
    BY <1>2
  <2>6. QED
    BY <2>4, <2>5, SameCells
<1>7. ASSUME NEW j \in Nat, j < at[o].sz
      PROVE  mem'[at[o].buf + j] = IF j = i THEN d ELSE mem[at[o].buf + j]
  <2>1. PICK x \in Nat : x = at[o].buf + j /\ (x = e <=> j = i)
    BY <1>2, <1>3
  <2>2. QED
    BY <2>1, <1>5
<1>8. UNCHANGED << cap, last, at >>
  BY DEF Write
<1>9. Represents(BufferStack, at, last, mem) /\ Represents(BufferStack', at, last, mem')
  BY <1>1, <1>8, Facts, FactsNext
<1>10. OneCell(BufferStack, BufferStack')
  <2>1. PICK S, T, w : S = BufferStack /\ T = BufferStack' /\ w = mem'
    OBVIOUS
  <2>2. Represents(S, at, last, mem) /\ Represents(T, at, last, w)
    BY <2>1, <1>9
  <2>3. \A p \in DOMAIN at : at[p].id # at[o].id =>
            CellsAt(w, at[p].buf, at[p].sz) = CellsAt(mem, at[p].buf, at[p].sz)
    BY <2>1, <1>6
  <2>4. \A j \in Nat : j < at[o].sz =>
            w[at[o].buf + j] = IF j = i THEN d ELSE mem[at[o].buf + j]
    BY <2>1, <1>7
  <2>5. at[o].buf \in Nat /\ at[o].sz \in Nat /\ i \in Nat /\ i < at[o].sz
    BY <1>2
  <2>6. Writes(at, o, i, d, mem, w)
    BY <2>3, <2>4, <2>5 DEF Writes
  <2>7. OneCell(S, T)
    BY <2>2, <2>6, <1>1, Poked
  <2>8. QED
    BY <2>1, <2>7
<1>11. QED
  BY <1>10 DEF Stack!Poke, OneCell

LEMMA StepRefined == JInv /\ JInv' /\ [Next]_vars => [Stack!Next]_BufferStack
<1> SUFFICES ASSUME JInv, JInv', [Next]_vars PROVE [Stack!Next]_BufferStack
  OBVIOUS
<1>1. ASSUME NEW n \in Sizes, InitScale(n) PROVE Stack!Next
  BY <1>1, InitScaleStep DEF Stack!Next
<1>2. ASSUME NEW n, Fail(n) PROVE Stack!Next
  BY <1>2, FailStep DEF Stack!Next
<1>3. ASSUME NEW n \in Sizes, MkScale(n) PROVE Stack!Next
  BY <1>3, MkScaleStep DEF Stack!Next
<1>4. ASSUME NEW n \in Sizes, GrowLast(n) PROVE Stack!Next
  BY <1>4, GrowLastStep DEF Stack!Next
<1>5. ASSUME UNCHANGED vars PROVE UNCHANGED BufferStack
  BY <1>5 DEF vars, BufferStack, NodeWithId, Contents
<1>6. CASE DelLast
  BY <1>5, <1>6, DelLastStep DEF Stack!Next
<1>7. ASSUME NEW o \in DOMAIN at, NEW i \in 0..(at[o].sz - 1), NEW d \in Data, Write(o, i, d)
      PROVE  Stack!Next
  BY <1>7, WriteStep DEF Stack!Next
<1>8. QED
  BY <1>1, <1>2, <1>3, <1>4, <1>5, <1>6, <1>7
     DEF Next, InitScaleFails, MkScaleFails, GrowLastFails

\* scale.h implements the stack of buffers, whatever the sizes: booting,
\* pushing, resizing, popping and writing a buffer leave the contents of the
\* others as they were, though every one of them may move the allocation.
THEOREM Implements == Spec => ImplementsStack
<1>1. Init => Stack!Init
  <2>1. 1..0 = {}
    OBVIOUS
  <2>2. QED
    BY <2>1 DEF Init, Stack!Init, BufferStack
<1>2. QED
  BY <1>1, JInductive, StepRefined, PTL DEF Spec, ImplementsStack, Stack!Spec
------------------------------------------------------------------------------
\* Induction over a set of naturals, by its least element.
LEMMA Least ==
    ASSUME NEW T \in SUBSET Nat, T # {}
    PROVE  \E x \in T : \A y \in T : x <= y
<1> DEFINE R == OpToRel(<, Nat)
<1>1. IsWellFoundedOn(R, Nat)
  BY NatLessThanWellFounded
<1>2. PICK x \in T : \A y \in T : ~(<< y, x >> \in R)
  <2> HIDE DEF R
  <2>1. QED
    BY <1>1, WFMin
<1>3. \A y \in T : ~(y < x)
  BY <1>2 DEF OpToRel
<1>4. QED
  BY <1>3

\* f follows m_nxt from the first node.
Follows(f, n) ==
    f = [i \in 0..n |-> IF i = 0 THEN First
                        ELSE IF f[i - 1] \in DOMAIN at THEN at[f[i - 1]].nxt ELSE 0]

\* The node behind the one with the id before.
LEMMA NodesFollow ==
    ASSUME JInv, cap # 0, NEW n, n = at[last].id
    PROVE  /\ n \in Nat
           /\ \A i \in 0..n : NodeWithId(i) \in DOMAIN at /\ at[NodeWithId(i)].id = i
           /\ NodeWithId(0) = First /\ NodeWithId(n) = last
           /\ \A i \in 1..n : NodeWithId(i) = at[NodeWithId(i - 1)].nxt
<1>1. /\ n \in Nat /\ last \in DOMAIN at /\ First \in DOMAIN at /\ at[First].id = 0
  BY Nodes DEF JInv
<1>2. ASSUME NEW i \in 0..n
      PROVE  NodeWithId(i) \in DOMAIN at /\ at[NodeWithId(i)].id = i
  <2>1. \E o \in DOMAIN at : at[o].id = i
    BY <1>2 DEF JInv, Numbered
  <2>2. QED
    BY <2>1, Zenon DEF NodeWithId
<1>3. NodeWithId(0) = First /\ NodeWithId(n) = last
  <2>1. NodeWithId(at[First].id) = First /\ NodeWithId(at[last].id) = last
    BY <1>1, OneNode
  <2>2. QED
    BY <1>1, <2>1, Zenon
<1>4. ASSUME NEW i \in 1..n PROVE NodeWithId(i) = at[NodeWithId(i - 1)].nxt
  <2>1. PICK j \in 0..n : j = i - 1 /\ j # n /\ j + 1 = i
    BY <1>1
  <2>2. PICK o \in DOMAIN at : o = NodeWithId(j) /\ at[o].id = j
    BY <1>2
  <2>3. o # last
    BY <2>1, <2>2
  <2>4. at[o].nxt \in DOMAIN at /\ at[at[o].nxt].id = i
    BY <2>1, <2>2, <2>3, Nodes DEF JInv
  <2>5. NodeWithId(i) = at[o].nxt
    <3>1. NodeWithId(at[at[o].nxt].id) = at[o].nxt
      BY <2>4, OneNode
    <3>2. QED
      BY <2>4, <3>1, Zenon
  <2>6. QED
    BY <2>1, <2>2, <2>5
<1>5. QED
  BY <1>1, <1>2, <1>3, <1>4

LEMMA WalkIs ==
    ASSUME JInv, cap # 0, NEW n, n = at[last].id
    PROVE  Walk = [i \in 0..n |-> NodeWithId(i)]
<1> DEFINE g == [i \in 0..n |-> NodeWithId(i)]
<1>1. /\ n \in Nat
      /\ \A i \in 0..n : NodeWithId(i) \in DOMAIN at
      /\ NodeWithId(0) = First
      /\ \A i \in 1..n : NodeWithId(i) = at[NodeWithId(i - 1)].nxt
  BY NodesFollow
<1>2. Follows(g, n)
  <2>1. ASSUME NEW i \in 0..n
        PROVE  g[i] = IF i = 0 THEN First
                      ELSE IF g[i - 1] \in DOMAIN at THEN at[g[i - 1]].nxt ELSE 0
    <3>1. CASE i = 0
      BY <1>1, <3>1
    <3>2. CASE i # 0
      <4>1. i \in 1..n /\ i - 1 \in 0..n
        BY <1>1, <3>2
      <4>2. g[i - 1] = NodeWithId(i - 1) /\ g[i] = NodeWithId(i)
        BY <4>1
      <4>3. QED
        BY <1>1, <3>2, <4>1, <4>2
    <3>3. QED
      BY <3>1, <3>2
  <2>2. QED
    BY <2>1 DEF Follows
<1>3. Follows(Walk, n)
  <2>1. \E f : Follows(f, n)
    BY <1>2
  <2>2. Walk = CHOOSE f : Follows(f, n)
    BY Zenon DEF Walk, Follows
  <2>3. QED
    BY <2>1, <2>2, Zenon
<1>4. PICK w : w = Walk /\ Follows(w, n)
  BY <1>3
<1>5. /\ DOMAIN w = 0..n /\ w = [i \in 0..n |-> w[i]]
      /\ \A i \in 0..n : w[i] = IF i = 0 THEN First
                                ELSE IF w[i - 1] \in DOMAIN at THEN at[w[i - 1]].nxt ELSE 0
  BY <1>4 DEF Follows
<1>6. \A i \in 0..n : w[i] = NodeWithId(i)
  <2> DEFINE T == {i \in 0..n : w[i] # NodeWithId(i)}
  <2>1. SUFFICES ASSUME T # {} PROVE FALSE
    OBVIOUS
  <2>2. PICK i \in T : \A j \in T : i <= j
    <3> T \in SUBSET Nat
      OBVIOUS
    <3> HIDE DEF T
    <3>1. QED
      BY <2>1, Least
  <2>3. i \in 0..n /\ w[i] # NodeWithId(i)
    OBVIOUS
  <2>4. i # 0
    BY <1>1, <1>5, <2>3
  <2>5. i \in 1..n /\ i - 1 \in 0..n /\ ~(i <= i - 1)
    BY <1>1, <2>3, <2>4
  <2>6. w[i - 1] = NodeWithId(i - 1)
    BY <2>2, <2>5
  <2>7. w[i] = at[NodeWithId(i - 1)].nxt
    BY <1>1, <1>5, <2>3, <2>4, <2>5, <2>6
  <2>8. QED
    BY <1>1, <2>3, <2>5, <2>7
<1>7. QED
  BY <1>4, <1>5, <1>6

\* A walk w to index n meets every node, each at its id.
Finds(w, n) ==
    /\ \A i \in DOMAIN w : w[i] \in DOMAIN at /\ at[w[i]].id = i
    /\ DOMAIN at = { w[i] : i \in DOMAIN w }
    /\ w[n] = last

LEMMA WalkFinds == JInv => IndexFinds
<1> SUFFICES ASSUME JInv, cap # 0 PROVE Finds(Walk, at[last].id)
  BY DEF IndexFinds, Finds
<1>1. PICK n : n = at[last].id
  OBVIOUS
<1>2. PICK w : w = Walk
  OBVIOUS
<1>3. w = [i \in 0..n |-> NodeWithId(i)]
  BY <1>1, <1>2, WalkIs
<1>4. /\ n \in Nat
      /\ \A i \in 0..n : NodeWithId(i) \in DOMAIN at /\ at[NodeWithId(i)].id = i
      /\ NodeWithId(n) = last
  BY <1>1, NodesFollow
<1>5. ASSUME NEW o \in DOMAIN at PROVE at[o].id \in 0..n /\ w[at[o].id] = o
  <2>1. at[o].id \in Nat /\ o \in Nat /\ last \in Nat /\ o <= last /\ last \in DOMAIN at
    BY Nodes DEF JInv
  <2>2. at[o].id \in 0..n
    <3>1. CASE o = last
      BY <1>1, <1>4, <3>1
    <3>2. CASE o # last
      <4>1. at[o].id < at[last].id
        BY <2>1, <3>2 DEF JInv, Numbered
      <4>2. QED
        BY <1>1, <1>4, <2>1, <4>1
    <3>3. QED
      BY <3>1, <3>2
  <2>3. NodeWithId(at[o].id) = o
    BY OneNode
  <2>4. QED
    BY <1>3, <2>2, <2>3
<1>6. DOMAIN w = 0..n /\ \A i \in 0..n : w[i] \in DOMAIN at /\ at[w[i]].id = i
  BY <1>3, <1>4
<1>7. w[n] = last
  BY <1>3, <1>4
<1>8. DOMAIN at = { w[i] : i \in 0..n }
  BY <1>5, <1>6
<1>9. Finds(w, n)
  BY <1>6, <1>7, <1>8 DEF Finds
<1>10. QED
  BY <1>1, <1>2, <1>9, Zenon

\* Following m_nxt from the first node finds the node of every index up to the
\* last, and no other, whatever was made, grown, deleted or lost before: neither
\* assertion of get_scale_from_vec is met.
THEOREM IndexFindsAlways == Spec => []IndexFinds
BY JInductive, WalkFinds, PTL
=============================================================================
