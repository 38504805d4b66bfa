----------------------------- MODULE ScaleProofs -----------------------------
(***************************************************************************)
(* The invariants of Scale hold for every size of the header word and of a *)
(* record, every set of buffer sizes and every bound on the allocation.    *)
(* The inductive invariant is the conjunction of the type, the links and   *)
(* the layout: mk needs the layout to know that the m_prv it computes is   *)
(* the old last node and that the new offset is free, and del needs the    *)
(* links to know that no other node pointed at the one it drops.           *)
(***************************************************************************)
EXTENDS Scale, TLAPS

IInv == TypeOK /\ Linked /\ Packed /\ RecordsIntact

\* Growing the vector never shrinks it, and keeps the type of its cells.
LEMMA GrownType ==
    ASSUME TypeOK, NEW n \in Nat
    PROVE  /\ AtLeast(n) \in Nat /\ AtLeast(n) >= n /\ AtLeast(n) >= cap
           /\ Grown(n) \in [0..(AtLeast(n) - 1) -> Cell]
           /\ \A a \in 0..(cap - 1) : Grown(n)[a] = mem[a]
BY DEF TypeOK, AtLeast, Grown, Cell

\* The record of a linked node, field by field.
LEMMA NodeAt ==
    ASSUME TypeOK, NEW o \in DOMAIN at
    PROVE  /\ o \in Nat /\ at[o] \in Node
           /\ at[o].id \in Nat /\ at[o].nxt \in Nat /\ at[o].prv \in Nat
           /\ at[o].buf \in Nat /\ at[o].sz \in Nat
<1>1. at[o] \in Node
  BY DEF TypeOK
<1>2. QED
  BY <1>1 DEF TypeOK, Node

\* Every cell of a record is a cell of the allocation.
LEMMA RecordsInside ==
    ASSUME TypeOK, Packed, NEW o \in DOMAIN at, NEW a \in Record(o)
    PROVE  a \in 0..(cap - 1)
<1>1. o \in Nat /\ at[o].buf \in Nat /\ at[o].sz \in Nat /\ cap \in Nat
  BY NodeAt DEF TypeOK
<1>2. at[o].buf = o + NodeSize /\ at[o].buf + at[o].sz <= cap
  BY DEF Packed, End
<1>3. a \in Int /\ o <= a /\ a <= o + NodeSize - 1
  BY <1>1, SizeAssumption DEF Record
<1>4. QED
  BY <1>1, <1>2, <1>3, SizeAssumption

\* So is every cell of the header word, when there is an allocation.
LEMMA HeaderInside ==
    ASSUME TypeOK, Linked, Packed, cap # 0, NEW a \in 0..(HdrSize - 1)
    PROVE  a \in 0..(cap - 1)
<1>1. First \in DOMAIN at
  BY DEF Linked
<1>2. /\ at[First].buf \in Nat /\ at[First].sz \in Nat /\ cap \in Nat
      /\ at[First].buf = First + NodeSize /\ at[First].buf + at[First].sz <= cap
  BY <1>1, NodeAt DEF TypeOK, Packed, End
<1>3. QED
  BY <1>2, SizeAssumption DEF First

\* A failed allocation leaves the empty vector, which satisfies everything.
LEMMA FailKeeps ==
    ASSUME NEW n, Fail(n) PROVE IInv'
<1>1. DOMAIN at' = {} /\ cap' = 0 /\ last' = 0 /\ mem' = [a \in {} |-> Zero]
  BY DEF Fail, EmptyAt
<1>2. at' \in [DOMAIN at' -> Node]
  BY DEF Fail, EmptyAt
<1>3. 0..(cap' - 1) = {}
  BY <1>1
<1>4. TypeOK'
  BY <1>1, <1>2, <1>3 DEF TypeOK
<1>5. QED
  BY <1>1, <1>4 DEF IInv, Linked, Packed, RecordsIntact

LEMMA InitInv == Init => IInv
<1> SUFFICES ASSUME Init PROVE IInv
  OBVIOUS
<1>1. DOMAIN at = {} /\ at \in [DOMAIN at -> Node] /\ 0..(cap - 1) = {}
  BY DEF Init, EmptyAt
<1>2. TypeOK
  BY <1>1 DEF Init, TypeOK
<1>3. QED
  BY <1>1, <1>2 DEF Init, IInv, Linked, Packed, RecordsIntact

\* init_scale: one node, whatever was there before.
LEMMA InitScaleInv ==
    ASSUME IInv, NEW n \in Sizes, InitScale(n) PROVE IInv'
<1> USE SizeAssumption
<1>1. n \in Nat /\ InitSize(n) \in Nat /\ InitSize(n) > 0
  BY DEF InitSize
<1>2. cap' \in Nat /\ cap' >= InitSize(n) /\ cap' # 0
  BY <1>1, GrownType DEF IInv, InitScale
<1>3. /\ DOMAIN at' = {First}
      /\ at'[First] = [id |-> 0, nxt |-> 0, prv |-> First,
                       buf |-> First + NodeSize, sz |-> n]
  BY DEF InitScale
<1>4. TypeOK'
  <2>1. at' \in [DOMAIN at' -> Node]
    BY <1>1, <1>3 DEF InitScale, Node, First
  <2>2. mem' \in [0..(cap' - 1) -> Cell]
    BY <1>1 DEF InitScale, IInv, TypeOK, Cell, AtLeast
  <2>3. QED
    BY <1>2, <1>3, <2>1, <2>2 DEF TypeOK, InitScale, First
<1>5. Linked'
  BY <1>2, <1>3 DEF Linked, InitScale, First
<1>6. Packed'
  BY <1>1, <1>2, <1>3 DEF Packed, InitSize, End, First
<1>7. RecordsIntact'
  <2>1. \A a \in 0..(HdrSize + NodeSize - 1) : mem'[a] = Meta
    BY <1>1, <1>2 DEF InitScale, InitSize
  <2>2. \A a \in Record(First) : a \in 0..(HdrSize + NodeSize - 1)
    BY DEF Record, First
  <2>3. QED
    BY <1>3, <2>1, <2>2 DEF RecordsIntact
<1>8. QED
  BY <1>4, <1>5, <1>6, <1>7 DEF IInv

\* mk_scale_from_vec: the new node starts where the last buffer ends.
LEMMA MkScaleInv ==
    ASSUME IInv, NEW n \in Sizes, MkScale(n) PROVE IInv'
<1> USE SizeAssumption
<1> DEFINE nx == End(at[last])
           size == MkSize(n)
           rec == [id |-> at[last].id + 1, nxt |-> 0, prv |-> at[last].buf - NodeSize,
                   buf |-> nx + NodeSize, sz |-> n]
<1>1. /\ n \in Nat /\ cap # 0 /\ last \in DOMAIN at /\ at[last] \in Node
      /\ at[last].buf = last + NodeSize /\ nx \in Nat /\ nx > last /\ nx <= cap
      /\ size = nx + NodeSize + n /\ size \in Nat /\ last \in Nat
      /\ at[last].buf - NodeSize = last
  <2>1. n \in Nat /\ cap # 0 /\ last \in DOMAIN at /\ last \in Nat
    BY DEF IInv, TypeOK, Linked, MkScale
  <2>2. at[last] \in Node /\ at[last].buf \in Nat /\ at[last].sz \in Nat
    BY <2>1, NodeAt DEF IInv
  <2>3. at[last].buf = last + NodeSize /\ at[last].buf + at[last].sz <= cap
    BY <2>1 DEF IInv, Packed, End
  <2>4. QED
    BY <2>1, <2>2, <2>3 DEF MkSize, End
<1>2. nx \notin DOMAIN at
  BY <1>1 DEF IInv, TypeOK, Linked
<1>3. /\ DOMAIN at' = DOMAIN at \cup {nx}
      /\ at'[nx] = rec
      /\ at'[last] = [at[last] EXCEPT !.nxt = nx]
      /\ \A o \in DOMAIN at \ {last} : at'[o] = at[o]
      /\ last' = nx
  BY <1>1, <1>2 DEF MkScale
<1>4. cap' \in Nat /\ cap' >= size /\ cap' >= cap /\ cap' # 0 /\ cap' = AtLeast(size)
  BY <1>1, GrownType DEF IInv, MkScale
<1>5. at' \in [DOMAIN at' -> Node] /\ rec \in Node
  <2>1. rec \in Node
    BY <1>1 DEF Node
  <2>2. [at[last] EXCEPT !.nxt = nx] \in Node
    BY <1>1 DEF Node
  <2>3. \A o \in DOMAIN at : at[o] \in Node
    BY DEF IInv, TypeOK
  <2>4. \A o \in DOMAIN at' : at'[o] \in Node
    BY <1>3, <2>1, <2>2, <2>3
  <2>5. QED
    BY <2>1, <2>4 DEF MkScale
<1>6. TypeOK'
  <2>1. Grown(size) \in [0..(cap' - 1) -> Cell]
    BY <1>1, <1>4, GrownType DEF IInv
  <2>2. mem' = [a \in 0..(cap' - 1) |-> IF a \in Record(nx) THEN Meta ELSE Grown(size)[a]]
    BY <1>4 DEF MkScale
  <2>3. mem' \in [0..(cap' - 1) -> Cell]
    BY <2>1, <2>2 DEF Cell
  <2>4. QED
    BY <1>1, <1>3, <1>4, <1>5, <2>3 DEF TypeOK, IInv
<1>7. /\ at[last].nxt = 0 /\ at[last].id \in Nat
      /\ at'[last].nxt = nx /\ at'[last].buf = at[last].buf /\ at'[last].sz = at[last].sz
      /\ at'[last].id = at[last].id /\ at'[last].prv = at[last].prv
  BY <1>1, <1>3 DEF Node, IInv, Linked
<1>8. Linked'
  <2>1. First \in DOMAIN at' /\ at'[First].id = 0 /\ at'[First].prv = First
    BY <1>1, <1>3, <1>7 DEF IInv, Linked
  <2>2. last' \in DOMAIN at' /\ at'[last'].nxt = 0
    BY <1>3
  <2>3. \A o \in DOMAIN at' : First <= o /\ o <= last'
    BY <1>1, <1>3 DEF IInv, TypeOK, Linked, First
  <2>4. ASSUME NEW o \in DOMAIN at' \ {last'}
        PROVE  /\ at'[o].nxt = End(at'[o])
               /\ at'[o].nxt \in DOMAIN at'
               /\ at'[at'[o].nxt].prv = o
               /\ at'[at'[o].nxt].id = at'[o].id + 1
    <3>1. CASE o = last
      BY <3>1, <1>1, <1>3, <1>7 DEF End
    <3>2. CASE o # last
      <4>1. o \in DOMAIN at \ {last} /\ at'[o] = at[o]
        BY <3>2, <2>4, <1>3
      <4>2. /\ at[o].nxt = End(at[o]) /\ at[o].nxt \in DOMAIN at
            /\ at[at[o].nxt].prv = o /\ at[at[o].nxt].id = at[o].id + 1
        BY <4>1, <1>1 DEF IInv, Linked
      <4>3. at'[at[o].nxt].prv = at[at[o].nxt].prv /\ at'[at[o].nxt].id = at[at[o].nxt].id
        BY <4>2, <1>3, <1>7
      <4>4. QED
        BY <4>1, <4>2, <4>3, <1>3 DEF End
    <3>3. QED
      BY <3>1, <3>2
  <2>5. ASSUME NEW o \in DOMAIN at' \ {First}
        PROVE  at'[o].prv \in DOMAIN at' /\ at'[at'[o].prv].nxt = o
    <3>1. CASE o = nx
      <4>1. at'[o].prv = last
        BY <3>1, <1>1, <1>3
      <4>2. QED
        BY <3>1, <4>1, <1>1, <1>3, <1>7
    <3>2. CASE o # nx
      <4>1. o \in DOMAIN at \ {First} /\ at'[o].prv = at[o].prv
        BY <3>2, <2>5, <1>3, <1>7
      <4>2. at[o].prv \in DOMAIN at /\ at[at[o].prv].nxt = o
        BY <4>1, <1>1 DEF IInv, Linked
      <4>3. o # 0
        BY <4>1, <1>1 DEF IInv, Linked, TypeOK, First
      <4>4. at[o].prv # last
        BY <4>2, <4>3, <1>7
      <4>5. QED
        BY <4>1, <4>2, <4>4, <1>3
    <3>3. QED
      BY <3>1, <3>2
  <2>6. QED
    BY <1>4, <2>1, <2>2, <2>3, <2>4, <2>5 DEF Linked
<1>9. Packed'
  <2>1. \A o \in DOMAIN at : at'[o].buf = at[o].buf /\ End(at'[o]) = End(at[o])
    BY <1>3, <1>7 DEF End
  <2>2. \A o \in DOMAIN at : o \in Nat /\ o <= last /\ End(at[o]) <= nx /\ End(at[o]) \in Nat
    <3> TAKE o \in DOMAIN at
    <3>1. o \in Nat /\ o <= last /\ at[o] \in Node /\ at[o].buf \in Nat /\ at[o].sz \in Nat
      BY <1>1, NodeAt DEF IInv, TypeOK, Linked
    <3>2. o < last => End(at[o]) <= last
      BY <1>1, <3>1 DEF IInv, Packed
    <3>3. QED
      BY <1>1, <3>1, <3>2 DEF End
  <2>3. End(at'[nx]) = size /\ at'[nx].buf = nx + NodeSize
    BY <1>1, <1>3 DEF End
  <2>4. \A o \in DOMAIN at' : at'[o].buf = o + NodeSize /\ End(at'[o]) <= cap'
    BY <1>1, <1>3, <1>4, <2>1, <2>2, <2>3 DEF IInv, Packed, TypeOK
  <2>5. \A o, p \in DOMAIN at' : o < p => End(at'[o]) <= p
    BY <1>1, <1>3, <2>1, <2>2 DEF IInv, Packed
  <2>6. QED
    BY <2>4, <2>5 DEF Packed
<1>10. RecordsIntact'
  <2>1. mem' = [a \in 0..(cap' - 1) |-> IF a \in Record(nx) THEN Meta ELSE Grown(size)[a]]
    BY <1>4 DEF MkScale
  <2>2. \A a \in Record(nx) : mem'[a] = Meta
    BY <1>1, <1>4, <2>1 DEF Record
  <2>3. ASSUME NEW a \in 0..(cap - 1), mem[a] = Meta PROVE mem'[a] = Meta
    BY <1>1, <1>4, <2>1, <2>3, GrownType DEF IInv, TypeOK
  <2>4. \A o \in DOMAIN at : \A a \in Record(o) : a \in 0..(cap - 1)
    BY RecordsInside DEF IInv
  <2>5. \A a \in 0..(HdrSize - 1) : a \in 0..(cap - 1)
    BY HeaderInside, <1>1 DEF IInv
  <2>6. \A o \in DOMAIN at : \A a \in Record(o) : mem'[a] = Meta
    BY <1>1, <2>3, <2>4 DEF IInv, RecordsIntact
  <2>7. \A a \in 0..(HdrSize - 1) : mem'[a] = Meta
    BY <1>1, <2>3, <2>5 DEF IInv, RecordsIntact
  <2>8. QED
    BY <1>3, <2>2, <2>6, <2>7 DEF RecordsIntact
<1>11. QED
  BY <1>6, <1>8, <1>9, <1>10 DEF IInv

\* grow_last_scale: nothing follows the last buffer, so it may take any size
\* the allocation is grown to.
LEMMA GrowLastInv ==
    ASSUME IInv, NEW n \in Sizes, GrowLast(n) PROVE IInv'
<1> USE SizeAssumption
<1> DEFINE size == GrowSize(n)
<1>1. /\ n \in Nat /\ cap # 0 /\ last \in DOMAIN at /\ last \in Nat /\ at[last] \in Node
      /\ at[last].buf = last + NodeSize /\ at[last].buf \in Nat
      /\ size = n + at[last].buf /\ size \in Nat
  <2>1. n \in Nat /\ cap # 0 /\ last \in DOMAIN at /\ last \in Nat
    BY DEF IInv, TypeOK, Linked, GrowLast
  <2>2. at[last] \in Node /\ at[last].buf \in Nat
    BY <2>1, NodeAt DEF IInv
  <2>3. at[last].buf = last + NodeSize
    BY <2>1 DEF IInv, Packed
  <2>4. QED
    BY <2>1, <2>2, <2>3 DEF GrowSize
<1>2. /\ cap' = AtLeast(size) /\ cap' \in Nat /\ cap' >= size /\ cap' >= cap /\ cap' # 0
      /\ mem' \in [0..(cap' - 1) -> Cell]
      /\ \A a \in 0..(cap - 1) : mem'[a] = mem[a]
  BY <1>1, GrownType DEF IInv, GrowLast
<1>3. /\ DOMAIN at' = DOMAIN at /\ last' = last
      /\ at'[last] = [at[last] EXCEPT !.sz = n]
      /\ \A o \in DOMAIN at \ {last} : at'[o] = at[o]
  BY <1>1 DEF GrowLast
<1>4. /\ at'[last].sz = n /\ at'[last].id = at[last].id /\ at'[last].nxt = at[last].nxt
      /\ at'[last].prv = at[last].prv /\ at'[last].buf = at[last].buf
  BY <1>1, <1>3 DEF Node
<1>5. \A o \in DOMAIN at : /\ at'[o].id = at[o].id /\ at'[o].nxt = at[o].nxt
                           /\ at'[o].prv = at[o].prv /\ at'[o].buf = at[o].buf
                           /\ o # last => End(at'[o]) = End(at[o])
  BY <1>3, <1>4 DEF End
<1>6. TypeOK'
  <2>1. [at[last] EXCEPT !.sz = n] \in Node
    BY <1>1 DEF Node
  <2>2. at' \in [DOMAIN at' -> Node]
    BY <1>3, <2>1 DEF IInv, TypeOK, GrowLast
  <2>3. QED
    BY <1>1, <1>2, <1>3, <2>2 DEF TypeOK, IInv
<1>7. Linked'
  BY <1>1, <1>2, <1>3, <1>5 DEF IInv, Linked
<1>8. Packed'
  <2>1. End(at'[last]) = size
    BY <1>1, <1>4 DEF End
  <2>2. \A o \in DOMAIN at : o \in Nat /\ o <= last /\ at[o].buf \in Nat /\ at[o].sz \in Nat
    BY <1>1, NodeAt DEF IInv, Linked
  <2>3. ASSUME NEW o \in DOMAIN at'
        PROVE  at'[o].buf = o + NodeSize /\ End(at'[o]) <= cap'
    <3>1. at'[o].buf = o + NodeSize
      BY <1>3, <1>5 DEF IInv, Packed
    <3>2. CASE o = last
      BY <3>1, <3>2, <2>1, <1>2
    <3>3. CASE o # last
      <4>1. End(at'[o]) = at[o].buf + at[o].sz
        BY <3>3, <1>3, <1>5 DEF End
      <4>2. at[o].buf + at[o].sz <= cap
        BY <1>3 DEF IInv, Packed, End
      <4>3. QED
        BY <3>1, <4>1, <4>2, <2>2, <1>2, <1>3 DEF IInv, TypeOK
    <3>4. QED
      BY <3>2, <3>3
  <2>4. ASSUME NEW o \in DOMAIN at', NEW p \in DOMAIN at', o < p
        PROVE  End(at'[o]) <= p
    <3>1. o # last
      BY <2>2, <2>4, <1>3, <1>1
    <3>2. QED
      BY <3>1, <2>4, <1>3, <1>5 DEF IInv, Packed
  <2>5. QED
    BY <2>3, <2>4 DEF Packed
<1>9. RecordsIntact'
  <2>1. \A o \in DOMAIN at : \A a \in Record(o) : a \in 0..(cap - 1)
    BY RecordsInside DEF IInv
  <2>2. \A a \in 0..(HdrSize - 1) : a \in 0..(cap - 1)
    BY HeaderInside, <1>1 DEF IInv
  <2>3. QED
    BY <1>1, <1>2, <1>3, <2>1, <2>2 DEF IInv, RecordsIntact
<1>10. QED
  BY <1>6, <1>7, <1>8, <1>9 DEF IInv

\* del_scale_from_vec_last: the predecessor becomes the last node, or the
\* first node stays.
LEMMA DelLastInv ==
    ASSUME IInv, DelLast PROVE IInv'
<1> USE SizeAssumption
<1> DEFINE p == at[last].prv
<1>1. /\ cap # 0 /\ last \in DOMAIN at /\ last \in Nat /\ at[last].nxt = 0
      /\ First \in DOMAIN at /\ First \in Nat /\ First # 0
      /\ cap' = cap /\ mem' = mem /\ last' = p
  BY DEF IInv, TypeOK, Linked, DelLast, First
<1>2. \A o \in DOMAIN at : /\ o \in Nat /\ o # 0 /\ First <= o /\ o <= last /\ at[o] \in Node
                           /\ at[o].buf \in Nat /\ at[o].sz \in Nat /\ at[o].nxt \in Nat
  BY <1>1, NodeAt DEF IInv, Linked, First
<1>3. CASE p = last
  <2>1. last = First
    <3>1. SUFFICES ASSUME last # First PROVE FALSE
      OBVIOUS
    <3>2. at[at[last].prv].nxt = last
      BY <1>1, <3>1 DEF IInv, Linked
    <3>3. QED
      BY <1>1, <1>2, <1>3, <3>2
  <2>2. at' = at
    <3>1. at' = [o \in DOMAIN at |-> IF o = last THEN [at[o] EXCEPT !.nxt = 0] ELSE at[o]]
      BY <1>3 DEF DelLast
    <3>2. [at[last] EXCEPT !.nxt = 0] = at[last]
      BY <1>1, <1>2 DEF Node
    <3>3. QED
      BY <3>1, <3>2 DEF IInv, TypeOK
  <2>3. QED
    BY <1>1, <1>3, <2>2 DEF IInv, TypeOK, Linked, Packed, RecordsIntact, End
<1>4. CASE p # last
  <2>1. last # First
    BY <1>4, <1>1 DEF IInv, Linked
  <2>2. p \in DOMAIN at /\ at[p].nxt = last /\ p < last
    <3>1. p \in DOMAIN at /\ at[p].nxt = last
      BY <1>1, <2>1 DEF IInv, Linked
    <3>2. QED
      BY <3>1, <1>1, <1>2, <1>4
  <2>3. /\ DOMAIN at' = DOMAIN at \ {last}
        /\ at'[p] = [at[p] EXCEPT !.nxt = 0]
        /\ \A o \in DOMAIN at' \ {p} : at'[o] = at[o]
    BY <1>4, <2>2 DEF DelLast
  <2>4. \A o \in DOMAIN at' : /\ at'[o].id = at[o].id /\ at'[o].prv = at[o].prv
                              /\ at'[o].buf = at[o].buf /\ at'[o].sz = at[o].sz
                              /\ End(at'[o]) = End(at[o])
                              /\ o \in DOMAIN at /\ o # last
    BY <1>2, <2>2, <2>3 DEF Node, End
  <2>5. at'[p].nxt = 0 /\ \A o \in DOMAIN at' \ {p} : at'[o].nxt = at[o].nxt
    BY <1>2, <2>2, <2>3 DEF Node
  <2>6. \A o \in DOMAIN at' : o <= p
    <3> SUFFICES ASSUME NEW o \in DOMAIN at', p < o PROVE FALSE
      BY <1>2, <2>2, <2>4
    <3>1. End(at[p]) = last
      BY <1>1, <2>2 DEF IInv, Linked
    <3>2. End(at[p]) <= o
      BY <2>2, <2>4 DEF IInv, Packed
    <3>3. QED
      BY <3>1, <3>2, <2>4, <1>1, <1>2
  <2>7. TypeOK'
    <3>1. \A o \in DOMAIN at' : at'[o] \in Node
      BY <1>2, <2>2, <2>3, <2>4 DEF Node
    <3>2. at' \in [DOMAIN at' -> Node]
      BY <3>1 DEF DelLast
    <3>3. QED
      BY <1>1, <1>2, <2>2, <2>3, <3>2 DEF IInv, TypeOK
  <2>8. Linked'
    <3>1. First \in DOMAIN at' /\ at'[First].id = 0 /\ at'[First].prv = First
      BY <1>1, <2>1, <2>3, <2>4 DEF IInv, Linked
    <3>2. last' \in DOMAIN at' /\ at'[last'].nxt = 0
      BY <1>1, <1>4, <2>2, <2>3, <2>5
    <3>3. \A o \in DOMAIN at' : First <= o /\ o <= last'
      BY <1>1, <1>2, <2>4, <2>6
    <3>4. ASSUME NEW o \in DOMAIN at' \ {last'}
          PROVE  /\ at'[o].nxt = End(at'[o])
                 /\ at'[o].nxt \in DOMAIN at'
                 /\ at'[at'[o].nxt].prv = o
                 /\ at'[at'[o].nxt].id = at'[o].id + 1
      <4>1. o \in DOMAIN at \ {last} /\ o # p /\ o \in DOMAIN at'
        BY <3>4, <1>1, <2>4
      <4>2. /\ at[o].nxt = End(at[o]) /\ at[o].nxt \in DOMAIN at
            /\ at[at[o].nxt].prv = o /\ at[at[o].nxt].id = at[o].id + 1
        BY <4>1, <1>1 DEF IInv, Linked
      <4>3. at[o].nxt # last
        BY <4>1, <4>2
      <4>4. at'[o].nxt = at[o].nxt /\ at[o].nxt \in DOMAIN at'
        BY <4>1, <4>2, <4>3, <2>3, <2>5
      <4>5. QED
        BY <4>1, <4>2, <4>4, <2>4
    <3>5. ASSUME NEW o \in DOMAIN at' \ {First}
          PROVE  at'[o].prv \in DOMAIN at' /\ at'[at'[o].prv].nxt = o
      <4>1. o \in DOMAIN at \ {First} /\ o # last /\ at'[o].prv = at[o].prv
        BY <3>5, <2>4
      <4>2. at[o].prv \in DOMAIN at /\ at[at[o].prv].nxt = o
        BY <4>1, <1>1 DEF IInv, Linked
      <4>3. at[o].prv # p /\ at[o].prv # last
        BY <4>1, <4>2, <1>1, <1>2, <2>2
      <4>4. QED
        BY <4>1, <4>2, <4>3, <2>3, <2>5
    <3>6. QED
      BY <1>1, <3>1, <3>2, <3>3, <3>4, <3>5 DEF Linked
  <2>9. Packed'
    BY <1>1, <2>4 DEF IInv, Packed
  <2>10. RecordsIntact'
    BY <1>1, <2>4 DEF IInv, RecordsIntact
  <2>11. QED
    BY <2>7, <2>8, <2>9, <2>10 DEF IInv
<1>5. QED
  BY <1>3, <1>4

\* A write through a buffer stays inside that buffer.
LEMMA WriteInv ==
    ASSUME IInv, NEW o \in DOMAIN at, NEW i \in 0..(at[o].sz - 1), NEW d \in Data,
           Write(o, i, d)
    PROVE  IInv'
<1> USE SizeAssumption
<1> DEFINE c == at[o].buf + i
<1>1. /\ cap' = cap /\ last' = last /\ at' = at /\ mem' = [mem EXCEPT ![c] = d]
      /\ o \in Nat /\ at[o].buf \in Nat /\ at[o].sz \in Nat
  BY NodeAt DEF Write, IInv
<1>2. /\ i \in Nat /\ i < at[o].sz /\ at[o].buf = o + NodeSize
      /\ at[o].buf + at[o].sz <= cap /\ cap \in Nat /\ cap # 0
  <2>1. i \in Nat /\ i < at[o].sz
    BY <1>1
  <2>2. at[o].buf = o + NodeSize /\ at[o].buf + at[o].sz <= cap
    BY DEF IInv, Packed, End
  <2>3. cap \in Nat /\ cap # 0
    BY DEF IInv, TypeOK, Linked
  <2>4. QED
    BY <2>1, <2>2, <2>3
<1>3. c \in 0..(cap - 1)
  BY <1>1, <1>2
<1>4. mem' \in [0..(cap - 1) -> Cell]
  BY <1>1, <1>3 DEF IInv, TypeOK, Cell
<1>5. \A p \in DOMAIN at : c \notin Record(p)
  <2> SUFFICES ASSUME NEW p \in DOMAIN at, c \in Record(p) PROVE FALSE
    OBVIOUS
  <2>1. /\ p \in Nat /\ at[p].buf \in Nat /\ at[p].sz \in Nat
        /\ at[p].buf = p + NodeSize /\ p <= c /\ c <= p + NodeSize - 1
    BY <1>1, NodeAt DEF IInv, Packed, Record
  <2>2. CASE p <= o
    BY <2>1, <2>2, <1>1, <1>2
  <2>3. CASE o < p
    <3>1. at[o].buf + at[o].sz <= p
      BY <2>3 DEF IInv, Packed, End
    <3>2. QED
      BY <3>1, <2>1, <1>1, <1>2
  <2>4. QED
    BY <2>1, <2>2, <2>3, <1>1
<1>6. c \notin 0..(HdrSize - 1)
  <2>1. First <= o
    BY <1>2 DEF IInv, Linked
  <2>2. QED
    BY <2>1, <1>1, <1>2 DEF First
<1>7. TypeOK'
  BY <1>1, <1>4 DEF IInv, TypeOK
<1>8. Linked' /\ Packed'
  BY <1>1 DEF IInv, Linked, Packed, End
<1>9. RecordsIntact'
  <2>1. \A a \in 0..(cap - 1) : a # c => mem'[a] = mem[a]
    BY <1>1, <1>3 DEF IInv, TypeOK
  <2>2. \A p \in DOMAIN at : \A a \in Record(p) : a \in 0..(cap - 1)
    BY RecordsInside DEF IInv
  <2>3. \A a \in 0..(HdrSize - 1) : a \in 0..(cap - 1)
    BY HeaderInside, <1>2 DEF IInv
  <2>4. \A p \in DOMAIN at : \A a \in Record(p) : mem'[a] = Meta
    BY <1>2, <1>5, <2>1, <2>2 DEF IInv, RecordsIntact
  <2>5. \A a \in 0..(HdrSize - 1) : mem'[a] = Meta
    BY <1>2, <1>6, <2>1, <2>3 DEF IInv, RecordsIntact
  <2>6. QED
    BY <1>1, <2>4, <2>5 DEF RecordsIntact
<1>10. QED
  BY <1>7, <1>8, <1>9 DEF IInv

\* Every action keeps the inductive invariant.
LEMMA NextInv == IInv /\ [Next]_vars => IInv'
<1> SUFFICES ASSUME IInv, [Next]_vars PROVE IInv'
  OBVIOUS
<1>1. ASSUME NEW n \in Sizes, InitScale(n) PROVE IInv'
  BY <1>1, InitScaleInv
<1>2. ASSUME NEW n \in Sizes, InitScaleFails(n) PROVE IInv'
  BY <1>2, FailKeeps DEF InitScaleFails
<1>3. ASSUME NEW n \in Sizes, MkScale(n) PROVE IInv'
  BY <1>3, MkScaleInv
<1>4. ASSUME NEW n \in Sizes, MkScaleFails(n) PROVE IInv'
  BY <1>4, FailKeeps DEF MkScaleFails
<1>5. ASSUME NEW n \in Sizes, GrowLast(n) PROVE IInv'
  BY <1>5, GrowLastInv
<1>6. ASSUME NEW n \in Sizes, GrowLastFails(n) PROVE IInv'
  BY <1>6, FailKeeps DEF GrowLastFails
<1>7. CASE DelLast
  BY <1>7, DelLastInv
<1>8. ASSUME NEW o \in DOMAIN at, NEW i \in 0..(at[o].sz - 1), NEW d \in Data, Write(o, i, d)
      PROVE  IInv'
  BY <1>8, WriteInv
<1>9. CASE UNCHANGED vars
  BY <1>9 DEF vars, IInv, TypeOK, Linked, Packed, RecordsIntact, End
<1>10. QED
  BY <1>1, <1>2, <1>3, <1>4, <1>5, <1>6, <1>7, <1>8, <1>9 DEF Next

\* The inductive invariant holds in every state scale.h can reach.
THEOREM Inductive == Spec => []IInv
BY InitInv, NextInv, PTL DEF Spec

\* Every offset scale.h keeps has its type.
THEOREM TypeCorrect == Spec => []TypeOK
<1>1. IInv => TypeOK
  BY DEF IInv
<1>2. QED
  BY <1>1, Inductive, PTL

\* The list stays doubly linked, in order of offset and numbered in order.
THEOREM LinkedAlways == Spec => []Linked
<1>1. IInv => Linked
  BY DEF IInv
<1>2. QED
  BY <1>1, Inductive, PTL

\* No buffer or record overlaps another or leaves the allocation.
THEOREM PackedAlways == Spec => []Packed
<1>1. IInv => Packed
  BY DEF IInv
<1>2. QED
  BY <1>1, Inductive, PTL

\* No write through a buffer ever reaches the header word or a record.
THEOREM RecordsIntactAlways == Spec => []RecordsIntact
<1>1. IInv => RecordsIntact
  BY DEF IInv
<1>2. QED
  BY <1>1, Inductive, PTL
=============================================================================
