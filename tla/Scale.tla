-------------------------------- MODULE Scale --------------------------------
(***************************************************************************)
(* lib/util/scale.h over the growable vector of lib/vec.auto.h             *)
(* (src/vec.c): a doubly linked list of buffers packed in one allocation.  *)
(*                                                                         *)
(*   offset 0            one size_t: the offset of the last node           *)
(*   offset HdrSize      node 0, then its buffer, then node 1, ...         *)
(*                                                                         *)
(* A node is an x_scale record; every field is an offset from the start    *)
(* of the vector, so that the vector may move.  The model keeps the node   *)
(* records in a function of their offset, and the cells of the allocation  *)
(* in mem, where a cell under the header word or under a node record       *)
(* holds Meta: a buffer that overlapped a record would show it.            *)
(* The build is the NDEBUG one: a failed allocation is reported, not       *)
(* asserted.                                                               *)
(***************************************************************************)
EXTENDS Integers

CONSTANTS
    HdrSize,    \* sizeof(size_t)
    NodeSize,   \* sizeof(x_scale)
    Sizes,      \* the buffer sizes the callers ask for
    MaxCap,     \* bound: no allocation above this size is asked for
    Data,       \* what a caller writes into a cell
    Zero,       \* what calloc leaves in a cell
    Meta        \* a cell of the header word or of a node record

ASSUME SizeAssumption ==
    /\ HdrSize \in Nat \ {0}
    /\ NodeSize \in Nat \ {0}
    /\ MaxCap \in Nat
    /\ Sizes \subseteq Nat

ASSUME CellAssumption == Meta \notin Data \cup {Zero}

Cell == Data \cup {Zero, Meta}

Node == [id : Nat, nxt : Nat, prv : Nat, buf : Nat, sz : Nat]

VARIABLES
    cap,    \* m_sz of the vector; 0 when m_p is NULL
    last,   \* the header word
    at,     \* the node records that are linked, by offset
    mem     \* the cells of the allocation

vars == << cap, last, at, mem >>

EmptyAt == [o \in {} |-> o]

First == HdrSize

\* The cells of a node record, and where its buffer ends.
Record(o) == o..(o + NodeSize - 1)
End(n) == n.buf + n.sz

AtLeast(n) == IF n > cap THEN n ELSE cap

\* Mutant: the copy is one cell short.
MutGrown(n) == [a \in 0..(AtLeast(n) - 1) |-> IF a + 1 < cap THEN mem[a] ELSE Zero]

\* The cells after the vector was grown to n cells with its contents kept.
Grown(n) == [a \in 0..(AtLeast(n) - 1) |-> IF a < cap THEN mem[a] ELSE Zero]

\* Mutant: m_sz keeps its value beside the null pointer.
MutFail(n) == /\ n > cap
              /\ last' = 0
              /\ at' = EmptyAt
              /\ mem' = [a \in {} |-> Zero]
              /\ UNCHANGED cap

\* An allocation that fails leaves the vector empty: the old block is freed
\* by both growing macros.
Fail(n) == /\ n > cap
           /\ cap' = 0
           /\ last' = 0
           /\ at' = EmptyAt
           /\ mem' = [a \in {} |-> Zero]
------------------------------------------------------------------------------
Init == /\ cap = 0
        /\ last = 0
        /\ at = EmptyAt
        /\ mem = [a \in {} |-> Zero]

\* Mutant: no room for the record of node 0.
MutInitSize(n) == n + HdrSize

\* init_scale: the vector is grown without a copy (its old contents are freed
\* first), or kept with its contents when it is large enough already.
InitSize(n) == n + HdrSize + NodeSize

InitScale(n) ==
    /\ InitSize(n) <= MaxCap
    /\ cap' = AtLeast(InitSize(n))
    /\ last' = First
    /\ at' = [o \in {First} |->
                [id |-> 0, nxt |-> 0, prv |-> First, buf |-> First + NodeSize, sz |-> n]]
    /\ mem' = [a \in 0..(AtLeast(InitSize(n)) - 1) |->
                IF a < HdrSize + NodeSize THEN Meta
                ELSE IF InitSize(n) > cap THEN Zero ELSE mem[a]]

InitScaleFails(n) == InitSize(n) <= MaxCap /\ Fail(InitSize(n))

\* mk_scale_from_vec: a node is linked after the last one, at the end of its
\* buffer.
MkSize(n) == End(at[last]) + n + NodeSize

\* Mutant: the new node does not count on from its predecessor.
MutMkScale(n) ==
    LET nxt == End(at[last]) IN
    /\ cap # 0
    /\ MkSize(n) <= MaxCap
    /\ cap' = AtLeast(MkSize(n))
    /\ last' = nxt
    /\ at' = [o \in DOMAIN at \cup {nxt} |->
                IF o = nxt THEN [id |-> 0, nxt |-> 0, prv |-> at[last].buf - NodeSize,
                                 buf |-> nxt + NodeSize, sz |-> n]
                ELSE IF o = last THEN [at[o] EXCEPT !.nxt = nxt]
                ELSE at[o]]
    /\ mem' = [a \in 0..(AtLeast(MkSize(n)) - 1) |->
                IF a \in Record(nxt) THEN Meta ELSE Grown(MkSize(n))[a]]

MkScale(n) ==
    LET nxt == End(at[last]) IN
    /\ cap # 0
    /\ MkSize(n) <= MaxCap
    /\ cap' = AtLeast(MkSize(n))
    /\ last' = nxt
    /\ at' = [o \in DOMAIN at \cup {nxt} |->
                IF o = nxt THEN [id |-> at[last].id + 1, nxt |-> 0,
                                 prv |-> at[last].buf - NodeSize,
                                 buf |-> nxt + NodeSize, sz |-> n]
                ELSE IF o = last THEN [at[o] EXCEPT !.nxt = nxt]
                ELSE at[o]]
    /\ mem' = [a \in 0..(AtLeast(MkSize(n)) - 1) |->
                IF a \in Record(nxt) THEN Meta ELSE Grown(MkSize(n))[a]]

MkScaleFails(n) == cap # 0 /\ MkSize(n) <= MaxCap /\ Fail(MkSize(n))

\* grow_last_scale: refused when the last node is followed by another one.
\* A size below the current one shrinks the buffer and keeps the allocation.
GrowSize(n) == n + at[last].buf

GrowLast(n) ==
    /\ cap # 0
    /\ at[last].nxt = 0
    /\ GrowSize(n) <= MaxCap
    /\ cap' = AtLeast(GrowSize(n))
    /\ mem' = Grown(GrowSize(n))
    /\ at' = [at EXCEPT ![last].sz = n]
    /\ UNCHANGED last

GrowLastFails(n) ==
    cap # 0 /\ at[last].nxt = 0 /\ GrowSize(n) <= MaxCap /\ Fail(GrowSize(n))

\* Mutant: the predecessor still points to the deleted node.
MutDelLast ==
    LET prv == at[last].prv IN
    /\ cap # 0
    /\ last' = prv
    /\ at' = [o \in (IF prv = last THEN DOMAIN at ELSE DOMAIN at \ {last}) |-> at[o]]
    /\ UNCHANGED << cap, mem >>

\* del_scale_from_vec_last: the first node is its own predecessor, so
\* deleting it leaves the list as it was.
DelLast ==
    LET prv == at[last].prv IN
    /\ cap # 0
    /\ last' = prv
    /\ at' = [o \in (IF prv = last THEN DOMAIN at ELSE DOMAIN at \ {last}) |->
                IF o = prv THEN [at[o] EXCEPT !.nxt = 0] ELSE at[o]]
    /\ UNCHANGED << cap, mem >>

\* A caller writes a cell of a buffer it got through get_buf_from_scale.
Write(o, i, d) ==
    /\ mem' = [mem EXCEPT ![at[o].buf + i] = d]
    /\ UNCHANGED << cap, last, at >>

Next ==
    \/ \E n \in Sizes :
        \/ InitScale(n) \/ InitScaleFails(n)
        \/ MkScale(n) \/ MkScaleFails(n)
        \/ GrowLast(n) \/ GrowLastFails(n)
    \/ DelLast
    \/ \E o \in DOMAIN at : \E i \in 0..(at[o].sz - 1), d \in Data : Write(o, i, d)

Spec == Init /\ [][Next]_vars
------------------------------------------------------------------------------
\* get_scale_from_vec: the offset reached after following m_nxt i times from
\* the first node; 0 stands for the walk that meets a null m_nxt ("exceeded").
Walk ==
    LET step[i \in 0..at[last].id] ==
            IF i = 0 THEN First
            ELSE IF step[i - 1] \in DOMAIN at THEN at[step[i - 1]].nxt ELSE 0
    IN  step

(***************************************************************************)
(* Properties                                                              *)
(***************************************************************************)
\* The state has its type: offsets are naturals, every linked offset has a
\* full record, and there are exactly cap cells.
TypeOK ==
    /\ cap \in Nat
    /\ last \in Nat
    /\ DOMAIN at \subseteq Nat
    /\ at \in [DOMAIN at -> Node]
    /\ mem \in [0..(cap - 1) -> Cell]

\* No record or buffer runs into the next one or past the allocation, so a
\* pointer get_buf_from_scale returns stays inside its own buffer whatever
\* sequence of init, mk, grow, del and failed allocations led here.
Packed ==
    /\ \A o \in DOMAIN at : at[o].buf = o + NodeSize /\ End(at[o]) <= cap
    /\ \A o, p \in DOMAIN at : o < p => End(at[o]) <= p

\* The list is doubly linked from the first node to the header word's node in
\* order of offset, and the identifiers count its nodes: what mk writes into
\* m_prv (the predecessor's m_buf less a record) is what del follows back.
Linked ==
    IF cap = 0 THEN DOMAIN at = {} ELSE
    /\ First \in DOMAIN at /\ at[First].id = 0 /\ at[First].prv = First
    /\ last \in DOMAIN at /\ at[last].nxt = 0
    /\ \A o \in DOMAIN at : First <= o /\ o <= last
    /\ \A o \in DOMAIN at \ {last} :
            /\ at[o].nxt = End(at[o])
            /\ at[o].nxt \in DOMAIN at
            /\ at[at[o].nxt].prv = o
            /\ at[at[o].nxt].id = at[o].id + 1
    /\ \A o \in DOMAIN at \ {First} : at[o].prv \in DOMAIN at /\ at[at[o].prv].nxt = o

\* The record of a live node is never overwritten through a buffer: the
\* header word and the records still hold what scale.h wrote.
RecordsIntact ==
    cap # 0 => \A a \in 0..(HdrSize - 1) \cup UNION { Record(o) : o \in DOMAIN at } :
                    mem[a] = Meta

\* get_scale_from_vec(i) for every index up to the last one meets neither of
\* its assertions ("exceeded", ret->m_id == c_idx), and the walk passes every
\* node there is.
IndexFinds ==
    cap # 0 =>
        /\ \A i \in DOMAIN Walk : Walk[i] \in DOMAIN at /\ at[Walk[i]].id = i
        /\ DOMAIN at = { Walk[i] : i \in DOMAIN Walk }
        /\ Walk[at[last].id] = last

\* The vector as the stack of its buffers.  The i-th buffer is that of the
\* node whose m_id is i - 1.
NodeWithId(i) == CHOOSE o \in DOMAIN at : at[o].id = i

Contents(n) == [j \in 1..n.sz |-> mem[n.buf + j - 1]]

BufferStack == [i \in 1..(IF cap = 0 THEN 0 ELSE at[last].id + 1) |->
                    Contents(at[NodeWithId(i - 1)])]

Stack == INSTANCE ScaleStack WITH stack <- BufferStack

\* scale.h implements the stack of buffers: making, growing or deleting the
\* last buffer leaves the contents of the others as they were.
ImplementsStack == Stack!Spec
=============================================================================
