--------------------------- MODULE EntpBodyProofs ---------------------------
(***************************************************************************)
(* What holds of the statement visitor and the cursor table for any number *)
(* of kernels, parameters and statements.                                  *)
(***************************************************************************)
EXTENDS EntpBody, SequenceTheorems, FiniteSetTheorems, WellFoundedInduction, TLAPS

------------------------------------------------------------------------------
(***************************************************************************)
(* Recursive functions over 0..n.  Induction is over the members of a set  *)
(* of naturals, by its least element.                                      *)
(***************************************************************************)
LEMMA Least ==
    ASSUME NEW T \in SUBSET Nat, T # {}
    PROVE  \E x \in T : \A y \in T : x <= y
<1> DEFINE R == OpToRel(<, Nat)
<1>1. IsWellFoundedOn(R, Nat)
  BY NatLessThanWellFounded
<1>2. PICK x \in T : \A y \in T : ~(<< y, x >> \in R)
  <2> HIDE DEF R
  <2>1. QED
    BY <1>1, WFMin
<1>3. \A y \in T : ~(y < x)
  BY <1>2 DEF OpToRel
<1>4. QED
  BY <1>3

LEMMA UpTo ==
    ASSUME NEW n \in Nat, NEW P, 0 \in P, \A j \in 1..n : j - 1 \in P => j \in P
    PROVE  \A j \in 0..n : j \in P
<1> DEFINE T == {j \in 0..n : j \notin P}
<1>1. SUFFICES ASSUME T # {} PROVE FALSE
  OBVIOUS
<1>2. PICK j \in T : \A i \in T : j <= i
  <2> T \in SUBSET Nat
    OBVIOUS
  <2> HIDE DEF T
  <2>1. QED
    BY <1>1, Least
<1>3. j \in 1..n
  BY <1>2
<1>4. j - 1 \in 0..n /\ ~(j <= j - 1)
  BY <1>3
<1>5. j - 1 \in P
  BY <1>2, <1>4
<1>6. QED
  BY <1>2, <1>3, <1>5

\* f iterates g from b.
Iterates(f, n, S, b, g) ==
    /\ f \in [0..n -> S]
    /\ f[0] = b
    /\ \A j \in 1..n : f[j] = g[<< j, f[j - 1] >>]

LEMMA Iterated ==
    ASSUME NEW n \in Nat, NEW S, NEW b \in S, NEW g \in [(1..n) \X S -> S]
    PROVE  \E f : Iterates(f, n, S, b, g)
<1> DEFINE P == {m \in 0..n : \E f : Iterates(f, m, S, b, g)}
<1>1. 0 \in P
  <2> DEFINE f == [j \in 0..0 |-> b]
  <2>1. Iterates(f, 0, S, b, g)
    BY DEF Iterates
  <2>2. QED
    BY <2>1
<1>2. ASSUME NEW m \in 1..n, m - 1 \in P
      PROVE  m \in P
  <2>1. PICK f : Iterates(f, m - 1, S, b, g)
    BY <1>2
  <2>2. f[m - 1] \in S
    BY <2>1 DEF Iterates
  <2>3. PICK y \in S : y = g[<< m, f[m - 1] >>]
    BY <2>2
  <2> DEFINE h == [j \in 0..m |-> IF j = m THEN y ELSE f[j]]
  <2>4. h \in [0..m -> S] /\ h[0] = b
    BY <2>1 DEF Iterates
  <2>5. \A j \in 1..m : h[j] = g[<< j, h[j - 1] >>]
    <3>1. \A j \in 1..m : h[j - 1] = f[j - 1]
      OBVIOUS
    <3>2. \A j \in 1..m : j # m => h[j] = f[j] /\ j \in 1..(m - 1)
      OBVIOUS
    <3>3. \A j \in 1..(m - 1) : f[j] = g[<< j, f[j - 1] >>]
      BY <2>1 DEF Iterates
    <3>4. h[m] = y
      OBVIOUS
    <3> HIDE DEF h
    <3>5. QED
      BY <2>3, <3>1, <3>2, <3>3, <3>4
  <2> HIDE DEF h
  <2>6. Iterates(h, m, S, b, g)
    BY <2>4, <2>5 DEF Iterates
  <2>7. QED
    BY <2>6
<1>3. n \in P
  <2> HIDE DEF P
  <2>1. \A j \in 0..n : j \in P
    BY <1>1, <1>2, UpTo
  <2>2. QED
    BY <2>1
<1>4. QED
  BY <1>3
------------------------------------------------------------------------------
(***************************************************************************)
(* Sequences of instructions, by their elements.                           *)
(***************************************************************************)
Elements(s) == { s[i] : i \in DOMAIN s }

\* Instructions x and y clash: l says whether some statement was given up.
Hit(l, x, y) ==
    /\ x.id = y.id /\ x.id # 0
    /\ ~(x.of = y.of /\ {x.op, y.op} \subseteq {"Load", "Op"})
    /\ ~(l /\ "Variable" \in {x.op, y.op})

Uniq(l, s) == \A i, j \in DOMAIN s : i # j => ~Hit(l, s[i], s[j])

Apart(l, s, t) == \A x \in Elements(s), y \in Elements(t) : ~Hit(l, x, y)

LEMMA Concat ==
    ASSUME NEW S, NEW s \in Seq(S), NEW t \in Seq(S), NEW m \in Nat, m = Len(s), NEW n \in Nat, n = Len(t),
           NEW c, c = s \o t
    PROVE  /\ c \in Seq(S) /\ Len(c) = m + n
           /\ DOMAIN c = 1..(m + n) /\ DOMAIN s = 1..m /\ DOMAIN t = 1..n
           /\ \A i \in 1..m : c[i] = s[i]
           /\ \A i \in 1..n : c[m + i] = t[i]
           /\ \A i \in 1..(m + n) : i > m => i - m \in 1..n /\ c[i] = t[i - m]
<1>1. c \in Seq(S) /\ Len(c) = m + n /\ \A i \in 1..(m + n) : c[i] = IF i <= m THEN s[i] ELSE t[i - m]
  BY ConcatProperties
<1>2. DOMAIN c = 1..(m + n) /\ DOMAIN s = 1..m /\ DOMAIN t = 1..n
  BY <1>1
<1>3. \A i \in 1..m : c[i] = s[i]
  BY <1>1
<1>4. \A i \in 1..(m + n) : i > m => i - m \in 1..n /\ c[i] = t[i - m]
  BY <1>1
<1>5. \A i \in 1..n : m + i \in 1..(m + n) /\ m + i > m /\ (m + i) - m = i
  OBVIOUS
<1>6. QED
  BY <1>1, <1>2, <1>3, <1>4, <1>5

LEMMA LenOf == ASSUME NEW S, NEW s \in Seq(S) PROVE \E n \in Nat : n = Len(s)
OBVIOUS

LEMMA ElementsConcat ==
    ASSUME NEW S, NEW s \in Seq(S), NEW t \in Seq(S)
    PROVE  s \o t \in Seq(S) /\ Elements(s \o t) = Elements(s) \cup Elements(t)
<1>1. PICK m \in Nat : m = Len(s)
  BY LenOf
<1>2. PICK n \in Nat : n = Len(t)
  BY LenOf
<1>3. PICK c : c = s \o t
  OBVIOUS
<1>4. /\ c \in Seq(S)
      /\ DOMAIN c = 1..(m + n) /\ DOMAIN s = 1..m /\ DOMAIN t = 1..n
      /\ \A i \in 1..m : c[i] = s[i]
      /\ \A i \in 1..n : c[m + i] = t[i]
      /\ \A i \in 1..(m + n) : i > m => i - m \in 1..n /\ c[i] = t[i - m]
  BY <1>1, <1>2, <1>3, Concat
<1>5. \A i \in 1..m : i \in 1..(m + n)
  OBVIOUS
<1>6. \A i \in 1..n : m + i \in 1..(m + n)
  OBVIOUS
<1>7. \A i \in 1..(m + n) : i \in 1..m \/ i > m
  OBVIOUS
<1>8. ASSUME NEW x \in Elements(c) PROVE x \in Elements(s) \cup Elements(t)
  <2>1. PICK i \in 1..(m + n) : x = c[i]
    BY <1>4 DEF Elements
  <2>2. QED
    BY <1>4, <1>7, <2>1 DEF Elements
<1>9. ASSUME NEW x \in Elements(s) PROVE x \in Elements(c)
  BY <1>4, <1>5 DEF Elements
<1>10. ASSUME NEW x \in Elements(t) PROVE x \in Elements(c)
  <2>1. PICK i \in 1..n : x = t[i]
    BY <1>4 DEF Elements
  <2>2. m + i \in DOMAIN c /\ c[m + i] = x
    BY <1>4, <1>6, <2>1
  <2>3. QED
    BY <2>2 DEF Elements
<1>11. QED
  BY <1>3, <1>4, <1>8, <1>9, <1>10

LEMMA HitSymmetric == ASSUME NEW l, NEW x, NEW y, Hit(l, x, y) PROVE Hit(l, y, x)
BY DEF Hit

LEMMA UniqConcat ==
    ASSUME NEW l, NEW S, NEW s \in Seq(S), NEW t \in Seq(S), Uniq(l, s), Uniq(l, t), Apart(l, s, t)
    PROVE  Uniq(l, s \o t)
<1>1. PICK m \in Nat : m = Len(s)
  BY LenOf
<1>2. PICK n \in Nat : n = Len(t)
  BY LenOf
<1>3. PICK c : c = s \o t
  OBVIOUS
<1>4. /\ DOMAIN c = 1..(m + n) /\ DOMAIN s = 1..m /\ DOMAIN t = 1..n
      /\ \A i \in 1..m : c[i] = s[i]
      /\ \A i \in 1..(m + n) : i > m => i - m \in 1..n /\ c[i] = t[i - m]
  BY <1>1, <1>2, <1>3, Concat
<1>5. SUFFICES ASSUME NEW i \in 1..(m + n), NEW j \in 1..(m + n), i # j, Hit(l, c[i], c[j])
               PROVE  FALSE
  BY <1>3, <1>4 DEF Uniq
<1>6. i \in 1..m \/ i > m
  OBVIOUS
<1>7. j \in 1..m \/ j > m
  OBVIOUS
<1>8. CASE i \in 1..m /\ j \in 1..m
  BY <1>4, <1>5, <1>8 DEF Uniq
<1>9. CASE i > m /\ j > m
  <2>1. i - m \in 1..n /\ j - m \in 1..n /\ i - m # j - m
    BY <1>4, <1>5, <1>9
  <2>2. c[i] = t[i - m] /\ c[j] = t[j - m]
    BY <1>4, <1>9
  <2>3. QED
    BY <1>4, <1>5, <2>1, <2>2 DEF Uniq
<1>10. CASE i \in 1..m /\ j > m
  <2>1. c[i] \in Elements(s) /\ c[j] \in Elements(t)
    BY <1>4, <1>10 DEF Elements
  <2>2. QED
    BY <1>5, <2>1 DEF Apart
<1>11. CASE i > m /\ j \in 1..m
  <2>1. c[j] \in Elements(s) /\ c[i] \in Elements(t)
    BY <1>4, <1>11 DEF Elements
  <2>2. QED
    BY <1>5, <2>1, HitSymmetric DEF Apart
<1>12. QED
  BY <1>6, <1>7, <1>8, <1>9, <1>10, <1>11
------------------------------------------------------------------------------
(***************************************************************************)
(* The loop of util_tell_cursor_lbl, as a recursive function.              *)
(***************************************************************************)
Emitting(h, n, piece) ==
    h = [i \in 0..n |-> IF i = 0 THEN << >> ELSE h[i - 1] \o piece[n + 1 - i]]

LEMMA EmittingExists ==
    ASSUME NEW n \in Nat, NEW S, NEW piece \in [1..n -> Seq(S)]
    PROVE  \E h : Emitting(h, n, piece)
<1> DEFINE g == [w \in (1..n) \X Seq(S) |-> w[2] \o piece[n + 1 - w[1]]]
<1>1. g \in [(1..n) \X Seq(S) -> Seq(S)]
  <2> SUFFICES ASSUME NEW j \in 1..n, NEW s \in Seq(S) PROVE s \o piece[n + 1 - j] \in Seq(S)
    OBVIOUS
  <2>1. n + 1 - j \in 1..n
    OBVIOUS
  <2>2. piece[n + 1 - j] \in Seq(S)
    BY <2>1
  <2>3. QED
    BY <2>2, ElementsConcat
<1>2. << >> \in Seq(S)
  OBVIOUS
<1>3. \A j \in 1..n, s \in Seq(S) : g[<< j, s >>] = s \o piece[n + 1 - j]
  OBVIOUS
<1> HIDE DEF g
<1>4. PICK f : Iterates(f, n, Seq(S), << >>, g)
  BY <1>1, <1>2, Iterated
<1>5. /\ f = [i \in 0..n |-> f[i]]
      /\ f[0] = << >>
      /\ \A j \in 1..n : f[j] = f[j - 1] \o piece[n + 1 - j]
  <2>1. f \in [0..n -> Seq(S)] /\ f[0] = << >> /\ \A j \in 1..n : f[j] = g[<< j, f[j - 1] >>]
    BY <1>4 DEF Iterates
  <2>2. \A j \in 1..n : j - 1 \in 0..n
    OBVIOUS
  <2>3. QED
    BY <1>3, <2>1, <2>2
<1>6. \A i \in 0..n : f[i] = IF i = 0 THEN << >> ELSE f[i - 1] \o piece[n + 1 - i]
  <2>1. \A i \in 0..n : i = 0 \/ i \in 1..n
    OBVIOUS
  <2>2. \A i \in 1..n : i # 0
    OBVIOUS
  <2>3. QED
    BY <1>5, <2>1, <2>2
<1>7. Emitting(f, n, piece)
  BY <1>5, <1>6, Zenon DEF Emitting
<1>8. QED
  BY <1>7

LEMMA DownwardUnfold ==
    ASSUME NEW n \in Nat, NEW S, NEW piece \in [1..n -> Seq(S)]
    PROVE  \E h : Emitting(h, n, piece) /\ Downward(n, piece) = h[n]
<1> DEFINE h == CHOOSE h : Emitting(h, n, piece)
<1>1. Emitting(h, n, piece)
  <2>1. \E x : Emitting(x, n, piece)
    BY EmittingExists
  <2>2. QED
    BY <2>1, Zenon
<1>2. Downward(n, piece) = h[n]
  BY Zenon DEF Downward, Emitting
<1>3. QED
  <2> HIDE DEF h
  <2>1. QED
    BY <1>1, <1>2

\* The code of a loop over slots is made of their pieces.
LEMMA DownwardIs ==
    ASSUME NEW n \in Nat, NEW S, NEW piece \in [1..n -> Seq(S)], NEW d, d = Downward(n, piece)
    PROVE  d \in Seq(S) /\ \A x : x \in Elements(d) <=> \E i \in 1..n : x \in Elements(piece[i])
<1>1. PICK h : Emitting(h, n, piece) /\ d = h[n]
  BY DownwardUnfold
<1>2. h[0] = << >> /\ \A j \in 1..n : h[j] = h[j - 1] \o piece[n + 1 - j]
  <2>1. \A j \in 0..n : h[j] = IF j = 0 THEN << >> ELSE h[j - 1] \o piece[n + 1 - j]
    BY <1>1, Zenon DEF Emitting
  <2>2. \A j \in 1..n : j \in 0..n /\ j # 0
    OBVIOUS
  <2>3. 0 \in 0..n
    OBVIOUS
  <2>4. QED
    BY <2>1, <2>2, <2>3
<1> DEFINE P == {j \in 0..n : /\ h[j] \in Seq(S)
                              /\ \A x : x \in Elements(h[j])
                                        <=> \E i \in 1..n : i > n - j /\ x \in Elements(piece[i])}
<1>3. 0 \in P
  <2>1. Elements(<< >>) = {} /\ << >> \in Seq(S)
    BY DEF Elements
  <2>2. \A i \in 1..n : ~(i > n - 0)
    OBVIOUS
  <2>3. h[0] \in Seq(S) /\ Elements(h[0]) = {}
    BY <1>2, <2>1
  <2>4. \A x : x \in Elements(h[0]) <=> \E i \in 1..n : i > n - 0 /\ x \in Elements(piece[i])
    BY <2>2, <2>3
  <2>5. QED
    BY <2>3, <2>4
<1>4. ASSUME NEW j \in 1..n, j - 1 \in P
      PROVE  j \in P
  <2>1. PICK k \in 1..n : k = n + 1 - j
    OBVIOUS
  <2>2. h[j] = h[j - 1] \o piece[k] /\ piece[k] \in Seq(S) /\ h[j - 1] \in Seq(S)
    BY <1>2, <1>4, <2>1
  <2>3. h[j] \in Seq(S) /\ Elements(h[j]) = Elements(h[j - 1]) \cup Elements(piece[k])
    BY <2>2, ElementsConcat
  <2>4. \A i \in 1..n : i > n - j <=> i > n - (j - 1) \/ i = k
    BY <2>1
  <2>5. \A x : x \in Elements(h[j - 1]) <=> \E i \in 1..n : i > n - (j - 1) /\ x \in Elements(piece[i])
    BY <1>4
  <2>6. \A x : x \in Elements(h[j]) <=> \E i \in 1..n : i > n - j /\ x \in Elements(piece[i])
    BY <2>3, <2>4, <2>5
  <2>7. QED
    BY <2>3, <2>6
<1>5. n \in P
  <2> HIDE DEF P
  <2>1. \A j \in 0..n : j \in P
    BY <1>3, <1>4, UpTo
  <2>2. QED
    BY <2>1
<1>6. \A i \in 1..n : i > n - n
  OBVIOUS
<1>7. QED
  BY <1>1, <1>5, <1>6

\* Pieces that do not clash make code that does not.
LEMMA DownwardUniq ==
    ASSUME NEW n \in Nat, NEW S, NEW piece \in [1..n -> Seq(S)], NEW d, d = Downward(n, piece), NEW l,
           \A i \in 1..n : Uniq(l, piece[i]),
           \A i, j \in 1..n : i # j => Apart(l, piece[i], piece[j])
    PROVE  Uniq(l, d)
<1>1. PICK h : Emitting(h, n, piece) /\ d = h[n]
  BY DownwardUnfold
<1>2. h[0] = << >> /\ \A j \in 1..n : h[j] = h[j - 1] \o piece[n + 1 - j]
  <2>1. \A j \in 0..n : h[j] = IF j = 0 THEN << >> ELSE h[j - 1] \o piece[n + 1 - j]
    BY <1>1, Zenon DEF Emitting
  <2>2. \A j \in 1..n : j \in 0..n /\ j # 0
    OBVIOUS
  <2>3. 0 \in 0..n
    OBVIOUS
  <2>4. QED
    BY <2>1, <2>2, <2>3
<1> DEFINE P == {j \in 0..n : /\ h[j] \in Seq(S) /\ Uniq(l, h[j])
                              /\ \A x \in Elements(h[j]) : \E i \in 1..n : i > n - j /\ x \in Elements(piece[i])}
<1>3. 0 \in P
  <2>1. Elements(<< >>) = {} /\ Uniq(l, << >>) /\ << >> \in Seq(S)
    BY DEF Elements, Uniq
  <2>2. h[0] \in Seq(S) /\ Elements(h[0]) = {} /\ Uniq(l, h[0])
    BY <1>2, <2>1
  <2>3. QED
    BY <2>2
<1>4. ASSUME NEW j \in 1..n, j - 1 \in P
      PROVE  j \in P
  <2>1. PICK k \in 1..n : k = n + 1 - j
    OBVIOUS
  <2>2. h[j] = h[j - 1] \o piece[k] /\ piece[k] \in Seq(S) /\ h[j - 1] \in Seq(S)
    BY <1>2, <1>4, <2>1
  <2>3. h[j] \in Seq(S) /\ Elements(h[j]) = Elements(h[j - 1]) \cup Elements(piece[k])
    BY <2>2, ElementsConcat
  <2>4. \A i \in 1..n : i > n - (j - 1) => i > n - j /\ i # k
    BY <2>1
  <2>5. k > n - j
    BY <2>1
  <2>6. \A x \in Elements(h[j - 1]) : \E i \in 1..n : i > n - (j - 1) /\ x \in Elements(piece[i])
    BY <1>4
  <2>7. \A x \in Elements(h[j]) : \E i \in 1..n : i > n - j /\ x \in Elements(piece[i])
    BY <2>3, <2>4, <2>5, <2>6
  <2>8. Apart(l, h[j - 1], piece[k])
    BY <2>4, <2>6 DEF Apart
  <2>9. Uniq(l, h[j])
    BY <1>4, <2>2, <2>8, UniqConcat
  <2>10. QED
    BY <2>3, <2>7, <2>9
<1>5. n \in P
  <2> HIDE DEF P
  <2>1. \A j \in 0..n : j \in P
    BY <1>3, <1>4, UpTo
  <2>2. QED
    BY <2>1
<1>6. QED
  BY <1>1, <1>5
------------------------------------------------------------------------------
(***************************************************************************)
(* Ids.                                                                    *)
(***************************************************************************)
LEMMA MaxParamsIs ==
    MaxParams \in Nat /\ \A k \in 1..Kernels : Params[k] \in Nat /\ Params[k] <= MaxParams
<1>0. Kernels \in Nat /\ 1 \in 1..Kernels /\ \A k \in 1..Kernels : Params[k] \in Nat
  BY KernelAssumption
<1> DEFINE P == {j \in 0..Kernels : \E m \in 1..Kernels : \A k \in 1..j : Params[k] <= Params[m]}
<1>1. 0 \in P
  BY <1>0
<1>2. ASSUME NEW j \in 1..Kernels, j - 1 \in P
      PROVE  j \in P
  <2>1. PICK m \in 1..Kernels : \A k \in 1..(j - 1) : Params[k] <= Params[m]
    BY <1>2
  <2>2. \A k \in 1..j : k \in 1..(j - 1) \/ k = j
    OBVIOUS
  <2>3. CASE Params[j] <= Params[m]
    BY <2>1, <2>2, <2>3
  <2>4. CASE Params[m] < Params[j]
    <3>1. \A k \in 1..(j - 1) : k \in 1..Kernels
      BY <1>0
    <3>2. \A k \in 1..j : Params[k] <= Params[j]
      BY <1>0, <2>1, <2>2, <2>4, <3>1
    <3>3. QED
      BY <3>2
  <2>5. QED
    BY <1>0, <2>3, <2>4
<1>3. Kernels \in P
  <2> HIDE DEF P
  <2>1. \A j \in 0..Kernels : j \in P
    BY <1>0, <1>1, <1>2, UpTo
  <2>2. QED
    BY <1>0, <2>1
<1>4. PICK m \in 1..Kernels : \A k \in 1..Kernels : Params[k] <= Params[m]
  BY <1>3
<1>5. \E x \in { Params[k] : k \in 1..Kernels } : \A k \in 1..Kernels : Params[k] <= x
  BY <1>4
<1>6. MaxParams \in { Params[k] : k \in 1..Kernels } /\ \A k \in 1..Kernels : Params[k] <= MaxParams
  BY <1>5, Zenon DEF MaxParams
<1>7. QED
  BY <1>0, <1>6

LEMMA IdsAre ==
    /\ FirstId \in Nat /\ Kernels \in Nat /\ FirstId >= 2 + Kernels
    /\ \A k \in 0..Kernels : EntpId(k) \in Nat /\ EntpId(k) < FirstId /\ EntpId(k) = k + 1
    /\ \A k \in 1..Kernels, i \in Nat : ParamId(k, i) \in Nat
<1>0. Kernels \in Nat
  BY KernelAssumption
<1>1. PICK m \in Nat : m = MaxParams
  BY MaxParamsIs
<1>2. PICK p \in Nat : p = Kernels * m
  BY <1>0
<1>3. FirstId = 2 + Kernels + p
  BY <1>1, <1>2 DEF FirstId
<1>4. \A k \in 0..Kernels : EntpId(k) = k + 1
  BY <1>0 DEF EntpId
<1>5. ASSUME NEW k \in 1..Kernels, NEW i \in Nat
      PROVE  ParamId(k, i) \in Nat
  <2>1. PICK q \in Nat : q = k - 1
    BY <1>0
  <2>2. PICK r \in Nat : r = q * m
    OBVIOUS
  <2>3. ParamId(k, i) = 1 + Kernels + r + i
    BY <1>1, <2>1, <2>2 DEF ParamId
  <2>4. QED
    BY <1>0, <2>3
<1>6. QED
  BY <1>0, <1>3, <1>4, <1>5
------------------------------------------------------------------------------
(***************************************************************************)
(* The cursor table.                                                       *)
(***************************************************************************)
LEMMA SlotIs ==
    /\ \A x \in Slot : /\ x.key \in CursorT /\ x.id \in Nat /\ x.init \in Nat
                       /\ x.alloc \in BOOLEAN /\ x.number \in BOOLEAN
    /\ EmptySlot \in Slot /\ EmptySlot.key = NoCursor /\ EmptySlot.id = 0 /\ EmptySlot.key.kind = "none"
    /\ EmptySlot.key.fn = 0
BY KernelAssumption DEF Slot, CursorT, EmptySlot, NoCursor, Cursor

LEMMA Greatest ==
    ASSUME NEW n \in Nat, NEW T \in SUBSET (1..n), T # {}
    PROVE  \E x \in T : \A y \in T : y <= x
<1> DEFINE U == {b \in Nat : \A y \in T : y <= b}
<1>1. n \in U
  OBVIOUS
<1>2. PICK b \in U : \A a \in U : b <= a
  <2> U \in SUBSET Nat /\ U # {}
    BY <1>1
  <2> HIDE DEF U
  <2>1. QED
    BY Least
<1>3. b \in T
  <2> SUFFICES ASSUME b \notin T PROVE FALSE
    OBVIOUS
  <2>1. \A y \in T : y \in Nat /\ y <= b /\ y # b /\ y >= 1
    BY <1>2
  <2>2. b - 1 \in Nat /\ \A y \in T : y <= b - 1
    <3>1. PICK z \in T : TRUE
      OBVIOUS
    <3>2. b \in Nat /\ z \in Nat /\ z >= 1 /\ z <= b
      BY <2>1
    <3>3. \A y \in Nat : y <= b /\ y # b => y <= b - 1
      BY <3>2
    <3>4. QED
      BY <2>1, <3>2, <3>3
  <2>3. b - 1 \in U
    BY <2>2
  <2>4. b <= b - 1
    BY <1>2, <2>3
  <2>5. QED
    BY <2>4, <1>2
<1>4. QED
  BY <1>2, <1>3

LEMMA FindInIs ==
    ASSUME NEW s, NEW n \in Nat, NEW c, NEW k, k = FindIn(s, n, c)
    PROVE  \/ k = 0 /\ \A i \in 1..n : ~(i <= Len(s) /\ s[i].key = c)
           \/ k \in 1..n /\ k <= Len(s) /\ s[k].key = c
<1> DEFINE hits == { i \in 1..n : i <= Len(s) /\ s[i].key = c }
<1>1. CASE hits = {}
  <2>1. k = 0
    BY <1>1 DEF FindIn
  <2>2. QED
    BY <1>1, <2>1
<1>2. CASE hits # {}
  <2>1. k = CHOOSE i \in hits : \A j \in hits : j <= i
    BY <1>2 DEF FindIn
  <2>2. \E i \in hits : \A j \in hits : j <= i
    <3> hits \in SUBSET (1..n)
      OBVIOUS
    <3> HIDE DEF hits
    <3>1. QED
      BY <1>2, Greatest
  <2>3. k \in hits
    <3> HIDE DEF hits
    <3>1. QED
      BY <2>1, <2>2, Zenon
  <2>4. QED
    BY <2>3
<1>3. QED
  BY <1>1, <1>2

\* Cursor c is in slot i of the window.
Found(s, n, t, k, c, i) ==
    /\ t = s /\ k = n
    /\ i \in 1..n /\ i <= Len(s) /\ s[i].key = c

\* Cursor c gets the slot after the window, with what is in it.
Added(s, n, t, k, c, i) ==
    /\ t \in Seq(Slot) /\ k = n + 1 /\ i = n + 1
    /\ i <= Len(t) /\ Len(s) <= Len(t)
    /\ \A j \in 1..n : ~(j <= Len(s) /\ s[j].key = c)
    /\ \A j \in 1..Len(t) : j # i => t[j] = IF j <= Len(s) THEN s[j] ELSE EmptySlot
    /\ t[i].key = c
    /\ t[i].id = SlotAt(s, i).id /\ t[i].init = SlotAt(s, i).init
    /\ t[i].alloc = SlotAt(s, i).alloc /\ t[i].number = SlotAt(s, i).number

LEMMA SlotAtIs ==
    ASSUME NEW s \in Seq(Slot), NEW i \in Nat \ {0}
    PROVE  SlotAt(s, i) \in Slot /\ SlotAt(s, i) = IF i <= Len(s) THEN s[i] ELSE EmptySlot
<1>1. PICK n \in Nat : n = Len(s) /\ DOMAIN s = 1..n
  OBVIOUS
<1>2. i <= n => s[i] \in Slot
  BY <1>1
<1> HIDE DEF Slot
<1>3. QED
  BY <1>1, <1>2, SlotIs DEF SlotAt

LEMMA MkInIs ==
    ASSUME NEW s \in Seq(Slot), NEW n \in Nat, NEW c \in CursorT, NEW m, m = MkIn(s, n, c)
    PROVE  \/ m.new /\ Added(s, n, m.slots, m.num, c, m.idx)
           \/ ~m.new /\ Found(s, n, m.slots, m.num, c, m.idx)
<1>1. PICK hit : hit = FindIn(s, n, c)
  OBVIOUS
<1>2. \/ hit = 0 /\ \A i \in 1..n : ~(i <= Len(s) /\ s[i].key = c)
      \/ hit \in 1..n /\ hit <= Len(s) /\ s[hit].key = c
  BY <1>1, FindInIs
<1>3. CASE hit # 0
  <2>1. m = [slots |-> s, num |-> n, idx |-> hit, new |-> FALSE]
    BY <1>1, <1>3 DEF MkIn
  <2>2. QED
    BY <1>2, <1>3, <2>1 DEF Found
<1>4. CASE hit = 0
  <2>1. PICK l \in Nat : l = Len(s) /\ DOMAIN s = 1..l
    OBVIOUS
  <2>2. PICK size \in Nat : size = IF Len(s) > n THEN Len(s) ELSE n + 1
    BY <2>1
  <2>3. size >= l /\ size >= n + 1 /\ n + 1 \in 1..size /\ n + 1 \in Nat \ {0}
    BY <2>1, <2>2
  <2> DEFINE at(i) == IF i = n + 1 THEN [SlotAt(s, i) EXCEPT !.key = c] ELSE SlotAt(s, i)
             t == [i \in 1..size |-> at(i)]
  <2>4. m = [slots |-> t, num |-> n + 1, idx |-> n + 1, new |-> TRUE]
    BY <1>1, <1>4, <2>2 DEF MkIn
  <2>5. \A i \in 1..size : SlotAt(s, i) \in Slot /\ SlotAt(s, i) = IF i <= Len(s) THEN s[i] ELSE EmptySlot
    BY SlotAtIs
  <2>6. PICK z \in Slot : z = SlotAt(s, n + 1)
    BY <2>3, <2>5
  <2>15. PICK y : y = [z EXCEPT !.key = c]
    OBVIOUS
  <2>7. /\ y \in Slot /\ y = [z EXCEPT !.key = c] /\ y.key = c /\ y.id = z.id /\ y.init = z.init
        /\ y.alloc = z.alloc /\ y.number = z.number
    BY <2>15 DEF Slot, CursorT
  <2> HIDE DEF Slot
  <2>8. \A i \in 1..size : at(i) \in Slot
    BY <2>5, <2>6, <2>7
  <2>9. t \in Seq(Slot) /\ Len(t) = size /\ \A i \in 1..size : t[i] = at(i)
    <3> HIDE DEF at
    <3>1. QED
      BY <2>8
  <2>10. t[n + 1] = y
    BY <2>3, <2>6, <2>7, <2>9
  <2>11. \A i \in 1..size : i # n + 1 => t[i] = IF i <= Len(s) THEN s[i] ELSE EmptySlot
    BY <2>5, <2>9
  <2> HIDE DEF t, at
  <2>12. Added(s, n, t, n + 1, c, n + 1)
    BY <1>2, <1>4, <2>1, <2>3, <2>6, <2>7, <2>9, <2>10, <2>11 DEF Added
  <2>13. m.slots = t /\ m.num = n + 1 /\ m.idx = n + 1 /\ m.new
    BY <2>4
  <2>14. QED
    BY <2>12, <2>13
<1>5. QED
  BY <1>3, <1>4
------------------------------------------------------------------------------
(***************************************************************************)
(* The inductive invariant of the table, as predicates of a kernel f, the  *)
(* slots s, the window's size n, the next id x, the code E, whether l some *)
(* statement was given up and the cursors v visited.  Flag e says that the *)
(* kernel is to be entered, b that its body is being visited.              *)
(***************************************************************************)
\* Every key of the kernel is in the window and is the key of one slot.
KeysAt(f, e, s, n) ==
    /\ \A i \in 1..Len(s) : s[i].key.fn = 0 \/ s[i].key.fn >= f
    /\ f # 0 => /\ \A i \in 1..Len(s) : s[i].key.fn = f => i <= n /\ ~e
                /\ \A i, j \in 1..Len(s) : s[i].key.fn = f /\ s[i].key = s[j].key => i = j

\* Ids are below the counter, and above those of the functions to come.
BoundAt(f, e, s, x, E, l) ==
    /\ \A i \in 1..Len(s) : s[i].id < x
    /\ \A y \in E : y.id < x
    /\ \A y \in E : y.id # 0 => \/ y.id > f + 1
                                \/ y.id = f + 1 /\ ~e
                                \/ l /\ y.op = "Variable"

\* Id k is no result yet.
Free(k, E, l) == \A y \in E : y.id = k => l /\ y.op = "Variable"

IsLabel(f, s, i) == s[i].key.fn = f /\ s[i].key.kind = "label"
IsPending(s, i) == s[i].key.kind = "var" /\ ~s[i].alloc

\* The id of a label is its own and is no result before the label is visited.
LabelsAt(f, s, E, l, v) ==
    /\ \A i \in 1..Len(s) : IsLabel(f, s, i) => s[i].id >= FirstId
    /\ \A i \in 1..Len(s) : IsLabel(f, s, i) /\ s[i].key \notin v => Free(s[i].id, E, l)
    /\ \A i, j \in 1..Len(s) :
          IsLabel(f, s, i) /\ s[i].key \notin v /\ IsLabel(f, s, j) /\ i # j => s[i].id # s[j].id

\* The id of a variable is its own and is no result before the variable is
\* told, whichever function it was left over from.
PendingsAt(f, b, s, E) ==
    /\ \A i \in 1..Len(s) : IsPending(s, i) => s[i].id >= FirstId /\ Free(s[i].id, E, FALSE)
    /\ \A i, j \in 1..Len(s) : IsPending(s, i) /\ IsPending(s, j) /\ i # j => s[i].id # s[j].id
    /\ b => \A i, j \in 1..Len(s) : IsPending(s, i) /\ IsLabel(f, s, j) => s[i].id # s[j].id

WaitingAt(f, b, s, E, l) == ~l => PendingsAt(f, b, s, E)

TableOK(f, e, b, s, n, x, E, l, v) ==
    /\ KeysAt(f, e, s, n)
    /\ BoundAt(f, e, s, x, E, l)
    /\ b => LabelsAt(f, s, E, l, v)
    /\ WaitingAt(f, b, s, E, l)

(***************************************************************************)
(* What a statement does to the table s: it tells the variables of the     *)
(* slots T and gives at most one slot, i, to cursor c.                     *)
(***************************************************************************)
SameSlot(s, t, T, j) ==
    /\ j <= Len(s) /\ t[j].key = s[j].key /\ t[j].id = s[j].id
    /\ t[j].alloc <=> s[j].alloc \/ j \in T

BlankSlot(t, j) == t[j].key = NoCursor /\ t[j].id = 0

GivenSlot(s, n, t, k, c, i) ==
    /\ t[i].key = c
    /\ \/ /\ i = n + 1 /\ k = n + 1
          /\ \A j \in 1..n : ~(j <= Len(s) /\ s[j].key = c)
       \/ i <= n /\ k = n /\ i <= Len(s) /\ s[i].key = c

Turn(s, n, t, k, T, c, i) ==
    /\ t \in Seq(Slot) /\ k \in Nat /\ n <= k
    /\ \A j \in 1..Len(t) : j # i => SameSlot(s, t, T, j) \/ BlankSlot(t, j)
    /\ i \in 1..Len(t) => GivenSlot(s, n, t, k, c, i)

LEMMA TurnKeys ==
    ASSUME NEW f \in 1..Kernels, NEW s \in Seq(Slot), NEW n \in Nat, KeysAt(f, FALSE, s, n),
           NEW t, NEW k, NEW T, NEW c \in CursorT, c.fn = f, NEW i \in Nat, Turn(s, n, t, k, T, c, i)
    PROVE  KeysAt(f, FALSE, t, k)
<1>1. PICK m \in Nat : m = Len(t) /\ DOMAIN t = 1..m
  BY DEF Turn
<1>2. PICK q \in Nat : q = Len(s) /\ DOMAIN s = 1..q
  OBVIOUS
<1>3. Kernels \in Nat /\ f \in Nat /\ f # 0 /\ NoCursor.fn = 0
  BY KernelAssumption DEF NoCursor, Cursor
<1>4. k \in Nat /\ n <= k
  BY DEF Turn
<1>5. \A j \in 1..m : j # i => \/ j \in 1..q /\ t[j].key = s[j].key
                               \/ t[j].key.fn = 0
  BY <1>1, <1>2, <1>3 DEF Turn, SameSlot, BlankSlot
<1>6. i \in 1..m => /\ t[i].key = c /\ t[i].key.fn = f
                    /\ i <= k
                    /\ \A j \in 1..q : j # i => s[j].key # c
  <2> SUFFICES ASSUME i \in 1..m
               PROVE  t[i].key = c /\ i <= k /\ \A j \in 1..q : j # i => s[j].key # c
    OBVIOUS
  <2>1. GivenSlot(s, n, t, k, c, i)
    BY <1>1 DEF Turn
  <2>2. CASE i = n + 1 /\ k = n + 1 /\ \A j \in 1..n : ~(j <= Len(s) /\ s[j].key = c)
    <3>1. \A j \in 1..q : s[j].key = c => j <= n
      BY <1>2, <1>3 DEF KeysAt
    <3>2. \A j \in 1..q : j <= n => j \in 1..n /\ j <= Len(s)
      BY <1>2
    <3>3. QED
      BY <2>1, <2>2, <3>1, <3>2 DEF GivenSlot
  <2>3. CASE i <= n /\ k = n /\ i <= Len(s) /\ s[i].key = c
    <3>1. i \in 1..q
      BY <1>2, <2>3
    <3>2. \A j \in 1..q : s[j].key = c => j = i
      BY <1>2, <1>3, <2>3, <3>1 DEF KeysAt
    <3>3. QED
      BY <2>1, <2>3, <3>2 DEF GivenSlot
  <2>4. QED
    BY <2>1, <2>2, <2>3 DEF GivenSlot
<1>7. \A j \in 1..m : t[j].key.fn = 0 \/ t[j].key.fn >= f
  BY <1>2, <1>3, <1>5, <1>6 DEF KeysAt
<1>8. \A j \in 1..m : t[j].key.fn = f => j <= k
  <2>1. \A j \in 1..q : s[j].key.fn = f => j <= n
    BY <1>2, <1>3 DEF KeysAt
  <2>2. \A j \in 1..m : j \in Nat
    OBVIOUS
  <2>3. \A j \in 1..m : j # i /\ t[j].key.fn = f => j <= n
    BY <1>3, <1>5, <2>1
  <2>4. QED
    BY <1>4, <1>6, <2>2, <2>3
<1>9. \A g, h \in 1..m : t[g].key.fn = f /\ t[g].key = t[h].key => g = h
  <2> SUFFICES ASSUME NEW g \in 1..m, NEW h \in 1..m, t[g].key.fn = f, t[g].key = t[h].key, g # h
               PROVE  FALSE
    OBVIOUS
  <2>1. \A j, z \in 1..q : s[j].key.fn = f /\ s[j].key = s[z].key => j = z
    BY <1>2, <1>3 DEF KeysAt
  <2>2. CASE g # i /\ h # i
    BY <1>3, <1>5, <2>1, <2>2
  <2>3. CASE g = i
    BY <1>3, <1>5, <1>6, <2>3
  <2>4. CASE h = i
    BY <1>3, <1>5, <1>6, <2>4
  <2>5. QED
    BY <2>2, <2>3, <2>4
<1>10. QED
  BY <1>1, <1>7, <1>8, <1>9 DEF KeysAt

\* Cursors whose slot may keep the id it has.
Loose(c, l2) == c.kind = "expr" \/ (c.kind = "var" /\ l2)

\* The id of slot i: a new one, or what was there, where that does not matter.
GivenId(s, t, c, i, x, x2, l2) ==
    \/ t[i].id = x /\ x < x2
    \/ t[i].id = SlotAt(s, i).id /\ Loose(c, l2)

\* The results of a statement: new ids, the variables told, a label visited.
NewId(y, f, s, t, T, c, i, x, x2, v, v2) ==
    \/ y.id = 0
    \/ /\ y.id >= x /\ y.id < x2
       /\ i \in 1..Len(t) /\ t[i].id = y.id => c.kind = "label" /\ c \in v2
    \/ y.op = "Variable" /\ \E j \in T : y.id = s[j].id
    \/ \E j \in 1..Len(s) : IsLabel(f, s, j) /\ s[j].key \notin v /\ s[j].key \in v2 /\ y.id = s[j].id

Pendings(s) == { j \in 1..Len(s) : IsPending(s, j) }

Nats(E) == \A y \in E : y.id \in Nat

\* A statement, from the table s and the code E.
Statement(f, s, n, x, E, l, v, t, k, x2, E2, l2, v2, T, c, i) ==
    /\ Turn(s, n, t, k, T, c, i)
    /\ i \in 1..Len(t) => GivenId(s, t, c, i, x, x2, l2)
    /\ x2 \in Nat /\ x <= x2
    /\ T \subseteq Pendings(s)
    /\ l => l2
    /\ v \subseteq v2
    /\ Nats(E2)
    /\ \A y \in E2 : y \in E \/ NewId(y, f, s, t, T, c, i, x, x2, v, v2)

\* The table before and after, with every id a natural.
Numbers(s, t, m, q) ==
    /\ m = Len(t) /\ DOMAIN t = 1..m
    /\ q = Len(s) /\ DOMAIN s = 1..q
    /\ \A j \in 1..m : t[j].id \in Nat
    /\ \A j \in 1..q : s[j].id \in Nat

LEMMA NumbersIs ==
    ASSUME NEW s \in Seq(Slot), NEW t \in Seq(Slot)
    PROVE  \E m, q \in Nat : Numbers(s, t, m, q)
<1>1. PICK m \in Nat : m = Len(t) /\ DOMAIN t = 1..m
  OBVIOUS
<1>2. PICK q \in Nat : q = Len(s) /\ DOMAIN s = 1..q
  OBVIOUS
<1>3. \A j \in 1..m : t[j] \in Slot
  BY <1>1
<1>4. \A j \in 1..q : s[j] \in Slot
  BY <1>2
<1> HIDE DEF Slot
<1>5. Numbers(s, t, m, q)
  BY <1>1, <1>2, <1>3, <1>4, SlotIs DEF Numbers
<1>6. QED
  BY <1>5

\* Where the slots of t are from.
SlotFrom(s, t, T, c, i, q, j) ==
    \/ j # i /\ j \in 1..q /\ SameSlot(s, t, T, j)
    \/ j # i /\ BlankSlot(t, j)
    \/ j = i /\ t[i].key = c

IdFrom(s, t, c, i, x, x2, l2, q) ==
    \/ t[i].id = x /\ x < x2
    \/ i \in 1..q /\ t[i].id = s[i].id /\ Loose(c, l2)
    \/ t[i].id = 0 /\ Loose(c, l2)

LEMMA TurnSlots ==
    ASSUME NEW s, NEW n \in Nat, NEW t, NEW k, NEW T, NEW c, NEW i, NEW m \in Nat, NEW q \in Nat,
           Numbers(s, t, m, q), Turn(s, n, t, k, T, c, i), NEW x \in Nat, NEW x2, NEW l2,
           i \in 1..m => GivenId(s, t, c, i, x, x2, l2)
    PROVE  /\ \A j \in 1..m : SlotFrom(s, t, T, c, i, q, j)
           /\ i \in 1..m => IdFrom(s, t, c, i, x, x2, l2, q)
<1>1. \A j \in 1..m : j # i => SameSlot(s, t, T, j) \/ BlankSlot(t, j)
  BY DEF Numbers, Turn
<1>2. \A j \in 1..m : SameSlot(s, t, T, j) => j \in 1..q
  BY DEF Numbers, SameSlot
<1>3. ASSUME i \in 1..m
      PROVE  /\ t[i].key = c
             /\ \/ t[i].id = x /\ x < x2
                \/ i \in 1..q /\ t[i].id = s[i].id /\ Loose(c, l2)
                \/ t[i].id = 0 /\ Loose(c, l2)
  <2>1. t[i].key = c
    BY <1>3 DEF Numbers, Turn, GivenSlot
  <2>2. GivenId(s, t, c, i, x, x2, l2)
    BY <1>3
  <2>3. SlotAt(s, i) = IF i <= q THEN s[i] ELSE EmptySlot
    BY DEF SlotAt, Numbers
  <2>4. i <= q => i \in 1..q
    BY <1>3
  <2>5. EmptySlot.id = 0
    BY DEF EmptySlot
  <2>6. QED
    BY <2>1, <2>2, <2>3, <2>4, <2>5 DEF GivenId
<1>4. \A j \in 1..m : SlotFrom(s, t, T, c, i, q, j)
  BY <1>1, <1>2, <1>3 DEF SlotFrom
<1>5. QED
  BY <1>3, <1>4 DEF IdFrom

\* The state a statement starts from.
Before(f, s, n, x, E, l, v) ==
    /\ TableOK(f, FALSE, TRUE, s, n, x, E, l, v)
    /\ s \in Seq(Slot) /\ n \in Nat /\ x \in Nat /\ FirstId <= x
    /\ Nats(E)

LEMMA TurnBound ==
    ASSUME NEW f \in 1..Kernels, NEW s, NEW n, NEW x, NEW E, NEW l, NEW v, Before(f, s, n, x, E, l, v),
           NEW t, NEW k, NEW x2, NEW E2, NEW l2, NEW v2, NEW T, NEW c \in CursorT, NEW i \in Nat,
           Statement(f, s, n, x, E, l, v, t, k, x2, E2, l2, v2, T, c, i)
    PROVE  BoundAt(f, FALSE, t, x2, E2, l2)
<1>0. /\ s \in Seq(Slot) /\ n \in Nat /\ x \in Nat /\ t \in Seq(Slot) /\ x2 \in Nat /\ x <= x2
      /\ FirstId <= x /\ Nats(E)
  BY DEF Before, Statement, Turn
<1>1. PICK m, q \in Nat : Numbers(s, t, m, q)
  BY <1>0, NumbersIs
<1>2. \A j \in 1..q : s[j].id < x /\ s[j].id \in Nat
  BY <1>1 DEF Before, TableOK, BoundAt, Numbers
<1>3. ASSUME NEW j \in 1..m
      PROVE  t[j].id < x2
  <2>1. Turn(s, n, t, k, T, c, i) /\ (i \in 1..m => GivenId(s, t, c, i, x, x2, l2))
    BY <1>1 DEF Statement, Numbers
  <2>2. SlotFrom(s, t, T, c, i, q, j) /\ (i \in 1..m => IdFrom(s, t, c, i, x, x2, l2, q))
    BY <1>0, <1>1, <2>1, TurnSlots
  <2>3. (t[j].id = x /\ x < x2) \/ t[j].id = 0 \/ \E g \in 1..q : t[j].id = s[g].id
    BY <2>2 DEF SameSlot, SlotFrom, IdFrom, BlankSlot
  <2>4. 0 < x
    BY <1>0, IdsAre
  <2>5. \A g \in 1..q : s[g].id < x2
    BY <1>0, <1>2
  <2>6. QED
    BY <1>0, <2>3, <2>4, <2>5
<1>4. f \in Nat /\ f + 1 < FirstId /\ FirstId \in Nat
  BY IdsAre
<1>5. ASSUME NEW y \in E2
      PROVE  y.id < x2 /\ (y.id # 0 => y.id > f + 1 \/ y.id = f + 1 \/ (l2 /\ y.op = "Variable"))
  <2>1. y \in E \/ NewId(y, f, s, t, T, c, i, x, x2, v, v2)
    BY DEF Statement
  <2>2. CASE y \in E
    <3>1. y.id \in Nat /\ y.id < x
      BY <2>2 DEF Before, TableOK, BoundAt, Nats
    <3>2. y.id # 0 => y.id > f + 1 \/ y.id = f + 1 \/ (l /\ y.op = "Variable")
      BY <2>2 DEF Before, TableOK, BoundAt
    <3>3. l => l2
      BY DEF Statement
    <3>4. QED
      BY <1>0, <3>1, <3>2, <3>3
  <2>3. CASE y.id = 0
    BY <1>0, <1>4, <2>3
  <2>4. CASE y.id >= x /\ y.id < x2
    <3>1. PICK r \in Nat : r = y.id
      BY DEF Statement, Nats
    <3>2. r > f + 1
      BY <1>0, <1>4, <2>4, <3>1
    <3>3. QED
      BY <2>4, <3>1, <3>2
  <2>5. CASE y.op = "Variable" /\ \E j \in T : y.id = s[j].id
    <3>1. PICK j \in T : y.id = s[j].id
      BY <2>5
    <3>2. j \in 1..q /\ IsPending(s, j)
      BY <1>1 DEF Statement, Pendings, Numbers
    <3>3. ~l => s[j].id >= FirstId
      BY <1>1, <3>2 DEF Before, TableOK, WaitingAt, PendingsAt, Numbers
    <3>4. l => l2
      BY DEF Statement
    <3>5. QED
      BY <1>0, <1>2, <1>4, <2>5, <3>1, <3>2, <3>3, <3>4, SMTT(30)
  <2>6. CASE \E j \in 1..Len(s) : IsLabel(f, s, j) /\ y.id = s[j].id
    <3>1. PICK j \in 1..q : IsLabel(f, s, j) /\ y.id = s[j].id
      BY <1>1, <2>6 DEF Numbers
    <3>2. s[j].id >= FirstId
      BY <1>1, <3>1 DEF Before, TableOK, LabelsAt, Numbers
    <3>3. QED
      BY <1>0, <1>2, <1>4, <3>1, <3>2, SMTT(30)
  <2>7. QED
    BY <2>1, <2>2, <2>3, <2>4, <2>5, <2>6 DEF NewId
<1>6. QED
  BY <1>1, <1>3, <1>5 DEF BoundAt, Numbers

\* What the proofs below use of a statement.
Facts(s, t, T, c, i, x, x2, l2, m, q, E) ==
    /\ Numbers(s, t, m, q)
    /\ \A j \in 1..m : SlotFrom(s, t, T, c, i, q, j)
    /\ i \in 1..m => IdFrom(s, t, c, i, x, x2, l2, q)
    /\ \A j \in 1..q : s[j].id < x /\ s[j].id \in Nat
    /\ \A y \in E : y.id < x /\ y.id \in Nat
    /\ x \in Nat /\ FirstId <= x /\ FirstId \in Nat /\ 0 < FirstId

LEMMA FactsHold ==
    ASSUME NEW f \in 1..Kernels, NEW s, NEW n, NEW x, NEW E, NEW l, NEW v, Before(f, s, n, x, E, l, v),
           NEW t, NEW k, NEW x2, NEW E2, NEW l2, NEW v2, NEW T, NEW c \in CursorT, NEW i \in Nat,
           Statement(f, s, n, x, E, l, v, t, k, x2, E2, l2, v2, T, c, i)
    PROVE  \E m, q \in Nat : Facts(s, t, T, c, i, x, x2, l2, m, q, E)
<1>1. /\ s \in Seq(Slot) /\ n \in Nat /\ x \in Nat /\ t \in Seq(Slot) /\ x2 \in Nat /\ x <= x2
      /\ FirstId <= x /\ Nats(E)
  BY DEF Before, Statement, Turn
<1>2. PICK m, q \in Nat : Numbers(s, t, m, q)
  BY <1>1, NumbersIs
<1>3. \A j \in 1..q : s[j].id < x /\ s[j].id \in Nat
  BY <1>2 DEF Before, TableOK, BoundAt, Numbers
<1>4. Turn(s, n, t, k, T, c, i) /\ (i \in 1..m => GivenId(s, t, c, i, x, x2, l2))
  BY <1>2 DEF Statement, Numbers
<1>5. (\A j \in 1..m : SlotFrom(s, t, T, c, i, q, j)) /\ (i \in 1..m => IdFrom(s, t, c, i, x, x2, l2, q))
  BY <1>1, <1>2, <1>4, TurnSlots
<1>6. \A y \in E : y.id < x /\ y.id \in Nat
  BY <1>1 DEF Before, TableOK, BoundAt, Nats
<1>7. FirstId \in Nat /\ 0 < FirstId
  BY IdsAre
<1>8. Facts(s, t, T, c, i, x, x2, l2, m, q, E)
  BY <1>1, <1>2, <1>3, <1>5, <1>6, <1>7 DEF Facts
<1>9. QED
  BY <1>8

\* The slots of the kernel's labels: their ids are new or were the slot's.
LEMMA LabelFrom ==
    ASSUME NEW f \in 1..Kernels, NEW s, NEW t, NEW T, NEW c, NEW i, NEW x, NEW x2, NEW l2, NEW E,
           NEW m \in Nat, NEW q \in Nat, Facts(s, t, T, c, i, x, x2, l2, m, q, E),
           NEW j \in 1..m, IsLabel(f, t, j)
    PROVE  \/ j # i /\ j \in 1..q /\ IsLabel(f, s, j) /\ t[j].key = s[j].key /\ t[j].id = s[j].id
           \/ j = i /\ t[i].key = c /\ t[i].id = x
<1>1. SlotFrom(s, t, T, c, i, q, j) /\ (j = i => IdFrom(s, t, c, i, x, x2, l2, q))
  BY DEF Facts
<1>2. NoCursor.kind # "label"
  BY DEF NoCursor, Cursor
<1>3. CASE j # i
  BY <1>1, <1>2, <1>3 DEF SlotFrom, SameSlot, BlankSlot, IsLabel
<1>4. CASE j = i
  BY <1>1, <1>4 DEF SlotFrom, IdFrom, Loose, IsLabel
<1>5. QED
  BY <1>3, <1>4

\* The slots of the variables without a declaration.
LEMMA PendingFrom ==
    ASSUME NEW s, NEW t, NEW T, NEW c, NEW i, NEW x, NEW x2, NEW l2, ~l2, NEW E,
           NEW m \in Nat, NEW q \in Nat, Facts(s, t, T, c, i, x, x2, l2, m, q, E),
           NEW j \in 1..m, IsPending(t, j)
    PROVE  \/ j # i /\ j \in 1..q /\ IsPending(s, j) /\ j \notin T /\ t[j].id = s[j].id
           \/ j = i /\ t[i].key = c /\ c.kind = "var" /\ t[i].id = x
<1>1. SlotFrom(s, t, T, c, i, q, j) /\ (j = i => IdFrom(s, t, c, i, x, x2, l2, q))
  BY DEF Facts
<1>2. NoCursor.kind # "var"
  BY DEF NoCursor, Cursor
<1>3. CASE j # i
  BY <1>1, <1>2, <1>3 DEF SlotFrom, SameSlot, BlankSlot, IsPending
<1>4. CASE j = i
  BY <1>1, <1>4 DEF SlotFrom, IdFrom, Loose, IsPending
<1>5. QED
  BY <1>3, <1>4

LEMMA TurnLabels ==
    ASSUME NEW f \in 1..Kernels, NEW s, NEW n, NEW x, NEW E, NEW l, NEW v, Before(f, s, n, x, E, l, v),
           NEW t, NEW k, NEW x2, NEW E2, NEW l2, NEW v2, NEW T, NEW c \in CursorT, NEW i \in Nat,
           Statement(f, s, n, x, E, l, v, t, k, x2, E2, l2, v2, T, c, i)
    PROVE  LabelsAt(f, t, E2, l2, v2)
<1>1. PICK m, q \in Nat : Facts(s, t, T, c, i, x, x2, l2, m, q, E)
  BY FactsHold
<1> DEFINE Old(j) == j # i /\ j \in 1..q /\ IsLabel(f, s, j) /\ t[j].key = s[j].key /\ t[j].id = s[j].id
           New(j) == j = i /\ t[i].key = c /\ t[i].id = x
<1>2. \A j \in 1..m : IsLabel(f, t, j) => Old(j) \/ New(j)
  BY <1>1, LabelFrom
<1>3. /\ \A j \in 1..q : IsLabel(f, s, j) => s[j].id >= FirstId
      /\ \A j \in 1..q : IsLabel(f, s, j) /\ s[j].key \notin v => Free(s[j].id, E, l)
      /\ \A j, g \in 1..q : IsLabel(f, s, j) /\ s[j].key \notin v /\ IsLabel(f, s, g) /\ j # g => s[j].id # s[g].id
  BY <1>1 DEF Before, TableOK, LabelsAt, Facts, Numbers
<1>4. /\ \A j \in 1..q : s[j].id < x /\ s[j].id \in Nat
      /\ \A y \in E : y.id < x /\ y.id \in Nat
      /\ x \in Nat /\ FirstId <= x /\ FirstId \in Nat /\ 0 < FirstId
      /\ Len(s) = q /\ Len(t) = m
  BY <1>1 DEF Facts, Numbers
<1>5. v \subseteq v2 /\ (l => l2) /\ T \subseteq Pendings(s) /\ Nats(E2)
  BY DEF Statement
<1>6. \A j \in 1..m : IsLabel(f, t, j) => t[j].id >= FirstId
  BY <1>2, <1>3, <1>4
<1>7. ASSUME NEW j \in 1..m, IsLabel(f, t, j), t[j].key \notin v2, NEW y \in E2, y.id = t[j].id
      PROVE  l2 /\ y.op = "Variable"
  <2>1. y \in E \/ NewId(y, f, s, t, T, c, i, x, x2, v, v2)
    BY DEF Statement
  <2>2. CASE Old(j)
    <3>1. PICK a \in Nat : a = s[j].id /\ a < x /\ a >= FirstId
      BY <1>3, <1>4, <1>7, <2>2
    <3>2. s[j].key \notin v /\ s[j].key \notin v2 /\ y.id = a
      BY <1>5, <1>7, <2>2, <3>1
    <3>3. CASE y \in E
      BY <1>3, <1>5, <2>2, <3>1, <3>2, <3>3 DEF Free
    <3>4. CASE y.id = 0 \/ (y.id >= x /\ y.id < x2)
      BY <1>4, <3>1, <3>2, <3>4
    <3>5. CASE y.op = "Variable" /\ \E g \in T : y.id = s[g].id
      <4>1. PICK g \in T : y.id = s[g].id
        BY <3>5
      <4>2. g \in 1..q /\ IsPending(s, g)
        BY <1>4, <1>5 DEF Pendings
      <4>3. ~l => s[g].id # s[j].id
        BY <1>4, <2>2, <4>2 DEF Before, TableOK, WaitingAt, PendingsAt
      <4>4. QED
        BY <1>5, <3>1, <3>2, <3>5, <4>1, <4>3
    <3>6. CASE \E g \in 1..Len(s) : IsLabel(f, s, g) /\ s[g].key \notin v /\ s[g].key \in v2 /\ y.id = s[g].id
      BY <1>3, <1>4, <2>2, <3>1, <3>2, <3>6
    <3>7. QED
      BY <2>1, <3>3, <3>4, <3>5, <3>6 DEF NewId
  <2>3. CASE New(j)
    <3>1. y.id = x /\ i \in 1..Len(t) /\ c \notin v2 /\ t[i].id = y.id
      BY <1>4, <1>7, <2>3
    <3>2. CASE y \in E
      BY <1>4, <3>1, <3>2
    <3>3. CASE y.id = 0
      BY <1>4, <3>1, <3>3
    <3>4. CASE \E g \in T : y.id = s[g].id
      BY <1>4, <1>5, <3>1, <3>4 DEF Pendings
    <3>5. CASE \E g \in 1..Len(s) : IsLabel(f, s, g) /\ y.id = s[g].id
      BY <1>4, <3>1, <3>5
    <3>6. QED
      BY <2>1, <3>1, <3>2, <3>3, <3>4, <3>5 DEF NewId
  <2>4. QED
    BY <1>2, <1>7, <2>2, <2>3
<1>8. ASSUME NEW j \in 1..m, NEW g \in 1..m, IsLabel(f, t, j), t[j].key \notin v2, IsLabel(f, t, g), j # g
      PROVE  t[j].id # t[g].id
  <2>1. CASE Old(j) /\ Old(g)
    BY <1>3, <1>5, <1>8, <2>1
  <2>2. CASE Old(j) /\ New(g)
    BY <1>4, <2>2
  <2>3. CASE New(j) /\ Old(g)
    BY <1>4, <2>3
  <2>4. QED
    BY <1>2, <1>8, <2>1, <2>2, <2>3
<1> HIDE DEF Old, New
<1>9. QED
  BY <1>4, <1>6, <1>7, <1>8 DEF LabelsAt, Free

LEMMA TurnPendings ==
    ASSUME NEW f \in 1..Kernels, NEW s, NEW n, NEW x, NEW E, NEW l, NEW v, Before(f, s, n, x, E, l, v),
           NEW t, NEW k, NEW x2, NEW E2, NEW l2, NEW v2, NEW T, NEW c \in CursorT, NEW i \in Nat,
           Statement(f, s, n, x, E, l, v, t, k, x2, E2, l2, v2, T, c, i)
    PROVE  WaitingAt(f, TRUE, t, E2, l2)
<1>1. PICK m, q \in Nat : Facts(s, t, T, c, i, x, x2, l2, m, q, E)
  BY FactsHold
<1> DEFINE Old(j) == j # i /\ j \in 1..q /\ IsPending(s, j) /\ j \notin T /\ t[j].id = s[j].id
           New(j) == j = i /\ t[i].key = c /\ c.kind = "var" /\ t[i].id = x
<1>2. ASSUME NEW j \in 1..m, IsLabel(f, t, j)
      PROVE  \/ j \in 1..q /\ IsLabel(f, s, j) /\ t[j].id = s[j].id /\ j # i
             \/ j = i /\ t[i].key = c /\ c.kind = "label" /\ t[j].id = x
  <2>1. \/ j # i /\ j \in 1..q /\ IsLabel(f, s, j) /\ t[j].key = s[j].key /\ t[j].id = s[j].id
        \/ j = i /\ t[i].key = c /\ t[i].id = x
    BY <1>1, <1>2, LabelFrom
  <2>2. QED
    BY <1>2, <2>1 DEF IsLabel
<1> SUFFICES ASSUME ~l2 PROVE PendingsAt(f, TRUE, t, E2)
  BY DEF WaitingAt
<1>3. ASSUME NEW j \in 1..m, IsPending(t, j)
      PROVE  Old(j) \/ New(j)
  <2>1. \/ j # i /\ j \in 1..q /\ IsPending(s, j) /\ j \notin T /\ t[j].id = s[j].id
        \/ j = i /\ t[i].key = c /\ c.kind = "var" /\ t[i].id = x
    BY <1>1, <1>3, PendingFrom
  <2>2. QED
    BY <2>1
<1>4. v \subseteq v2 /\ ~l /\ T \subseteq Pendings(s) /\ Nats(E2)
  BY DEF Statement
<1>5. /\ \A j \in 1..q : s[j].id < x /\ s[j].id \in Nat
      /\ \A y \in E : y.id < x /\ y.id \in Nat
      /\ x \in Nat /\ FirstId <= x /\ FirstId \in Nat /\ 0 < FirstId
      /\ Len(s) = q /\ Len(t) = m
  BY <1>1 DEF Facts, Numbers
<1>6. /\ \A j \in 1..q : IsPending(s, j) => s[j].id >= FirstId /\ Free(s[j].id, E, FALSE)
      /\ \A j, g \in 1..q : IsPending(s, j) /\ IsPending(s, g) /\ j # g => s[j].id # s[g].id
      /\ \A j, g \in 1..q : IsPending(s, j) /\ IsLabel(f, s, g) => s[j].id # s[g].id
  BY <1>4, <1>5 DEF Before, TableOK, WaitingAt, PendingsAt
<1>7. \A j \in 1..m : IsPending(t, j) => t[j].id >= FirstId
  BY <1>3, <1>5, <1>6
<1>8. ASSUME NEW j \in 1..m, IsPending(t, j), NEW y \in E2, y.id = t[j].id
      PROVE  FALSE
  <2>1. y \in E \/ NewId(y, f, s, t, T, c, i, x, x2, v, v2)
    BY DEF Statement
  <2>2. CASE Old(j)
    <3>1. PICK a \in Nat : a = s[j].id /\ a < x /\ a >= FirstId /\ y.id = a
      BY <1>5, <1>6, <1>8, <2>2
    <3>2. CASE y \in E
      BY <1>6, <2>2, <3>1, <3>2 DEF Free
    <3>3. CASE y.id = 0 \/ (y.id >= x /\ y.id < x2)
      BY <1>5, <3>1, <3>3
    <3>4. CASE \E g \in T : y.id = s[g].id
      BY <1>4, <1>5, <1>6, <2>2, <3>1, <3>4 DEF Pendings
    <3>5. CASE \E g \in 1..Len(s) : IsLabel(f, s, g) /\ y.id = s[g].id
      BY <1>5, <1>6, <2>2, <3>1, <3>5
    <3>6. QED
      BY <2>1, <3>2, <3>3, <3>4, <3>5 DEF NewId
  <2>3. CASE New(j)
    <3>1. y.id = x /\ i \in 1..Len(t) /\ t[i].id = y.id /\ c.kind # "label"
      BY <1>5, <1>8, <2>3
    <3>2. CASE y \in E
      BY <1>5, <3>1, <3>2
    <3>3. CASE y.id = 0
      BY <1>5, <3>1, <3>3
    <3>4. CASE \E g \in T : y.id = s[g].id
      BY <1>4, <1>5, <3>1, <3>4 DEF Pendings
    <3>5. CASE \E g \in 1..Len(s) : IsLabel(f, s, g) /\ y.id = s[g].id
      BY <1>5, <3>1, <3>5
    <3>6. QED
      BY <2>1, <3>1, <3>2, <3>3, <3>4, <3>5 DEF NewId
  <2>4. QED
    BY <1>3, <1>8, <2>2, <2>3
<1>9. ASSUME NEW j \in 1..m, NEW g \in 1..m, IsPending(t, j), IsPending(t, g), j # g
      PROVE  t[j].id # t[g].id
  <2>1. CASE Old(j) /\ Old(g)
    BY <1>6, <1>9, <2>1
  <2>2. CASE Old(j) /\ New(g)
    BY <1>5, <2>2
  <2>3. CASE New(j) /\ Old(g)
    BY <1>5, <2>3
  <2>4. QED
    BY <1>3, <1>9, <2>1, <2>2, <2>3
<1>10. ASSUME NEW j \in 1..m, NEW g \in 1..m, IsPending(t, j), IsLabel(f, t, g)
       PROVE  t[j].id # t[g].id
  <2>1. CASE Old(j)
    BY <1>2, <1>5, <1>6, <1>10, <2>1
  <2>2. CASE New(j)
    BY <1>2, <1>5, <1>10, <2>2
  <2>3. QED
    BY <1>3, <1>10, <2>1, <2>2
<1> HIDE DEF Old, New
<1>11. QED
  BY <1>5, <1>7, <1>8, <1>9, <1>10 DEF PendingsAt, Free

\* What a statement does leaves the table in order.
LEMMA Turned ==
    ASSUME NEW f \in 1..Kernels, NEW s, NEW n, NEW x, NEW E, NEW l, NEW v, Before(f, s, n, x, E, l, v),
           NEW t, NEW k, NEW x2, NEW E2, NEW l2, NEW v2, NEW T, NEW c \in CursorT, NEW i \in Nat, c.fn = f,
           Statement(f, s, n, x, E, l, v, t, k, x2, E2, l2, v2, T, c, i)
    PROVE  Before(f, t, k, x2, E2, l2, v2)
<1>1. s \in Seq(Slot) /\ n \in Nat /\ KeysAt(f, FALSE, s, n)
  BY DEF Before, TableOK
<1>2. Turn(s, n, t, k, T, c, i) /\ Nats(E2) /\ x2 \in Nat /\ x <= x2
  BY DEF Statement
<1>3. KeysAt(f, FALSE, t, k)
  BY <1>1, <1>2, TurnKeys
<1>4. BoundAt(f, FALSE, t, x2, E2, l2)
  BY TurnBound
<1>5. LabelsAt(f, t, E2, l2, v2)
  BY TurnLabels
<1>6. WaitingAt(f, TRUE, t, E2, l2)
  BY TurnPendings
<1>7. TableOK(f, FALSE, TRUE, t, k, x2, E2, l2, v2)
  BY <1>3, <1>4, <1>5, <1>6 DEF TableOK
<1>8. t \in Seq(Slot) /\ k \in Nat
  BY <1>2 DEF Turn
<1>9. FirstId <= x2
  <2>1. FirstId <= x /\ x \in Nat /\ FirstId \in Nat
    BY IdsAre DEF Before
  <2>2. QED
    BY <1>2, <2>1
<1>10. QED
  BY <1>2, <1>7, <1>8, <1>9 DEF Before

\* The results of a statement do not clash with those before it.
LEMMA NewIsApart ==
    ASSUME NEW f \in 1..Kernels, NEW s, NEW n, NEW x, NEW E, NEW l, NEW v, Before(f, s, n, x, E, l, v),
           NEW t, NEW T, T \subseteq Pendings(s), NEW c, NEW i, NEW x2, NEW v2, NEW l2, l => l2,
           NEW y, NewId(y, f, s, t, T, c, i, x, x2, v, v2), y.id \in Nat, NEW z \in E
    PROVE  ~Hit(l2, y, z)
<1>1. SUFFICES ASSUME y.id = z.id, y.id # 0, ~(l2 /\ "Variable" \in {y.op, z.op})
               PROVE  FALSE
  BY DEF Hit
<1>2. z.id \in Nat /\ z.id < x /\ x \in Nat
  BY DEF Before, TableOK, BoundAt, Nats
<1>3. CASE y.id >= x /\ y.id < x2
  BY <1>1, <1>2, <1>3
<1>4. CASE y.op = "Variable" /\ \E j \in T : y.id = s[j].id
  <2>1. PICK j \in T : y.id = s[j].id
    BY <1>4
  <2>2. j \in 1..Len(s) /\ IsPending(s, j)
    BY DEF Pendings
  <2>3. ~l => Free(s[j].id, E, FALSE)
    BY <2>2 DEF Before, TableOK, WaitingAt, PendingsAt
  <2>4. QED
    BY <1>1, <1>4, <2>1, <2>3 DEF Free
<1>5. CASE \E j \in 1..Len(s) : IsLabel(f, s, j) /\ s[j].key \notin v /\ s[j].key \in v2 /\ y.id = s[j].id
  <2>1. PICK j \in 1..Len(s) : IsLabel(f, s, j) /\ s[j].key \notin v /\ y.id = s[j].id
    BY <1>5
  <2>2. Free(s[j].id, E, l)
    BY <2>1 DEF Before, TableOK, LabelsAt
  <2>3. QED
    BY <1>1, <2>1, <2>2 DEF Free
<1>6. QED
  BY <1>1, <1>3, <1>4, <1>5 DEF NewId

\* A section stays as it is, is lost, or has code added to it.
Grown(a, b, d) == b = a \/ b = << >> \/ b = a \o d

\* The code, in its two sections.
SectionsOK(l, a, b) ==
    /\ a \in Seq(Instruction) /\ b \in Seq(Instruction)
    /\ Uniq(l, a) /\ Uniq(l, b) /\ Apart(l, a, b)

CodeOf(a, b) == Elements(a) \cup Elements(b)

\* Once a statement was given up it stays so.
Later(l, l2) == l => l2

LEMMA Weaker ==
    ASSUME NEW l, NEW l2, Later(l, l2), NEW a, NEW b, SectionsOK(l, a, b)
    PROVE  SectionsOK(l2, a, b)
BY DEF SectionsOK, Uniq, Apart, Hit, Later

ApartFrom(l2, d, e, a, b) == \A y \in Elements(d) \cup Elements(e), z \in CodeOf(a, b) : ~Hit(l2, y, z)

LEMMA Grow ==
    ASSUME NEW l, NEW l2, Later(l, l2), NEW a, NEW b, SectionsOK(l, a, b),
           NEW a2, NEW b2, NEW d \in Seq(Instruction), NEW e \in Seq(Instruction), Grown(a, a2, d), Grown(b, b2, e),
           Uniq(l2, d), Uniq(l2, e), Apart(l2, d, e),
           ApartFrom(l2, d, e, a, b)
    PROVE  /\ SectionsOK(l2, a2, b2)
           /\ CodeOf(a2, b2) \subseteq CodeOf(a, b) \cup (Elements(d) \cup Elements(e))
<1>1. SectionsOK(l2, a, b)
  BY Weaker
<1>2. /\ << >> \in Seq(Instruction) /\ Uniq(l2, << >>)
      /\ Elements(<< >>) = {}
  BY DEF Uniq, Elements
<1>3. Apart(l2, a, d) /\ Apart(l2, b, e) /\ Apart(l2, a, e) /\ Apart(l2, d, b)
  BY HitSymmetric DEF Apart, CodeOf, ApartFrom
<1>4. a2 \in Seq(Instruction) /\ Uniq(l2, a2) /\ Elements(a2) \subseteq Elements(a) \cup Elements(d)
  <2>1. CASE a2 = << >>
    BY <1>2, <2>1
  <2>2. CASE a2 = a \o d
    <3>1. a \in Seq(Instruction) /\ Uniq(l2, a)
      BY <1>1 DEF SectionsOK
    <3>2. a2 \in Seq(Instruction) /\ Elements(a2) = Elements(a) \cup Elements(d)
      BY <2>2, <3>1, ElementsConcat
    <3>3. Uniq(l2, a \o d)
      BY <1>3, <3>1, UniqConcat
    <3>4. QED
      BY <2>2, <3>2, <3>3
  <2>3. CASE a2 = a
    BY <1>1, <2>3 DEF SectionsOK
  <2>4. QED
    BY <2>1, <2>2, <2>3 DEF Grown
<1>5. b2 \in Seq(Instruction) /\ Uniq(l2, b2) /\ Elements(b2) \subseteq Elements(b) \cup Elements(e)
  <2>1. CASE b2 = << >>
    BY <1>2, <2>1
  <2>2. CASE b2 = b \o e
    <3>1. b \in Seq(Instruction) /\ Uniq(l2, b)
      BY <1>1 DEF SectionsOK
    <3>2. b2 \in Seq(Instruction) /\ Elements(b2) = Elements(b) \cup Elements(e)
      BY <2>2, <3>1, ElementsConcat
    <3>3. Uniq(l2, b \o e)
      BY <1>3, <3>1, UniqConcat
    <3>4. QED
      BY <2>2, <3>2, <3>3
  <2>3. CASE b2 = b
    BY <1>1, <2>3 DEF SectionsOK
  <2>4. QED
    BY <2>1, <2>2, <2>3 DEF Grown
<1>6. Apart(l2, a2, b2)
  BY <1>1, <1>3, <1>4, <1>5 DEF Apart, SectionsOK
<1>7. QED
  BY <1>4, <1>5, <1>6 DEF SectionsOK, CodeOf

\* A statement on the table s and the sections a and b: it adds d and e.
State(f, s, n, x, a, b, l, v) ==
    Before(f, s, n, x, CodeOf(a, b), l, v) /\ SectionsOK(l, a, b)

Adds(f, s, t, T, c, i, x, x2, v, v2, l2, d, e) ==
    /\ d \in Seq(Instruction) /\ e \in Seq(Instruction)
    /\ Uniq(l2, d) /\ Uniq(l2, e) /\ Apart(l2, d, e)
    /\ \A y \in Elements(d) \cup Elements(e) : y.id \in Nat /\ NewId(y, f, s, t, T, c, i, x, x2, v, v2)

Takes(f, s, n, x, l, v, t, k, x2, l2, v2, T, c, i) ==
    /\ Turn(s, n, t, k, T, c, i)
    /\ i \in 1..Len(t) => GivenId(s, t, c, i, x, x2, l2)
    /\ x2 \in Nat /\ x <= x2
    /\ T \subseteq Pendings(s)
    /\ Later(l, l2)
    /\ v \subseteq v2
    /\ c \in CursorT /\ c.fn = f /\ i \in Nat

LEMMA Taken ==
    ASSUME NEW f \in 1..Kernels, NEW s, NEW n, NEW x, NEW a, NEW b, NEW l, NEW v, State(f, s, n, x, a, b, l, v),
           NEW t, NEW k, NEW x2, NEW a2, NEW b2, NEW l2, NEW v2, NEW T, NEW c, NEW i, NEW d, NEW e,
           Takes(f, s, n, x, l, v, t, k, x2, l2, v2, T, c, i),
           Adds(f, s, t, T, c, i, x, x2, v, v2, l2, d, e),
           Grown(a, a2, d), Grown(b, b2, e)
    PROVE  State(f, t, k, x2, a2, b2, l2, v2)
<1> DEFINE E == CodeOf(a, b)
           E2 == CodeOf(a2, b2)
<1>1. Before(f, s, n, x, E, l, v) /\ SectionsOK(l, a, b)
  BY DEF State
<1>2. /\ d \in Seq(Instruction) /\ e \in Seq(Instruction)
      /\ Uniq(l2, d) /\ Uniq(l2, e) /\ Apart(l2, d, e)
      /\ \A y \in Elements(d) \cup Elements(e) : y.id \in Nat /\ NewId(y, f, s, t, T, c, i, x, x2, v, v2)
  BY DEF Adds
<1>3. T \subseteq Pendings(s) /\ (l => l2) /\ Later(l, l2)
  BY DEF Takes, Later
<1>4. ASSUME NEW y \in Elements(d) \cup Elements(e), NEW z \in E
      PROVE  ~Hit(l2, y, z)
  <2>1. y.id \in Nat /\ NewId(y, f, s, t, T, c, i, x, x2, v, v2)
    BY <1>2
  <2> HIDE DEF E
  <2>2. QED
    BY <1>1, <1>3, <2>1, NewIsApart
<1>5. SectionsOK(l2, a2, b2) /\ E2 \subseteq E \cup (Elements(d) \cup Elements(e))
  <2>1. ApartFrom(l2, d, e, a, b)
    BY <1>4 DEF ApartFrom
  <2>2. Later(l, l2)
    BY <1>3
  <2>3. d \in Seq(Instruction) /\ e \in Seq(Instruction) /\ Uniq(l2, d) /\ Uniq(l2, e) /\ Apart(l2, d, e)
    BY <1>2
  <2>4. SectionsOK(l, a, b)
    BY <1>1
  <2> HIDE DEF E, E2
  <2>5. /\ SectionsOK(l2, a2, b2)
        /\ CodeOf(a2, b2) \subseteq CodeOf(a, b) \cup (Elements(d) \cup Elements(e))
    BY <2>1, <2>2, <2>3, <2>4, Grow, ZenonT(40)
  <2>6. QED
    BY <2>5 DEF E, E2
<1> HIDE DEF E, E2
<1>6. Nats(E2)
  BY <1>1, <1>2, <1>5 DEF Before, Nats
<1>7. Statement(f, s, n, x, E, l, v, t, k, x2, E2, l2, v2, T, c, i)
  BY <1>2, <1>3, <1>5, <1>6 DEF Takes, Statement
<1>8. c \in CursorT /\ c.fn = f /\ i \in Nat
  BY DEF Takes
<1>9. Before(f, t, k, x2, E2, l2, v2)
  BY <1>1, <1>7, <1>8, Turned
<1>10. QED
  BY <1>5, <1>9 DEF State, E2
------------------------------------------------------------------------------
(***************************************************************************)
(* Slots written to.                                                       *)
(***************************************************************************)
\* Slot i of t is replaced, its id becomes a.
Put(u, t, i, a) ==
    /\ u \in Seq(Slot) /\ Len(u) = Len(t)
    /\ \A j \in 1..Len(t) : j # i => u[j] = t[j]
    /\ u[i].key = t[i].key /\ u[i].id = a

\* Slot i of t is written to, its id becomes a.
Wrote(u, t, i, a) == Put(u, t, i, a) /\ u[i].alloc = t[i].alloc

LEMMA SlotWritten ==
    ASSUME NEW t \in Seq(Slot), NEW i \in 1..Len(t), NEW y \in Slot, y.key = t[i].key, y.alloc = t[i].alloc,
           NEW u, u = [t EXCEPT ![i] = y]
    PROVE  Wrote(u, t, i, y.id)
<1> HIDE DEF Slot
<1>1. u \in Seq(Slot) /\ Len(u) = Len(t) /\ u[i] = y /\ \A j \in 1..Len(t) : j # i => u[j] = t[j]
  OBVIOUS
<1>2. QED
  BY <1>1 DEF Wrote, Put

LEMMA IdWritten ==
    ASSUME NEW t \in Seq(Slot), NEW i \in 1..Len(t), NEW a \in Nat, NEW u, u = [t EXCEPT ![i].id = a]
    PROVE  Wrote(u, t, i, a)
<1>1. PICK z \in Slot : z = t[i]
  <2> HIDE DEF Slot
  <2>1. QED
    OBVIOUS
<1>2. PICK y : y = [z EXCEPT !.id = a]
  OBVIOUS
<1>3. y \in Slot /\ y.key = z.key /\ y.alloc = z.alloc /\ y.id = a
  BY <1>2 DEF Slot
<1> HIDE DEF Slot
<1>4. u = [t EXCEPT ![i] = y]
  BY <1>1, <1>2
<1>5. QED
  BY <1>1, <1>3, <1>4, SlotWritten

LEMMA NotWritten ==
    ASSUME NEW t \in Seq(Slot), NEW i
    PROVE  Wrote(t, t, i, t[i].id)
BY DEF Wrote, Put

\* s with the variables of the slots T told.
Tells(s, u, T) ==
    /\ u \in Seq(Slot) /\ Len(u) = Len(s)
    /\ \A j \in 1..Len(s) : /\ u[j].key = s[j].key /\ u[j].id = s[j].id
                            /\ u[j].alloc <=> s[j].alloc \/ j \in T

LEMMA TellsNone ==
    ASSUME NEW s \in Seq(Slot)
    PROVE  Tells(s, s, {})
BY DEF Tells

LEMMA MkInOK ==
    ASSUME NEW s \in Seq(Slot), NEW n \in Nat, NEW c \in CursorT, NEW m, m = MkIn(s, n, c)
    PROVE  m.slots \in Seq(Slot) /\ m.num \in Nat /\ n <= m.num /\ m.idx \in 1..Len(m.slots)
<1>1. \/ Added(s, n, m.slots, m.num, c, m.idx)
      \/ Found(s, n, m.slots, m.num, c, m.idx)
  BY MkInIs
<1>2. CASE Added(s, n, m.slots, m.num, c, m.idx)
  <2>1. m.slots \in Seq(Slot) /\ m.num = n + 1 /\ m.idx = n + 1 /\ m.idx <= Len(m.slots)
    BY <1>2 DEF Added
  <2>2. QED
    BY <2>1
<1>3. CASE Found(s, n, m.slots, m.num, c, m.idx)
  BY <1>3 DEF Found
<1>4. QED
  BY <1>1, <1>2, <1>3

\* A cursor looked up, and its slot replaced.
LEMMA Placed ==
    ASSUME NEW s \in Seq(Slot), NEW n \in Nat, NEW T, NEW s0, Tells(s, s0, T),
           NEW c \in CursorT, NEW m, m = MkIn(s0, n, c), NEW u, NEW a, Put(u, m.slots, m.idx, a)
    PROVE  Turn(s, n, u, m.num, T, c, m.idx) /\ m.idx \in 1..Len(u) /\ u[m.idx].id = a
<1>1. s0 \in Seq(Slot)
  BY DEF Tells
<1>2. PICK t, k, i : t = m.slots /\ k = m.num /\ i = m.idx
  OBVIOUS
<1>3. t \in Seq(Slot) /\ k \in Nat /\ n <= k /\ i \in 1..Len(t)
  BY <1>1, <1>2, MkInOK
<1>4. PICK p \in Nat : p = Len(t) /\ p = Len(u)
  BY <1>2, <1>3 DEF Put
<1>5. /\ \A j \in 1..p : j # i => u[j] = t[j]
      /\ u[i].key = t[i].key /\ u[i].id = a /\ u \in Seq(Slot)
  BY <1>2, <1>4 DEF Put
<1>6. PICK q \in Nat : q = Len(s) /\ q = Len(s0)
  BY DEF Tells
<1>7. \A j \in 1..q : /\ s0[j].key = s[j].key /\ s0[j].id = s[j].id
                      /\ s0[j].alloc <=> s[j].alloc \/ j \in T
  BY <1>6 DEF Tells
<1>8. Added(s0, n, t, k, c, i) \/ Found(s0, n, t, k, c, i)
  BY <1>1, <1>2, MkInIs
<1>9. ASSUME NEW j \in 1..p, j # i
      PROVE  SameSlot(s, u, T, j) \/ BlankSlot(u, j)
  <2>1. (j <= q /\ u[j] = s0[j]) \/ u[j] = EmptySlot
    <3>1. CASE Added(s0, n, t, k, c, i)
      <4>1. \A g \in 1..p : g # i => t[g] = IF g <= q THEN s0[g] ELSE EmptySlot
        BY <1>4, <1>6, <3>1 DEF Added
      <4>2. j <= q => t[j] = s0[j]
        BY <1>9, <4>1
      <4>3. ~(j <= q) => t[j] = EmptySlot
        BY <1>9, <4>1
      <4>4. u[j] = t[j]
        BY <1>5, <1>9
      <4>5. QED
        BY <4>2, <4>3, <4>4
    <3>2. CASE Found(s0, n, t, k, c, i)
      <4>1. t = s0 /\ p = q
        BY <1>4, <1>6, <3>2 DEF Found
      <4>2. QED
        BY <1>5, <1>9, <4>1
    <3>3. QED
      BY <1>8, <3>1, <3>2
  <2>2. CASE j <= q /\ u[j] = s0[j]
    BY <1>6, <1>7, <2>2 DEF SameSlot
  <2>3. CASE u[j] = EmptySlot
    BY <2>3, SlotIs DEF BlankSlot
  <2>4. QED
    BY <2>1, <2>2, <2>3
<1>10. GivenSlot(s, n, u, k, c, i)
  <2>1. CASE Added(s0, n, t, k, c, i)
    <3>1. u[i].key = c /\ i = n + 1 /\ k = n + 1
      BY <1>5, <2>1 DEF Added
    <3>2. \A j \in 1..n : ~(j <= q /\ s0[j].key = c)
      BY <1>6, <2>1 DEF Added
    <3>3. \A j \in 1..n : ~(j <= q /\ s[j].key = c)
      BY <1>7, <3>2
    <3>4. QED
      BY <1>6, <3>1, <3>3 DEF GivenSlot
  <2>2. CASE Found(s0, n, t, k, c, i)
    <3>1. i \in 1..n /\ k = n /\ i <= q /\ s0[i].key = c /\ t = s0
      BY <1>6, <2>2 DEF Found
    <3>2. s[i].key = c /\ u[i].key = c
      BY <1>5, <1>7, <3>1
    <3>3. QED
      BY <1>6, <3>1, <3>2 DEF GivenSlot
  <2>3. QED
    BY <1>8, <2>1, <2>2
<1>11. QED
  BY <1>2, <1>3, <1>4, <1>5, <1>9, <1>10 DEF Turn

\* A cursor that was there, and whose id stays.
LEMMA Unwritten ==
    ASSUME NEW s \in Seq(Slot), NEW n \in Nat, NEW T, NEW s0, Tells(s, s0, T),
           NEW c \in CursorT, NEW m, m = MkIn(s0, n, c), ~m.new,
           NEW u, Wrote(u, m.slots, m.idx, m.slots[m.idx].id)
    PROVE  /\ Turn(s, n, u, m.num, T, c, 0)
           /\ m.num = n /\ m.idx \in 1..n /\ m.idx \in 1..Len(s)
           /\ s[m.idx].key = c /\ s[m.idx].id = m.slots[m.idx].id
<1>1. s0 \in Seq(Slot)
  BY DEF Tells
<1>2. PICK i : i = m.idx
  OBVIOUS
<1>3. Found(s0, n, m.slots, m.num, c, i)
  BY <1>1, <1>2, MkInIs
<1>4. m.slots = s0 /\ m.num = n /\ i \in 1..n /\ i <= Len(s0) /\ s0[i].key = c
  BY <1>3 DEF Found
<1>5. PICK q \in Nat : q = Len(s) /\ q = Len(s0)
  BY DEF Tells
<1>6. \A j \in 1..q : /\ s0[j].key = s[j].key /\ s0[j].id = s[j].id
                      /\ s0[j].alloc <=> s[j].alloc \/ j \in T
  BY <1>5 DEF Tells
<1>7. /\ u \in Seq(Slot) /\ Len(u) = q
      /\ \A j \in 1..q : j # i => u[j] = s0[j]
      /\ u[i].key = s0[i].key /\ u[i].id = s0[i].id /\ u[i].alloc = s0[i].alloc
  BY <1>2, <1>4, <1>5 DEF Wrote, Put
<1>8. \A j \in 1..q : SameSlot(s, u, T, j)
  BY <1>5, <1>6, <1>7 DEF SameSlot
<1>9. Turn(s, n, u, n, T, c, 0)
  BY <1>7, <1>8 DEF Turn
<1>10. QED
  BY <1>2, <1>4, <1>5, <1>6, <1>9

LEMMA TurnEmpty ==
    ASSUME NEW s, NEW n \in Nat, NEW k \in Nat, n <= k, NEW T, NEW c
    PROVE  Turn(s, n, << >>, k, T, c, 0) /\ ~(0 \in 1..Len(<< >>))
<1>1. << >> \in Seq(Slot) /\ Len(<< >>) = 0
  <2> HIDE DEF Slot
  <2>1. QED
    OBVIOUS
<1>2. QED
  BY <1>1 DEF Turn

LEMMA TurnTold ==
    ASSUME NEW s \in Seq(Slot), NEW n \in Nat, NEW T, NEW u, Tells(s, u, T), NEW c
    PROVE  Turn(s, n, u, n, T, c, 0) /\ ~(0 \in 1..Len(u))
<1>1. \A j \in 1..Len(u) : SameSlot(s, u, T, j)
  BY DEF SameSlot, Tells
<1>2. u \in Seq(Slot)
  BY DEF Tells
<1>3. QED
  BY <1>1, <1>2 DEF Turn
------------------------------------------------------------------------------
(***************************************************************************)
(* What a statement emits.                                                 *)
(***************************************************************************)
InstrIs(y, op, id, args) == y \in Instruction /\ y.op = op /\ y.id = id /\ y.args = args

LEMMA NoCursorIs == NoCursor \in CursorT
BY KernelAssumption DEF NoCursor, Cursor, CursorT

LEMMA PlainInstr ==
    ASSUME NEW op \in Ops, NEW id \in Nat, NEW y, y = Instr(op, id, << >>)
    PROVE  InstrIs(y, op, id, << >>)
<1>1. op \in Ops
  OBVIOUS
<1>2. PICK args, c : args = << >> /\ c = NoCursor
  OBVIOUS
<1>3. args \in Seq(Nat) /\ c \in CursorT
  BY <1>2, NoCursorIs
<1>4. y = [op |-> op, id |-> id, args |-> args, of |-> c]
  BY <1>2 DEF Instr
<1>5. y \in Instruction /\ y.op = op /\ y.id = id /\ y.args = args
  BY <1>1, <1>3, <1>4 DEF Instruction
<1>6. QED
  BY <1>2, <1>5 DEF InstrIs

LEMMA InstrOfOne ==
    ASSUME NEW op \in Ops, NEW id \in Nat, NEW a \in Nat, NEW y, y = Instr(op, id, << a >>)
    PROVE  InstrIs(y, op, id, << a >>)
<1>1. op \in Ops
  OBVIOUS
<1>2. PICK args, c : args = << a >> /\ c = NoCursor
  OBVIOUS
<1>3. args \in Seq(Nat) /\ c \in CursorT
  BY <1>2, NoCursorIs
<1>4. y = [op |-> op, id |-> id, args |-> args, of |-> c]
  BY <1>2 DEF Instr
<1>5. y \in Instruction /\ y.op = op /\ y.id = id /\ y.args = args
  BY <1>1, <1>3, <1>4 DEF Instruction
<1>6. QED
  BY <1>2, <1>5 DEF InstrIs

LEMMA InstrOfTwo ==
    ASSUME NEW op \in Ops, NEW id \in Nat, NEW a \in Nat, NEW b \in Nat, NEW y, y = Instr(op, id, << a, b >>)
    PROVE  InstrIs(y, op, id, << a, b >>)
<1>1. op \in Ops
  OBVIOUS
<1>2. PICK args, c : args = << a, b >> /\ c = NoCursor
  OBVIOUS
<1>3. args \in Seq(Nat) /\ c \in CursorT
  BY <1>2, NoCursorIs
<1>4. y = [op |-> op, id |-> id, args |-> args, of |-> c]
  BY <1>2 DEF Instr
<1>5. y \in Instruction /\ y.op = op /\ y.id = id /\ y.args = args
  BY <1>1, <1>3, <1>4 DEF Instruction
<1>6. QED
  BY <1>2, <1>5 DEF InstrIs

LEMMA NoneEmitted ==
    ASSUME NEW l
    PROVE  << >> \in Seq(Instruction) /\ Elements(<< >>) = {} /\ Uniq(l, << >>)
BY DEF Elements, Uniq

LEMMA OneEmitted ==
    ASSUME NEW l, NEW y \in Instruction
    PROVE  << y >> \in Seq(Instruction) /\ Elements(<< y >>) = {y} /\ Uniq(l, << y >>)
<1> HIDE DEF Instruction
<1>1. << y >> \in Seq(Instruction) /\ DOMAIN << y >> = {1} /\ << y >>[1] = y
  OBVIOUS
<1>2. QED
  BY <1>1 DEF Elements, Uniq

LEMMA TwoEmitted ==
    ASSUME NEW l, NEW y \in Instruction, NEW z \in Instruction, ~Hit(l, y, z)
    PROVE  << y, z >> \in Seq(Instruction) /\ Elements(<< y, z >>) = {y, z} /\ Uniq(l, << y, z >>)
<1> HIDE DEF Instruction
<1>1. PICK w : w = << y, z >>
  OBVIOUS
<1>2. w \in Seq(Instruction) /\ DOMAIN w = {1, 2} /\ w[1] = y /\ w[2] = z
  BY <1>1
<1>3. ~Hit(l, z, y)
  BY HitSymmetric
<1>4. QED
  BY <1>1, <1>2, <1>3 DEF Elements, Uniq

(***************************************************************************)
(* The code of an expression: values of statement c, under ids from r up   *)
(* to below x.                                                             *)
(***************************************************************************)
Belongs(e, c, r, x) ==
    /\ e \in Seq(Instruction)
    /\ \A y \in Elements(e) : /\ y.op \in {"Load", "Op"} /\ y.of = c
                             /\ y.id \in Nat /\ r <= y.id /\ y.id < x

LEMMA BelongsUniq ==
    ASSUME NEW l, NEW e, NEW c, NEW r, NEW x, Belongs(e, c, r, x)
    PROVE  Uniq(l, e)
<1>1. \A i \in DOMAIN e : e[i].op \in {"Load", "Op"} /\ e[i].of = c
  BY DEF Belongs, Elements
<1>2. QED
  BY <1>1 DEF Uniq, Hit

LEMMA BelongsNone ==
    ASSUME NEW c, NEW r, NEW x
    PROVE  Belongs(<< >>, c, r, x)
BY NoneEmitted DEF Belongs

LEMMA BelongsConcat ==
    ASSUME NEW d, NEW e, NEW c, NEW r, NEW x, Belongs(d, c, r, x), Belongs(e, c, r, x)
    PROVE  Belongs(d \o e, c, r, x)
<1>1. d \in Seq(Instruction) /\ e \in Seq(Instruction)
  BY DEF Belongs
<1>2. d \o e \in Seq(Instruction) /\ Elements(d \o e) = Elements(d) \cup Elements(e)
  BY <1>1, ElementsConcat
<1>3. QED
  BY <1>2 DEF Belongs

LEMMA BelongsSub ==
    ASSUME NEW e, NEW c, NEW r, NEW x, Belongs(e, c, r, x), NEW a \in Nat, NEW b \in Nat, 1 <= a, b <= Len(e)
    PROVE  Belongs(SubSeq(e, a, b), c, r, x)
<1>1. e \in Seq(Instruction)
  BY DEF Belongs
<1>2. PICK n \in Nat : n = Len(e) /\ DOMAIN e = 1..n
  <2> HIDE DEF Instruction
  <2>1. QED
    BY <1>1
<1>3. \A i \in a..b : i \in 1..n /\ e[i] \in Elements(e)
  BY <1>2 DEF Elements
<1>4. \A i \in a..b : e[i] \in Instruction
  <2> HIDE DEF Instruction
  <2>1. QED
    BY <1>1, <1>2, <1>3
<1>5. PICK f : f = SubSeq(e, a, b)
  OBVIOUS
<1>6. /\ f \in Seq(Instruction)
      /\ Len(f) = IF a <= b THEN b - a + 1 ELSE 0
      /\ \A i \in 1..(b - a + 1) : f[i] = e[a + i - 1]
  <2> HIDE DEF Instruction
  <2>1. QED
    BY <1>4, <1>5, SubSeqProperties
<1>7. ASSUME NEW y \in Elements(f) PROVE y \in Elements(e)
  <2>1. PICK i \in DOMAIN f : y = f[i]
    BY DEF Elements
  <2>2. DOMAIN f = 1..Len(f)
    <3> HIDE DEF Instruction
    <3>1. QED
      BY <1>6
  <2>3. i \in 1..(b - a + 1)
    BY <1>6, <2>1, <2>2
  <2>4. a + i - 1 \in a..b
    BY <2>3
  <2>5. QED
    BY <1>3, <1>6, <2>1, <2>3, <2>4
<1>8. QED
  BY <1>5, <1>6, <1>7 DEF Belongs

LEMMA BelongsOne ==
    ASSUME NEW op \in {"Load", "Op"}, NEW c \in CursorT, NEW id \in Nat, NEW args \in Seq(Nat),
           NEW r, NEW x, r <= id, id < x, NEW e, e = << Value(op, id, args, c) >>
    PROVE  Belongs(e, c, r, x)
<1>1. PICK y : y = [op |-> op, id |-> id, args |-> args, of |-> c]
  OBVIOUS
<1>2. op \in Ops
  BY DEF Ops
<1>3. y \in Instruction /\ y.op = op /\ y.id = id /\ y.of = c
  BY <1>1, <1>2 DEF Instruction
<1>4. e = << y >>
  BY <1>1 DEF Value
<1>5. e \in Seq(Instruction) /\ Elements(e) = {y}
  BY <1>3, <1>4, OneEmitted
<1>6. QED
  BY <1>3, <1>5 DEF Belongs

\* An operand: a literal, or a slot of the table.
Operand(s, i) == i = 0 \/ i \in 1..Len(s)

LEMMA NatSeq ==
    ASSUME NEW a \in Nat
    PROVE  << a >> \in Seq(Nat)
OBVIOUS

LEMMA LoadIs ==
    ASSUME NEW s \in Seq(Slot), NEW c \in CursorT, NEW i, Operand(s, i), NEW id \in Nat,
           NEW r, NEW x, r <= id, id < x, NEW e, e = Load(s, c, id, i)
    PROVE  Belongs(e, c, r, x)
<1>1. CASE i = 0
  BY <1>1, BelongsNone DEF Load
<1>2. CASE i # 0
  <2>1. i \in 1..Len(s)
    BY <1>2 DEF Operand
  <2>2. s[i] \in Slot
    <3> HIDE DEF Slot
    <3>1. QED
      BY <2>1
  <2>3. PICK a \in Nat : a = s[i].id
    BY <2>2, SlotIs
  <2>4. PICK args \in Seq(Nat) : args = << a >>
    BY NatSeq
  <2>5. PICK op \in {"Load", "Op"} : op = "Load"
    OBVIOUS
  <2>6. << s[i].id >> = args
    BY <2>3, <2>4
  <2>7. e = << Value(op, id, args, c) >>
    BY <1>2, <2>5, <2>6 DEF Load
  <2>8. QED
    BY <2>7, BelongsOne
<1>3. QED
  BY <1>1, <1>2

LEMMA OpIs ==
    ASSUME NEW c \in CursorT, NEW id \in Nat, NEW args \in Seq(Nat),
           NEW r, NEW x, r <= id, id < x, NEW e, e = Op(c, id, args)
    PROVE  Belongs(e, c, r, x)
<1>1. PICK op \in {"Load", "Op"} : op = "Op"
  OBVIOUS
<1>2. e = << Value(op, id, args, c) >>
  BY <1>1 DEF Op
<1>3. QED
  BY <1>2, BelongsOne

\* What is known of an expression: the ids it takes and where its code belongs.
Fits(v, c, r) ==
    /\ v.ids \in Nat /\ r < r + v.ids
    /\ v = [ids |-> v.ids, code |-> v.code]
    /\ Belongs(v.code, c, r, r + v.ids)

LEMMA FitsIf ==
    ASSUME NEW c, NEW r \in Nat, NEW n \in Nat, NEW e, NEW x \in Nat, x = r + n, r < x, Belongs(e, c, r, x),
           NEW v, v = [ids |-> n, code |-> e]
    PROVE  Fits(v, c, r)
<1>1. v.ids = n /\ v.code = e
  OBVIOUS
<1>2. QED
  BY <1>1 DEF Fits

LEMMA TermIs ==
    ASSUME NEW s \in Seq(Slot), NEW c \in CursorT, NEW r \in Nat, NEW X, \A i \in X : Operand(s, i),
           NEW t \in Terms(s, c, r, X)
    PROVE  Fits(t, c, r)
<1>1. \/ \E i \in X : t = [ids |-> 1, code |-> Load(s, c, r, i)]
      \/ \E i \in X : t = [ids |-> 2, code |-> Converted(s, c, r, i)]
      \/ \E i, j \in X : t = [ids |-> 3, code |-> Sum(s, c, r, i, j)]
      \/ \E i, j, k \in X : t = [ids |-> 5, code |-> Nested(s, c, r, i, j, k)]
  BY DEF Terms
<1>2. PICK r1, r2, r3, r4, r5 \in Nat : r1 = r + 1 /\ r2 = r + 2 /\ r3 = r + 3 /\ r4 = r + 4 /\ r5 = r + 5
  OBVIOUS
<1>3. << r1 >> \in Seq(Nat) /\ << r1, r2 >> \in Seq(Nat) /\ << r3, r4 >> \in Seq(Nat)
  OBVIOUS
<1>4. /\ r <= r /\ r <= r1 /\ r <= r2 /\ r <= r3
      /\ r < r1 /\ r < r2 /\ r1 < r2 /\ r < r3 /\ r1 < r3 /\ r2 < r3
      /\ r < r5 /\ r1 < r5 /\ r2 < r5 /\ r3 < r5
  BY <1>2
<1>5. ASSUME NEW i \in X, t = [ids |-> 1, code |-> Load(s, c, r, i)]
      PROVE  Fits(t, c, r)
  <2>1. PICK e : e = Load(s, c, r, i)
    OBVIOUS
  <2>2. Belongs(e, c, r, r1)
    BY <1>4, <2>1, LoadIs
  <2>3. QED
    BY <1>2, <1>4, <1>5, <2>1, <2>2, FitsIf
<1>6. ASSUME NEW i \in X, t = [ids |-> 2, code |-> Converted(s, c, r, i)]
      PROVE  Fits(t, c, r)
  <2>1. PICK d, e : d = Load(s, c, r1, i) /\ e = Op(c, r, << r1 >>)
    OBVIOUS
  <2>2. Belongs(d, c, r, r2)
    BY <1>4, <2>1, LoadIs
  <2>3. Belongs(e, c, r, r2)
    BY <1>3, <1>4, <2>1, OpIs
  <2>4. PICK g : g = d \o e
    OBVIOUS
  <2>5. Belongs(g, c, r, r2) /\ g = Converted(s, c, r, i)
    BY <1>2, <2>1, <2>2, <2>3, <2>4, BelongsConcat DEF Converted
  <2>6. QED
    BY <1>2, <1>4, <1>6, <2>5, FitsIf
<1>7. ASSUME NEW i \in X, NEW j \in X, t = [ids |-> 3, code |-> Sum(s, c, r, i, j)]
      PROVE  Fits(t, c, r)
  <2>1. PICK d, e, f : d = Load(s, c, r1, i) /\ e = Load(s, c, r2, j) /\ f = Op(c, r, << r1, r2 >>)
    OBVIOUS
  <2>2. Belongs(d, c, r, r3)
    BY <1>4, <2>1, LoadIs
  <2>3. Belongs(e, c, r, r3)
    BY <1>4, <2>1, LoadIs
  <2>4. Belongs(f, c, r, r3)
    BY <1>3, <1>4, <2>1, OpIs
  <2>5. PICK g : g = (d \o e) \o f
    OBVIOUS
  <2>6. Belongs(d \o e, c, r, r3)
    BY <2>2, <2>3, BelongsConcat
  <2>7. Belongs(g, c, r, r3)
    BY <2>4, <2>5, <2>6, BelongsConcat
  <2>8. g = Sum(s, c, r, i, j)
    BY <1>2, <2>1, <2>5 DEF Sum
  <2>9. QED
    BY <1>2, <1>4, <1>7, <2>7, <2>8, FitsIf
<1>8. ASSUME NEW i \in X, NEW j \in X, NEW k \in X, t = [ids |-> 5, code |-> Nested(s, c, r, i, j, k)]
      PROVE  Fits(t, c, r)
  <2>1. PICK d, e, f : d = Load(s, c, r1, i) /\ e = Load(s, c, r3, j) /\ f = Op(c, r2, << r3, r4 >>)
    OBVIOUS
  <2>2. PICK g, h : g = Load(s, c, r2, k) /\ h = Op(c, r, << r1, r2 >>)
    OBVIOUS
  <2>3. Belongs(d, c, r, r5)
    BY <1>4, <2>1, LoadIs
  <2>4. Belongs(e, c, r, r5)
    BY <1>4, <2>1, LoadIs
  <2>5. Belongs(f, c, r, r5)
    BY <1>3, <1>4, <2>1, OpIs
  <2>6. Belongs(g, c, r, r5)
    BY <1>4, <2>2, LoadIs
  <2>7. Belongs(h, c, r, r5)
    BY <1>3, <1>4, <2>2, OpIs
  <2>8. PICK w : w = (((d \o e) \o f) \o g) \o h
    OBVIOUS
  <2>9. Belongs((d \o e) \o f, c, r, r5)
    <3>1. Belongs(d \o e, c, r, r5)
      BY <2>3, <2>4, BelongsConcat
    <3>2. QED
      BY <2>5, <3>1, BelongsConcat
  <2>10. Belongs(((d \o e) \o f) \o g, c, r, r5)
    BY <2>6, <2>9, BelongsConcat
  <2>11. Belongs(w, c, r, r5)
    BY <2>7, <2>8, <2>10, BelongsConcat
  <2>12. w = Nested(s, c, r, i, j, k)
    BY <1>2, <2>1, <2>2, <2>8 DEF Nested
  <2>13. QED
    BY <1>2, <1>4, <1>8, <2>11, <2>12, FitsIf
<1>9. QED
  BY <1>1, <1>5, <1>6, <1>7, <1>8

LEMMA FromLoadIs ==
    ASSUME NEW e, NEW c, NEW r, NEW x, Belongs(e, c, r, x)
    PROVE  Belongs(FromLoad(e), c, r, x)
<1>1. CASE FirstLoad(e) = {}
  BY <1>1, BelongsNone DEF FromLoad
<1>2. CASE FirstLoad(e) # {}
  <2>1. PICK i : i = CHOOSE j \in FirstLoad(e) : TRUE
    OBVIOUS
  <2>2. i \in FirstLoad(e)
    BY <1>2, <2>1
  <2>3. PICK n \in Nat : n = Len(e)
    <3>1. e \in Seq(Instruction)
      BY DEF Belongs
    <3> HIDE DEF Instruction
    <3>2. QED
      BY <3>1
  <2>4. i \in Nat /\ 1 <= i /\ n <= Len(e)
    BY <2>2, <2>3 DEF FirstLoad
  <2>5. Belongs(SubSeq(e, i, n), c, r, x)
    BY <2>4, BelongsSub
  <2>6. QED
    BY <1>2, <2>1, <2>3, <2>5 DEF FromLoad
<1>3. QED
  BY <1>1, <1>2

LEMMA ExpressionIs ==
    ASSUME NEW s \in Seq(Slot), NEW n, NEW c \in CursorT, NEW r \in Nat, NEW v \in Expressions(s, n, c, r)
    PROVE  Fits(v, c, r)
<1>1. PICK X : X = Operands(s, n)
  OBVIOUS
<1>2. \A i \in X : Operand(s, i)
  BY <1>1 DEF Operands, Operand
<1>3. PICK t \in Terms(s, c, r, X), i \in X :
        v = [ids |-> t.ids, code |-> FromLoad(Load(s, c, r, i) \o t.code)]
  <2>1. v \in { [ids |-> t.ids, code |-> FromLoad(Load(s, c, r, i) \o t.code)] :
                  t \in Terms(s, c, r, X), i \in X }
    BY <1>1 DEF Expressions
  <2>2. QED
    BY <2>1
<1>4. Fits(t, c, r)
  BY <1>2, TermIs
<1>5. PICK k, e : k = t.ids /\ e = t.code /\ k \in Nat
  BY <1>4 DEF Fits
<1>6. PICK x \in Nat : x = r + k
  BY <1>5
<1>7. r < x /\ Belongs(e, c, r, x)
  BY <1>4, <1>5, <1>6 DEF Fits
<1>8. PICK d, g, h : d = Load(s, c, r, i) /\ g = d \o e /\ h = FromLoad(g)
  OBVIOUS
<1>9. Belongs(d, c, r, x)
  <2>1. r <= r
    OBVIOUS
  <2>2. QED
    BY <1>2, <1>7, <1>8, <2>1, LoadIs
<1>10. Belongs(g, c, r, x)
  BY <1>7, <1>8, <1>9, BelongsConcat
<1>11. Belongs(h, c, r, x)
  BY <1>8, <1>10, FromLoadIs
<1>12. v = [ids |-> k, code |-> h]
  BY <1>3, <1>5, <1>8
<1>13. QED
  BY <1>5, <1>6, <1>7, <1>11, <1>12, FitsIf
------------------------------------------------------------------------------
(***************************************************************************)
(* The invariant.                                                          *)
(***************************************************************************)
Small ==
    /\ hasRet \in BOOLEAN /\ lost \in BOOLEAN
    /\ err \in {OK, ALLOC_FAILED, MET_INVAL}
    /\ stmts \in 0..MaxStmts /\ fails \in 0..MaxFails
    /\ IsFiniteSet(jumps)

Scope ==
    /\ fn \in 0..Kernels
    /\ pc \in {"enter", "body", "leave", "done"}
    /\ pc # "done" => fn # 0
    /\ pc \in {"enter", "body"} => err = OK
    /\ pc = "leave" => lost

Table ==
    /\ slots \in Seq(Slot) /\ num \in Nat /\ nextId \in Nat /\ FirstId <= nextId
    /\ Nats(CodeOf(fndef, fnimpl))
    /\ TableOK(fn, pc = "enter", pc = "body", slots, num, nextId, CodeOf(fndef, fnimpl), lost, seen)
    /\ SectionsOK(lost, fndef, fnimpl)

IInv == Small /\ Scope /\ Table

LEMMA InBody ==
    ASSUME IInv, pc = "body"
    PROVE  State(fn, slots, num, nextId, fndef, fnimpl, lost, seen) /\ fn \in 1..Kernels
<1>1. TableOK(fn, FALSE, TRUE, slots, num, nextId, CodeOf(fndef, fnimpl), lost, seen)
  <2>1. (pc = "enter") = FALSE /\ (pc = "body") = TRUE
    OBVIOUS
  <2>2. TableOK(fn, pc = "enter", pc = "body", slots, num, nextId, CodeOf(fndef, fnimpl), lost, seen)
    BY DEF IInv, Table
  <2>3. QED
    BY <2>1, <2>2
<1>2. State(fn, slots, num, nextId, fndef, fnimpl, lost, seen)
  BY <1>1 DEF IInv, Table, State, Before
<1>3. fn \in 1..Kernels
  BY IdsAre DEF IInv, Scope
<1>4. QED
  BY <1>2, <1>3

\* What a statement leaves.
Control ==
    /\ pc \in {"body", "leave"}
    /\ pc = "body" => err = OK
    /\ pc = "leave" => lost
    /\ Small

Left == State(fn, slots, num, nextId, fndef, fnimpl, lost, seen) /\ Control

LEMMA OutOfBody ==
    ASSUME fn' \in 1..Kernels, Left'
    PROVE  IInv'
<1>1. TableOK(fn', FALSE, TRUE, slots', num', nextId', CodeOf(fndef', fnimpl'), lost', seen')
  BY DEF Left, State, Before
<1>2. (pc' = "enter") = FALSE /\ pc' # "enter"
  BY DEF Left, Control
<1>3. TableOK(fn', FALSE, pc' = "body", slots', num', nextId', CodeOf(fndef', fnimpl'), lost', seen')
  BY <1>1 DEF TableOK, WaitingAt, PendingsAt
<1>4. TableOK(fn', pc' = "enter", pc' = "body", slots', num', nextId', CodeOf(fndef', fnimpl'), lost', seen')
  BY <1>2, <1>3
<1>5. Table'
  BY <1>4 DEF Left, State, Before, Table
<1>6. Scope'
  BY <1>2, IdsAre DEF Left, Control, Scope
<1>7. QED
  BY <1>5, <1>6 DEF Left, Control, IInv

LEMMA BodyStep ==
    ASSUME IInv, pc = "body", fn' = fn, Control', NEW T, NEW c, NEW i, NEW d, NEW e,
           Takes(fn, slots, num, nextId, lost, seen, slots', num', nextId', lost', seen', T, c, i),
           Adds(fn, slots, slots', T, c, i, nextId, nextId', seen, seen', lost', d, e),
           Grown(fndef, fndef', d), Grown(fnimpl, fnimpl', e)
    PROVE  IInv'
<1>1. State(fn, slots, num, nextId, fndef, fnimpl, lost, seen) /\ fn \in 1..Kernels
  BY InBody
<1>2. State(fn, slots', num', nextId', fndef', fnimpl', lost', seen')
  BY <1>1, Taken
<1>3. Left' /\ fn' \in 1..Kernels
  BY <1>1, <1>2 DEF Left
<1>4. QED
  BY <1>3, OutOfBody

LEMMA VisitsIs ==
    ASSUME IInv, NEW j, IsFiniteSet(j), NEW w, Visits(j, w)
    PROVE  pc = "body" /\ stmts' \in 0..MaxStmts
<1>1. Cardinality(j \ w) \in Nat
  BY FS_Difference, FS_CardinalityType
<1>2. PICK a \in Nat : a = Cardinality(j \ w)
  BY <1>1
<1>3. stmts + 1 + a <= MaxStmts /\ stmts' = stmts + 1 /\ stmts \in 0..MaxStmts /\ MaxStmts \in Nat
  BY <1>2, KernelAssumption DEF Visits, IInv, Small
<1>4. QED
  BY <1>3 DEF Visits

LEMMA CursorIs ==
    ASSUME NEW f \in 1..Kernels, NEW kind \in Kind, NEW a \in Nat, NEW c, c = Cursor(f, kind, a)
    PROVE  c \in CursorT /\ c.fn = f /\ c.kind = kind /\ c.name = a
BY IdsAre DEF CursorT, Cursor

LEMMA AddsNone ==
    ASSUME NEW f, NEW s, NEW t, NEW T, NEW c, NEW i, NEW x, NEW x2, NEW v, NEW v2, NEW l2
    PROVE  Adds(f, s, t, T, c, i, x, x2, v, v2, l2, << >>, << >>)
BY NoneEmitted DEF Adds, Apart

LEMMA AddsOne ==
    ASSUME NEW f, NEW s, NEW t, NEW T, NEW c, NEW i, NEW x, NEW x2, NEW v, NEW v2, NEW l2,
           NEW y \in Instruction, NewId(y, f, s, t, T, c, i, x, x2, v, v2)
    PROVE  Adds(f, s, t, T, c, i, x, x2, v, v2, l2, << >>, << y >>)
<1>1. y.id \in Nat
  BY DEF Instruction
<1>2. QED
  <2> HIDE DEF Instruction
  <2>1. << y >> \in Seq(Instruction) /\ Elements(<< y >>) = {y} /\ Uniq(l2, << y >>)
    BY OneEmitted
  <2>2. << >> \in Seq(Instruction) /\ Elements(<< >>) = {} /\ Uniq(l2, << >>)
    BY NoneEmitted
  <2>3. QED
    BY <1>1, <2>1, <2>2 DEF Adds, Apart

LEMMA AddsTwo ==
    ASSUME NEW f, NEW s, NEW t, NEW T, NEW c, NEW i, NEW x, NEW x2, NEW v, NEW v2, NEW l2,
           NEW y \in Instruction, NewId(y, f, s, t, T, c, i, x, x2, v, v2),
           NEW z \in Instruction, NewId(z, f, s, t, T, c, i, x, x2, v, v2), ~Hit(l2, y, z)
    PROVE  Adds(f, s, t, T, c, i, x, x2, v, v2, l2, << >>, << y, z >>)
<1>1. y.id \in Nat /\ z.id \in Nat
  BY DEF Instruction
<1>2. QED
  <2> HIDE DEF Instruction
  <2>1. << y, z >> \in Seq(Instruction) /\ Elements(<< y, z >>) = {y, z} /\ Uniq(l2, << y, z >>)
    BY TwoEmitted
  <2>2. << >> \in Seq(Instruction) /\ Elements(<< >>) = {} /\ Uniq(l2, << >>)
    BY NoneEmitted
  <2>3. QED
    BY <1>1, <2>1, <2>2 DEF Adds, Apart
------------------------------------------------------------------------------
(***************************************************************************)
(* The statements keep the invariant.                                      *)
(***************************************************************************)
\* What a statement does besides the table and the code.
Visited == /\ stmts' \in 0..MaxStmts /\ IsFiniteSet(jumps')
           /\ hasRet' \in BOOLEAN /\ lost' \in BOOLEAN /\ err' \in {OK, ALLOC_FAILED, MET_INVAL}

LEMMA CompletesIs ==
    ASSUME IInv, pc = "body", Completes, Visited
    PROVE  Control' /\ fn' = fn
<1>1. Small'
  BY DEF IInv, Small, Completes, Visited
<1>2. QED
  BY <1>1 DEF Control, Completes

LEMMA FailsIs ==
    ASSUME IInv, AllocFails
    PROVE  fails' \in 0..MaxFails
BY KernelAssumption DEF IInv, Small, AllocFails

LEMMA BreaksIs ==
    ASSUME IInv, pc = "body", Breaks, Visited
    PROVE  Control' /\ fn' = fn
<1>1. fails' \in 0..MaxFails
  BY FailsIs DEF Breaks
<1>2. Small'
  BY <1>1 DEF Small, Visited
<1>3. QED
  BY <1>2 DEF Control, Breaks

\* The expression of statement c was compiled under the id r, or given up.
Compiled(c, r) ==
    /\ nextId' \in Nat /\ r < nextId'
    /\ fn' = fn /\ pc' = pc /\ err' = OK
    /\ fails' = fails \/ AllocFails
    /\ lost' \in {lost, TRUE}
    /\ \E e : Belongs(e, c, r, nextId') /\ Grown(fnimpl, fnimpl', e)

LEMMA CompiledParts ==
    ASSUME NEW c, NEW r, Compiled(c, r)
    PROVE  /\ nextId' \in Nat /\ r < nextId' /\ err' = OK
           /\ fails' = fails \/ AllocFails
           /\ lost' \in {lost, TRUE}
BY DEF Compiled

LEMMA TranslatesIs ==
    ASSUME NEW s \in Seq(Slot), NEW n, NEW c \in CursorT, NEW r \in Nat, Translates(s, n, c, r)
    PROVE  /\ nextId' \in Nat /\ r < nextId' /\ Completes /\ lost' = lost
           /\ \E e : Belongs(e, c, r, nextId') /\ fnimpl' = fnimpl \o e
<1>1. PICK v \in Expressions(s, n, c, r) : nextId' = r + v.ids /\ fnimpl' = fnimpl \o v.code
  BY DEF Translates
<1>2. Fits(v, c, r)
  BY ExpressionIs
<1>3. Belongs(v.code, c, r, nextId') /\ r < nextId' /\ nextId' \in Nat
  BY <1>1, <1>2 DEF Fits
<1>4. QED
  BY <1>1, <1>3 DEF Translates

LEMMA GivesUpIs ==
    ASSUME NEW s \in Seq(Slot), NEW n, NEW c \in CursorT, NEW r \in Nat, GivesUp(s, n, c, r)
    PROVE  /\ nextId' \in Nat /\ r < nextId' /\ lost' = TRUE /\ err' = OK /\ fn' = fn /\ pc' = pc
           /\ fails' = fails \/ AllocFails
           /\ \E e : Belongs(e, c, r, nextId') /\ Grown(fnimpl, fnimpl', e)
<1>1. PICK v \in Expressions(s, n, c, r) :
        /\ nextId' = r + v.ids
        /\ lost' = TRUE /\ err' = OK /\ fn' = fn /\ pc' = pc
        /\ \/ /\ \E i \in 1..Len(v.code) : fnimpl' = fnimpl \o SubSeq(v.code, 1, i - 1)
              /\ fails' = fails
           \/ AllocFails /\ fnimpl' = << >>
  BY DEF GivesUp
<1>2. Fits(v, c, r)
  BY ExpressionIs
<1>3. PICK e : e = v.code
  OBVIOUS
<1>4. Belongs(e, c, r, nextId') /\ r < nextId' /\ nextId' \in Nat
  BY <1>1, <1>2, <1>3 DEF Fits
<1>5. ASSUME NEW i \in 1..Len(e), fnimpl' = fnimpl \o SubSeq(e, 1, i - 1)
      PROVE  \E d : Belongs(d, c, r, nextId') /\ Grown(fnimpl, fnimpl', d)
  <2>1. PICK b \in Nat : b = i - 1 /\ b <= Len(e)
    <3>1. PICK n1 \in Nat : n1 = Len(e)
      <4>1. e \in Seq(Instruction)
        BY <1>4 DEF Belongs
      <4> HIDE DEF Instruction
      <4>2. QED
        BY <4>1
    <3>2. QED
      BY <3>1
  <2>2. PICK a \in Nat : a = 1
    OBVIOUS
  <2>3. 1 <= a
    BY <2>2
  <2>4. Belongs(SubSeq(e, a, b), c, r, nextId')
    BY <1>4, <2>1, <2>3, BelongsSub
  <2>5. Grown(fnimpl, fnimpl', SubSeq(e, a, b))
    BY <1>5, <2>1, <2>2 DEF Grown
  <2>6. QED
    BY <2>4, <2>5
<1>6. ASSUME fnimpl' = << >>
      PROVE  \E d : Belongs(d, c, r, nextId') /\ Grown(fnimpl, fnimpl', d)
  <2>1. Grown(fnimpl, fnimpl', e)
    BY <1>6 DEF Grown
  <2>2. QED
    BY <1>4, <2>1
<1>7. QED
  BY <1>1, <1>3, <1>4, <1>5, <1>6

LEMMA CompiledIs ==
    ASSUME NEW s \in Seq(Slot), NEW n, NEW c \in CursorT, NEW r \in Nat, Translates(s, n, c, r) \/ GivesUp(s, n, c, r)
    PROVE  Compiled(c, r)
<1>1. CASE Translates(s, n, c, r)
  <2>1. PICK e : Belongs(e, c, r, nextId') /\ fnimpl' = fnimpl \o e
    BY <1>1, TranslatesIs
  <2>2. nextId' \in Nat /\ r < nextId' /\ Completes /\ lost' = lost
    BY <1>1, TranslatesIs
  <2>3. Grown(fnimpl, fnimpl', e)
    BY <2>1 DEF Grown
  <2>4. QED
    BY <2>1, <2>2, <2>3 DEF Compiled, Completes
<1>2. CASE GivesUp(s, n, c, r)
  <2>1. /\ nextId' \in Nat /\ r < nextId' /\ lost' = TRUE /\ err' = OK /\ fn' = fn /\ pc' = pc
        /\ fails' = fails \/ AllocFails
        /\ \E e : Belongs(e, c, r, nextId') /\ Grown(fnimpl, fnimpl', e)
    BY <1>2, GivesUpIs
  <2>2. QED
    BY <2>1 DEF Compiled
<1>3. QED
  BY <1>1, <1>2

\* Nothing is looked up; the table stays as it is or is lost.
LEMMA TakesNone ==
    ASSUME IInv, NEW c \in CursorT, c.fn = fn, slots' = slots \/ slots' = << >>, num' = num,
           nextId' \in Nat, nextId <= nextId', Later(lost, lost'), seen \subseteq seen'
    PROVE  Takes(fn, slots, num, nextId, lost, seen, slots', num', nextId', lost', seen', {}, c, 0)
<1>1. slots \in Seq(Slot) /\ num \in Nat
  BY DEF IInv, Table
<1>2. Turn(slots, num, slots', num', {}, c, 0) /\ ~(0 \in 1..Len(slots'))
  <2>1. CASE slots' = slots
    BY <1>1, <2>1, TellsNone, TurnTold
  <2>2. CASE slots' = << >>
    BY <1>1, <2>2, TurnEmpty
  <2>3. QED
    BY <2>1, <2>2
<1>3. QED
  BY <1>2 DEF Takes

LEMMA ReturnStmtStep ==
    ASSUME IInv, ReturnStmt
    PROVE  IInv'
<1>1. pc = "body" /\ stmts' \in 0..MaxStmts
  BY VisitsIs DEF ReturnStmt, IInv, Small
<1>2. Control' /\ fn' = fn
  <2>1. Visited
    BY <1>1 DEF ReturnStmt, Visited, IInv, Small, Completes
  <2>2. QED
    BY <1>1, <2>1, CompletesIs DEF ReturnStmt
<1>3. PICK y : y = Instr("Return", 0, << >>)
  OBVIOUS
<1>4. y \in Instruction /\ y.id = 0
  <2>1. "Return" \in Ops /\ 0 \in Nat
    BY DEF Ops
  <2>2. InstrIs(y, "Return", 0, << >>)
    BY <1>3, <2>1, PlainInstr
  <2>3. QED
    BY <2>2 DEF InstrIs
<1>5. PICK c \in CursorT : c.fn = fn
  BY <1>1, InBody, CursorIs DEF Kind
<1>6. Takes(fn, slots, num, nextId, lost, seen, slots', num', nextId', lost', seen', {}, c, 0)
  <2>1. /\ slots' = slots /\ num' = num /\ nextId' = nextId /\ seen' = seen
        /\ Later(lost, lost')
    BY DEF ReturnStmt, table, Later
  <2>2. nextId' \in Nat /\ nextId <= nextId'
    BY <2>1 DEF IInv, Table
  <2>3. QED
    BY <1>5, <2>1, <2>2, TakesNone
<1>7. Adds(fn, slots, slots', {}, c, 0, nextId, nextId', seen, seen', lost', << >>, << y >>)
  BY <1>4, AddsOne DEF NewId
<1>8. Grown(fndef, fndef', << >>) /\ Grown(fnimpl, fnimpl', << y >>)
  <2>1. fnimpl \in Seq(Instruction)
    BY DEF IInv, Table, SectionsOK
  <2>2. fnimpl' = fnimpl \o << y >>
    BY <1>3, <1>4, <2>1, AppendIsConcat DEF ReturnStmt
  <2>3. QED
    BY <2>2 DEF Grown, ReturnStmt
<1>9. QED
  BY <1>1, <1>2, <1>6, <1>7, <1>8, BodyStep

LEMMA ReturnStmtFailsStep ==
    ASSUME IInv, ReturnStmtFails
    PROVE  IInv'
<1>1. pc = "body" /\ stmts' \in 0..MaxStmts
  BY VisitsIs DEF ReturnStmtFails, IInv, Small
<1>2. Control' /\ fn' = fn
  <2>1. Visited
    BY <1>1 DEF ReturnStmtFails, Visited, IInv, Small, Breaks
  <2>2. QED
    BY <1>1, <2>1, BreaksIs DEF ReturnStmtFails
<1>3. PICK c \in CursorT : c.fn = fn
  BY <1>1, InBody, CursorIs DEF Kind
<1>4. Takes(fn, slots, num, nextId, lost, seen, slots', num', nextId', lost', seen', {}, c, 0)
  <2>1. /\ slots' = slots /\ num' = num /\ nextId' = nextId /\ seen' = seen
        /\ Later(lost, lost')
    BY DEF ReturnStmtFails, Breaks, table, Later
  <2>2. nextId' \in Nat /\ nextId <= nextId'
    BY <2>1 DEF IInv, Table
  <2>3. QED
    BY <1>3, <2>1, <2>2, TakesNone
<1>5. Adds(fn, slots, slots', {}, c, 0, nextId, nextId', seen, seen', lost', << >>, << >>)
  BY AddsNone
<1>6. Grown(fndef, fndef', << >>) /\ Grown(fnimpl, fnimpl', << >>)
  BY DEF Grown, ReturnStmtFails
<1>7. QED
  BY <1>1, <1>2, <1>4, <1>5, <1>6, BodyStep

LEMMA OtherStmtStep ==
    ASSUME IInv, OtherStmt
    PROVE  IInv'
<1>1. pc = "body" /\ stmts' \in 0..MaxStmts
  BY VisitsIs DEF OtherStmt, IInv, Small
<1>2. Control' /\ fn' = fn
  <2>1. Visited
    BY <1>1 DEF OtherStmt, Visited, IInv, Small, Completes
  <2>2. QED
    BY <1>1, <2>1, CompletesIs DEF OtherStmt
<1>3. PICK c \in CursorT : c.fn = fn
  BY <1>1, InBody, CursorIs DEF Kind
<1>4. Takes(fn, slots, num, nextId, lost, seen, slots', num', nextId', lost', seen', {}, c, 0)
  <2>4. slots' = slots /\ num' = num /\ nextId' = nextId /\ seen' = seen
    BY DEF OtherStmt, table
  <2>5. lost' = lost \/ lost' = TRUE
    BY DEF OtherStmt
  <2>6. Later(lost, lost')
    BY <2>5 DEF Later
  <2>1. slots' = slots /\ num' = num /\ nextId' = nextId /\ seen' = seen /\ Later(lost, lost')
    BY <2>4, <2>6
  <2>2. nextId' \in Nat /\ nextId <= nextId'
    BY <2>1 DEF IInv, Table
  <2>3. QED
    BY <1>3, <2>1, <2>2, TakesNone
<1>5. Adds(fn, slots, slots', {}, c, 0, nextId, nextId', seen, seen', lost', << >>, << >>)
  BY AddsNone
<1>6. Grown(fndef, fndef', << >>) /\ Grown(fnimpl, fnimpl', << >>)
  BY DEF Grown, OtherStmt
<1>7. QED
  BY <1>1, <1>2, <1>4, <1>5, <1>6, BodyStep

IdTaken(a, s, c, i, x, x2, l2) ==
    \/ a = x /\ x < x2
    \/ a = SlotAt(s, i).id /\ Loose(c, l2)

\* A cursor is looked up in the table, after the variables of T were told,
\* and its slot receives the id a.
LEMMA TakesLooked ==
    ASSUME IInv, NEW T \in SUBSET Pendings(slots), NEW s0, Tells(slots, s0, T), NEW c \in CursorT, c.fn = fn,
           NEW m, m = MkIn(s0, num, c), NEW a, Wrote(slots', m.slots, m.idx, a), num' = m.num,
           IdTaken(a, slots, c, m.idx, nextId, nextId', lost'),
           nextId' \in Nat, nextId <= nextId', Later(lost, lost'), seen \subseteq seen'
    PROVE  /\ Takes(fn, slots, num, nextId, lost, seen, slots', num', nextId', lost', seen', T, c, m.idx)
           /\ m.idx \in 1..Len(slots') /\ slots'[m.idx].id = a
<1>1. slots \in Seq(Slot) /\ num \in Nat
  BY DEF IInv, Table
<1>2. Turn(slots, num, slots', m.num, T, c, m.idx) /\ m.idx \in 1..Len(slots') /\ slots'[m.idx].id = a
  <2>1. PICK u : u = slots'
    OBVIOUS
  <2>2. Turn(slots, num, u, m.num, T, c, m.idx) /\ m.idx \in 1..Len(u) /\ u[m.idx].id = a
    BY <1>1, <2>1, Placed DEF Wrote
  <2>3. QED
    BY <2>1, <2>2
<1>3. GivenId(slots, slots', c, m.idx, nextId, nextId', lost')
  BY <1>2 DEF GivenId, IdTaken
<1>4. m.idx \in Nat
  BY <1>2
<1>5. QED
  BY <1>2, <1>3, <1>4 DEF Takes

\* The cursor was there, and its slot keeps its id.
LEMMA TakesFound ==
    ASSUME IInv, NEW T \in SUBSET Pendings(slots), NEW s0, Tells(slots, s0, T), NEW c \in CursorT, c.fn = fn,
           NEW m, m = MkIn(s0, num, c), ~m.new, Wrote(slots', m.slots, m.idx, m.slots[m.idx].id), num' = m.num,
           nextId' \in Nat, nextId <= nextId', Later(lost, lost'), seen \subseteq seen'
    PROVE  /\ Takes(fn, slots, num, nextId, lost, seen, slots', num', nextId', lost', seen', T, c, 0)
           /\ m.idx \in 1..Len(slots) /\ slots[m.idx].key = c /\ slots[m.idx].id = m.slots[m.idx].id
<1>1. slots \in Seq(Slot) /\ num \in Nat
  BY DEF IInv, Table
<1>2. /\ Turn(slots, num, slots', m.num, T, c, 0)
      /\ m.num = num /\ m.idx \in 1..num /\ m.idx \in 1..Len(slots)
      /\ slots[m.idx].key = c /\ slots[m.idx].id = m.slots[m.idx].id
  BY <1>1, Unwritten
<1>3. QED
  BY <1>2 DEF Takes

\* What the table is when a cursor of the kernel has been looked up.
LEMMA Looked ==
    ASSUME IInv, pc = "body", NEW kind \in Kind, NEW b \in Names, NEW T, NEW s0, Tells(slots, s0, T),
           NEW c, c = Cursor(fn, kind, b), NEW m, m = MkIn(s0, num, c)
    PROVE  /\ c \in CursorT /\ c.fn = fn /\ c.kind = kind
           /\ m.slots \in Seq(Slot) /\ m.num \in Nat /\ num <= m.num /\ m.idx \in 1..Len(m.slots)
           /\ m.slots[m.idx] \in Slot /\ m.slots[m.idx].id \in Nat
           /\ m.new => m.slots[m.idx].id = SlotAt(s0, m.idx).id
<1>1. c \in CursorT /\ c.fn = fn /\ c.kind = kind
  <2>1. fn \in 1..Kernels /\ b \in Nat
    BY InBody, KernelAssumption
  <2>2. QED
    BY <2>1, CursorIs
<1>2. s0 \in Seq(Slot) /\ num \in Nat
  BY DEF Tells, IInv, Table
<1>3. m.slots \in Seq(Slot) /\ m.num \in Nat /\ num <= m.num /\ m.idx \in 1..Len(m.slots)
  BY <1>1, <1>2, MkInOK
<1>4. m.slots[m.idx] \in Slot
  <2> HIDE DEF Slot
  <2>1. QED
    BY <1>3
<1>5. m.slots[m.idx].id \in Nat
  BY <1>4, SlotIs
<1>6. m.new => m.slots[m.idx].id = SlotAt(s0, m.idx).id
  <2>1. m.new => Added(s0, num, m.slots, m.num, c, m.idx)
    BY <1>1, <1>2, MkInIs
  <2>2. QED
    BY <2>1 DEF Added
<1>7. QED
  BY <1>1, <1>3, <1>4, <1>5, <1>6

\* A branch to label a, then a label of id b.
LEMMA BranchAndLabel ==
    ASSUME NEW a \in Nat, NEW b \in Nat, NEW y, y = Instr("Branch", 0, << a >>), NEW z, z = Instr("Label", b, << >>)
    PROVE  /\ y \in Instruction /\ y.id = 0 /\ y.op = "Branch" /\ y.args = << a >>
           /\ z \in Instruction /\ z.id = b /\ z.op = "Label"
           /\ \A l : ~Hit(l, y, z)
<1>1. "Branch" \in Ops /\ "Label" \in Ops /\ 0 \in Nat
  BY DEF Ops
<1>2. InstrIs(y, "Branch", 0, << a >>)
  BY <1>1, InstrOfOne
<1>3. InstrIs(z, "Label", b, << >>)
  BY <1>1, PlainInstr
<1>4. QED
  BY <1>2, <1>3 DEF InstrIs, Hit

LEMMA GotoStmtStep ==
    ASSUME IInv, NEW b \in Names, GotoStmt(b)
    PROVE  IInv'
<1>1. PICK c : c = Cursor(fn, "label", b)
  OBVIOUS
<1>2. PICK m : m = MkIn(slots, num, c)
  OBVIOUS
<1>3. PICK id : id = IF m.new THEN nextId ELSE m.slots[m.idx].id
  OBVIOUS
<1>4. PICK after : after = IF m.new THEN nextId + 1 ELSE nextId
  OBVIOUS
<1>5. /\ Visits(jumps \cup {c}, seen)
      /\ slots' = [m.slots EXCEPT ![m.idx].id = id]
      /\ num' = m.num
      /\ nextId' = after + 1
      /\ fnimpl' = fnimpl \o << Instr("Branch", 0, << id >>), Instr("Label", after, << >>) >>
      /\ jumps' = jumps \cup {c}
      /\ Completes
      /\ UNCHANGED << fndef, hasRet, seen, lost >>
  BY <1>1, <1>2, <1>3, <1>4 DEF GotoStmt, Mk
<1>6. IsFiniteSet(jumps \cup {c})
  BY FS_AddElement DEF IInv, Small
<1>7. pc = "body" /\ stmts' \in 0..MaxStmts
  BY <1>5, <1>6, VisitsIs
<1>8. Control' /\ fn' = fn
  <2>1. Visited
    BY <1>5, <1>6, <1>7 DEF Visited, IInv, Small, Completes
  <2>2. QED
    BY <1>5, <1>7, <2>1, CompletesIs
<1>9. slots \in Seq(Slot) /\ num \in Nat /\ nextId \in Nat /\ FirstId <= nextId /\ FirstId \in Nat /\ 0 < FirstId
  BY IdsAre DEF IInv, Table
<1>10. Tells(slots, slots, {})
  BY <1>9, TellsNone
<1>11. /\ c \in CursorT /\ c.fn = fn /\ c.kind = "label"
       /\ m.slots \in Seq(Slot) /\ m.num \in Nat /\ num <= m.num /\ m.idx \in 1..Len(m.slots)
       /\ m.slots[m.idx] \in Slot /\ m.slots[m.idx].id \in Nat
  <2>1. "label" \in Kind
    BY DEF Kind
  <2>2. QED
    BY <1>1, <1>2, <1>7, <1>10, <2>1, Looked
<1>12. id \in Nat /\ after \in Nat /\ nextId <= after
  BY <1>3, <1>4, <1>9, <1>11
<1>13. Wrote(slots', m.slots, m.idx, id)
  BY <1>5, <1>11, <1>12, IdWritten
<1>14. /\ Later(lost, lost') /\ seen \subseteq seen' /\ nextId' \in Nat /\ nextId <= nextId' /\ after < nextId'
       /\ {} \in SUBSET Pendings(slots) /\ num' = m.num
  BY <1>5, <1>9, <1>12 DEF Later
<1>15. PICK y, z : y = Instr("Branch", 0, << id >>) /\ z = Instr("Label", after, << >>)
  OBVIOUS
<1>16. /\ y \in Instruction /\ y.id = 0
       /\ z \in Instruction /\ z.id = after
       /\ ~Hit(lost', y, z)
  BY <1>12, <1>15, BranchAndLabel
<1>17. Grown(fndef, fndef', << >>) /\ Grown(fnimpl, fnimpl', << y, z >>)
  BY <1>5, <1>15 DEF Grown
<1>18. CASE m.new
  <2>1. id = nextId /\ after = nextId + 1
    BY <1>3, <1>4, <1>18
  <2>2. IdTaken(id, slots, c, m.idx, nextId, nextId', lost')
    BY <1>9, <1>14, <2>1 DEF IdTaken
  <2>3. /\ Takes(fn, slots, num, nextId, lost, seen, slots', num', nextId', lost', seen', {}, c, m.idx)
        /\ m.idx \in 1..Len(slots') /\ slots'[m.idx].id = id
    BY <1>2, <1>10, <1>11, <1>13, <1>14, <2>2, TakesLooked, ZenonT(40)
  <2>4. /\ NewId(y, fn, slots, slots', {}, c, m.idx, nextId, nextId', seen, seen')
        /\ NewId(z, fn, slots, slots', {}, c, m.idx, nextId, nextId', seen, seen')
    BY <1>9, <1>14, <1>16, <2>1, <2>3 DEF NewId
  <2>5. Adds(fn, slots, slots', {}, c, m.idx, nextId, nextId', seen, seen', lost', << >>, << y, z >>)
    BY <1>16, <2>4, AddsTwo
  <2>6. QED
    BY <1>7, <1>8, <1>17, <2>3, <2>5, BodyStep
<1>19. CASE ~m.new
  <2>1. id = m.slots[m.idx].id /\ after = nextId
    BY <1>3, <1>4, <1>19
  <2>2. Takes(fn, slots, num, nextId, lost, seen, slots', num', nextId', lost', seen', {}, c, 0)
    BY <1>2, <1>10, <1>11, <1>13, <1>14, <1>19, <2>1, TakesFound
  <2>3. /\ NewId(y, fn, slots, slots', {}, c, 0, nextId, nextId', seen, seen')
        /\ NewId(z, fn, slots, slots', {}, c, 0, nextId, nextId', seen, seen')
    BY <1>9, <1>14, <1>16, <2>1 DEF NewId
  <2>4. Adds(fn, slots, slots', {}, c, 0, nextId, nextId', seen, seen', lost', << >>, << y, z >>)
    BY <1>16, <2>3, AddsTwo
  <2>5. QED
    BY <1>7, <1>8, <1>17, <2>2, <2>4, BodyStep
<1>20. QED
  BY <1>18, <1>19

\* Nothing is emitted; a section may be lost.
LEMMA QuietStep ==
    ASSUME IInv, pc = "body", fn' = fn, Control', NEW c, NEW i,
           Takes(fn, slots, num, nextId, lost, seen, slots', num', nextId', lost', seen', {}, c, i),
           fndef' = fndef, fnimpl' = fnimpl \/ fnimpl' = << >>
    PROVE  IInv'
<1>1. Adds(fn, slots, slots', {}, c, i, nextId, nextId', seen, seen', lost', << >>, << >>)
  BY AddsNone
<1>2. Grown(fndef, fndef', << >>) /\ Grown(fnimpl, fnimpl', << >>)
  BY DEF Grown
<1>3. QED
  BY <1>1, <1>2, BodyStep

\* The code of an expression is added, under ids that are not in the table.
LEMMA CompiledStep ==
    ASSUME IInv, pc = "body", Visited, NEW c, NEW i, NEW q, NEW r \in Nat, nextId <= r, Compiled(q, r),
           Takes(fn, slots, num, nextId, lost, seen, slots', num', nextId', lost', seen', {}, c, i),
           i \in 1..Len(slots') => slots'[i].id \in Nat /\ slots'[i].id < r,
           fndef' = fndef
    PROVE  IInv'
<1>1. Control' /\ fn' = fn
  <2>1. fails' \in 0..MaxFails
    BY FailsIs DEF Compiled, IInv, Small
  <2>2. Small'
    BY <2>1 DEF Small, Visited
  <2>3. QED
    BY <2>2 DEF Control, Compiled
<1>2. PICK e : Belongs(e, q, r, nextId') /\ Grown(fnimpl, fnimpl', e)
  BY DEF Compiled
<1>3. nextId \in Nat /\ nextId' \in Nat
  BY DEF IInv, Table, Compiled
<1>4. ASSUME NEW y \in Elements(e)
      PROVE  y.id \in Nat /\ NewId(y, fn, slots, slots', {}, c, i, nextId, nextId', seen, seen')
  <2>1. PICK a \in Nat : a = y.id /\ r <= a /\ a < nextId'
    BY <1>2 DEF Belongs
  <2>2. a >= nextId /\ a < nextId'
    BY <1>3, <2>1
  <2>3. i \in 1..Len(slots') => slots'[i].id # a
    BY <2>1
  <2>4. QED
    BY <2>1, <2>2, <2>3 DEF NewId
<1>5. Uniq(lost', e) /\ e \in Seq(Instruction)
  BY <1>2, BelongsUniq DEF Belongs
<1>6. << >> \in Seq(Instruction) /\ Elements(<< >>) = {} /\ Uniq(lost', << >>)
  BY NoneEmitted
<1>7. Adds(fn, slots, slots', {}, c, i, nextId, nextId', seen, seen', lost', << >>, e)
  BY <1>4, <1>5, <1>6 DEF Adds, Apart
<1>8. Grown(fndef, fndef', << >>)
  BY DEF Grown
<1>9. QED
  BY <1>1, <1>2, <1>7, <1>8, BodyStep

LEMMA MkFailsStep ==
    ASSUME IInv, pc = "body", stmts' \in 0..MaxStmts, IsFiniteSet(jumps'), seen \subseteq seen', NEW c, MkFails(c)
    PROVE  IInv'
<1>1. /\ Breaks /\ slots' = << >> /\ num' = num /\ nextId' = nextId /\ fndef' = fndef /\ fnimpl' = fnimpl
      /\ hasRet' = hasRet /\ err' = err /\ lost' = TRUE
  BY DEF MkFails, Breaks
<1>2. Control' /\ fn' = fn
  <2>1. Visited
    BY <1>1 DEF Visited, IInv, Small
  <2>2. QED
    BY <1>1, <2>1, BreaksIs
<1>3. PICK g \in CursorT : g.fn = fn
  BY InBody, CursorIs DEF Kind
<1>4. nextId' \in Nat /\ nextId <= nextId' /\ Later(lost, lost')
  BY <1>1 DEF IInv, Table, Later
<1>5. Takes(fn, slots, num, nextId, lost, seen, slots', num', nextId', lost', seen', {}, g, 0)
  BY <1>1, <1>3, <1>4, TakesNone
<1>6. QED
  BY <1>1, <1>2, <1>5, QuietStep

LEMMA GotoStmtFailsStep ==
    ASSUME IInv, NEW b \in Names, GotoStmtFails(b)
    PROVE  IInv'
<1>1. PICK c : c = Cursor(fn, "label", b)
  OBVIOUS
<1>2. PICK m : m = MkIn(slots, num, c)
  OBVIOUS
<1>3. PICK after : after = IF m.new THEN nextId + 1 ELSE nextId
  OBVIOUS
<1>4. Visits(jumps, seen) /\ seen' = seen /\ jumps' = jumps
  BY DEF GotoStmtFails
<1>5. \/ MkFails(c)
      \/ /\ Breaks
         /\ slots' = [m.slots EXCEPT ![m.idx].id = IF m.new THEN nextId ELSE @]
         /\ num' = m.num
         /\ nextId' \in {after, after + 1}
         /\ fnimpl' = << >>
         /\ fndef' = fndef /\ hasRet' = hasRet /\ err' = err
  BY <1>1, <1>2, <1>3 DEF GotoStmtFails, Mk
<1>6. IsFiniteSet(jumps)
  BY DEF IInv, Small
<1>7. pc = "body" /\ stmts' \in 0..MaxStmts
  BY <1>4, <1>6, VisitsIs
<1>8. CASE MkFails(c)
  BY <1>4, <1>6, <1>7, <1>8, MkFailsStep
<1>9. ASSUME Breaks, slots' = [m.slots EXCEPT ![m.idx].id = IF m.new THEN nextId ELSE @],
             num' = m.num, nextId' \in {after, after + 1}, fnimpl' = << >>, fndef' = fndef, hasRet' = hasRet, err' = err
      PROVE  IInv'
  <2>1. Control' /\ fn' = fn
    <3>1. Visited
      BY <1>4, <1>6, <1>7, <1>9 DEF Visited, IInv, Small, Breaks
    <3>2. QED
      BY <1>7, <1>9, <3>1, BreaksIs
  <2>2. slots \in Seq(Slot) /\ num \in Nat /\ nextId \in Nat
    BY DEF IInv, Table
  <2>3. Tells(slots, slots, {})
    BY <2>2, TellsNone
  <2>4. /\ c \in CursorT /\ c.fn = fn /\ c.kind = "label"
        /\ m.slots \in Seq(Slot) /\ m.num \in Nat /\ num <= m.num /\ m.idx \in 1..Len(m.slots)
        /\ m.slots[m.idx] \in Slot /\ m.slots[m.idx].id \in Nat
    <3>1. "label" \in Kind
      BY DEF Kind
    <3>2. QED
      BY <1>1, <1>2, <1>7, <2>3, <3>1, Looked
  <2>5. PICK id \in Nat : id = IF m.new THEN nextId ELSE m.slots[m.idx].id
    BY <2>2, <2>4
  <2>6. slots' = [m.slots EXCEPT ![m.idx].id = id]
    BY <1>9, <2>5
  <2>7. Wrote(slots', m.slots, m.idx, id)
    BY <2>4, <2>6, IdWritten
  <2>8. /\ Later(lost, lost') /\ seen \subseteq seen' /\ nextId' \in Nat /\ nextId <= nextId'
        /\ {} \in SUBSET Pendings(slots) /\ num' = m.num
    BY <1>3, <1>4, <1>9, <2>2 DEF Later, Breaks
  <2>9. CASE m.new
    <3>1. id = nextId /\ nextId < nextId'
      BY <1>3, <1>9, <2>2, <2>5, <2>9
    <3>2. IdTaken(id, slots, c, m.idx, nextId, nextId', lost')
      BY <3>1 DEF IdTaken
    <3>3. Takes(fn, slots, num, nextId, lost, seen, slots', num', nextId', lost', seen', {}, c, m.idx)
      BY <1>2, <2>3, <2>4, <2>7, <2>8, <3>2, TakesLooked
    <3>4. QED
      BY <1>7, <1>9, <2>1, <3>3, QuietStep
  <2>10. CASE ~m.new
    <3>1. id = m.slots[m.idx].id
      BY <2>5, <2>10
    <3>2. Takes(fn, slots, num, nextId, lost, seen, slots', num', nextId', lost', seen', {}, c, 0)
      BY <1>2, <2>3, <2>4, <2>7, <2>8, <2>10, <3>1, TakesFound
    <3>3. QED
      BY <1>7, <1>9, <2>1, <3>2, QuietStep
  <2>11. QED
    BY <2>9, <2>10
<1>10. QED
  BY <1>5, <1>8, <1>9

\* A new slot of a variable or an expression, that keeps its id.
LEMMA TakesKept ==
    ASSUME IInv, pc = "body", NEW c \in CursorT, c.fn = fn, Loose(c, lost'), NEW m, m = MkIn(slots, num, c),
           slots' = m.slots, num' = m.num, nextId' \in Nat, nextId <= nextId', Later(lost, lost'), seen \subseteq seen'
    PROVE  \E i : /\ Takes(fn, slots, num, nextId, lost, seen, slots', num', nextId', lost', seen', {}, c, i)
                  /\ i \in 1..Len(slots') => slots'[i].id < nextId
<1>1. slots \in Seq(Slot) /\ num \in Nat /\ nextId \in Nat /\ 0 < nextId
  BY IdsAre DEF IInv, Table
<1>2. Tells(slots, slots, {}) /\ {} \in SUBSET Pendings(slots)
  BY <1>1, TellsNone
<1>3. m.slots \in Seq(Slot) /\ m.idx \in 1..Len(m.slots)
  BY <1>1, MkInOK
<1>4. Wrote(slots', m.slots, m.idx, m.slots[m.idx].id)
  BY <1>3, NotWritten
<1>5. CASE m.new
  <2>1. PICK i : i = m.idx
    OBVIOUS
  <2>2. Added(slots, num, m.slots, m.num, c, i)
    BY <1>1, <1>5, <2>1, MkInIs
  <2>3. m.slots[i].id = SlotAt(slots, i).id /\ i \in Nat \ {0}
    BY <1>3, <2>1, <2>2 DEF Added
  <2>4. IdTaken(m.slots[i].id, slots, c, i, nextId, nextId', lost')
    BY <2>3 DEF IdTaken
  <2>5. Takes(fn, slots, num, nextId, lost, seen, slots', num', nextId', lost', seen', {}, c, i)
    BY <1>2, <1>4, <2>1, <2>4, TakesLooked
  <2>6. SlotAt(slots, i).id < nextId
    <3>1. SlotAt(slots, i) = IF i <= Len(slots) THEN slots[i] ELSE EmptySlot
      BY <1>1, <2>3, SlotAtIs
    <3>2. \A j \in 1..Len(slots) : slots[j].id < nextId
      BY InBody DEF State, Before, TableOK, BoundAt
    <3>3. PICK q \in Nat : q = Len(slots)
      BY <1>1
    <3>4. CASE i <= q
      BY <2>3, <3>1, <3>2, <3>3, <3>4
    <3>5. CASE ~(i <= q)
      BY <1>1, <3>1, <3>3, <3>5, SlotIs
    <3>6. QED
      BY <3>4, <3>5
  <2>7. slots'[i].id < nextId
    BY <2>3, <2>6
  <2>8. QED
    BY <2>5, <2>7
<1>6. CASE ~m.new
  <2>1. Takes(fn, slots, num, nextId, lost, seen, slots', num', nextId', lost', seen', {}, c, 0)
    BY <1>2, <1>4, <1>6, TakesFound
  <2>2. ~(0 \in 1..Len(slots'))
    BY <1>3
  <2>3. QED
    BY <2>1, <2>2
<1>7. QED
  BY <1>5, <1>6

LEMMA VarDeclUnknownStep ==
    ASSUME IInv, NEW b \in Names, VarDeclUnknown(b)
    PROVE  IInv'
<1>1. PICK c : c = Cursor(fn, "var", b)
  OBVIOUS
<1>2. PICK m : m = MkIn(slots, num, c)
  OBVIOUS
<1>3. /\ Visits(jumps, seen \cup {c})
      /\ slots' = m.slots /\ num' = m.num /\ seen' = seen \cup {c}
      /\ pc' = "leave" /\ lost' = TRUE /\ err' \in {err, MET_INVAL}
      /\ UNCHANGED << fn, nextId, fndef, fnimpl, hasRet, jumps, fails >>
  BY <1>1, <1>2 DEF VarDeclUnknown, VisitsNew, Mk
<1>4. pc = "body" /\ stmts' \in 0..MaxStmts
  BY <1>3, VisitsIs DEF IInv, Small
<1>5. Control' /\ fn' = fn
  BY <1>3, <1>4 DEF Control, IInv, Small
<1>6. c \in CursorT /\ c.fn = fn /\ c.kind = "var"
  <2>1. fn \in 1..Kernels /\ b \in Nat /\ "var" \in Kind
    BY <1>4, InBody, KernelAssumption DEF Kind
  <2>2. QED
    BY <1>1, <2>1, CursorIs
<1>7. /\ Loose(c, lost') /\ nextId' \in Nat /\ nextId <= nextId' /\ Later(lost, lost') /\ seen \subseteq seen'
      /\ num' = m.num /\ slots' = m.slots
  BY <1>3, <1>6 DEF Loose, Later, IInv, Table
<1>8. PICK i : Takes(fn, slots, num, nextId, lost, seen, slots', num', nextId', lost', seen', {}, c, i)
  BY <1>2, <1>4, <1>6, <1>7, TakesKept
<1>9. fndef' = fndef /\ fnimpl' = fnimpl
  BY <1>3
<1>10. QED
  BY <1>4, <1>5, <1>8, <1>9, QuietStep

LEMMA VarDeclFailsStep ==
    ASSUME IInv, NEW b \in Names, VarDeclFails(b)
    PROVE  IInv'
<1>1. PICK c : c = Cursor(fn, "var", b)
  OBVIOUS
<1>2. Visits(jumps, seen \cup {c}) /\ MkFails(c) /\ seen' = seen /\ jumps' = jumps
  BY <1>1 DEF VarDeclFails, VisitsNew
<1>3. IsFiniteSet(jumps)
  BY DEF IInv, Small
<1>4. pc = "body" /\ stmts' \in 0..MaxStmts
  BY <1>2, <1>3, VisitsIs
<1>5. QED
  BY <1>2, <1>3, <1>4, MkFailsStep

LEMMA VarWritten ==
    ASSUME NEW t \in Seq(Slot), NEW i \in 1..Len(t), NEW a \in Nat, NEW number \in BOOLEAN, NEW init \in BOOLEAN,
           NEW u, u = [t EXCEPT ![i].id = a, ![i].number = number, ![i].init = IF init THEN a + 1 ELSE @]
    PROVE  Wrote(u, t, i, a)
<1>1. PICK z \in Slot : z = t[i]
  <2> HIDE DEF Slot
  <2>1. QED
    OBVIOUS
<1>2. z.init \in Nat
  BY SlotIs
<1>3. PICK w \in Nat : w = IF init THEN a + 1 ELSE z.init
  BY <1>2
<1>4. PICK y : y = [z EXCEPT !.id = a, !.number = number, !.init = w]
  OBVIOUS
<1>5. y \in Slot /\ y.key = z.key /\ y.alloc = z.alloc /\ y.id = a
  BY <1>4 DEF Slot
<1> HIDE DEF Slot
<1>6. u = [t EXCEPT ![i] = y]
  BY <1>1, <1>3, <1>4 DEF Slot
<1>7. QED
  BY <1>1, <1>5, <1>6, SlotWritten

LEMMA VarDeclStep ==
    ASSUME IInv, NEW b \in Names, NEW number \in BOOLEAN, NEW init \in BOOLEAN, VarDecl(b, number, init)
    PROVE  IInv'
<1>1. PICK c : c = Cursor(fn, "var", b)
  OBVIOUS
<1>2. PICK m : m = MkIn(slots, num, c)
  OBVIOUS
<1>3. PICK r : r = nextId + 1
  OBVIOUS
<1>4. /\ Visits(jumps, seen \cup {c})
      /\ slots' = [m.slots EXCEPT ![m.idx].id = nextId,
                                  ![m.idx].number = number,
                                  ![m.idx].init = IF init THEN nextId + 1 ELSE @]
      /\ num' = m.num /\ seen' = seen \cup {c}
      /\ UNCHANGED << fndef, hasRet, jumps >>
  BY <1>1, <1>2, SMTT(30) DEF VarDecl, VisitsNew, Mk
<1>5. \/ nextId' = r /\ Completes /\ lost' = lost /\ fnimpl' = fnimpl
      \/ Translates(slots', m.num, c, r) \/ GivesUp(slots', m.num, c, r)
  BY <1>1, <1>2, <1>3, <1>4 DEF VarDecl, Mk
<1>6. pc = "body" /\ stmts' \in 0..MaxStmts /\ IsFiniteSet(jumps')
  BY <1>4, VisitsIs DEF IInv, Small
<1>7. slots \in Seq(Slot) /\ num \in Nat /\ nextId \in Nat /\ r \in Nat /\ nextId < r /\ nextId <= r
  BY <1>3 DEF IInv, Table
<1>8. Tells(slots, slots, {}) /\ {} \in SUBSET Pendings(slots)
  BY <1>7, TellsNone
<1>9. /\ c \in CursorT /\ c.fn = fn
      /\ m.slots \in Seq(Slot) /\ m.idx \in 1..Len(m.slots)
  <2>1. PICK kind \in Kind : kind = "var"
    BY DEF Kind
  <2>2. c = Cursor(fn, kind, b) /\ Tells(slots, slots, {})
    BY <1>1, <1>8, <2>1
  <2>3. QED
    BY <1>2, <1>6, <2>2, Looked
<1>10. Wrote(slots', m.slots, m.idx, nextId)
  BY <1>4, <1>7, <1>9, VarWritten
<1>11. slots' \in Seq(Slot)
  BY <1>9, <1>10 DEF Wrote, Put
<1>12. CASE nextId' = r /\ Completes /\ lost' = lost /\ fnimpl' = fnimpl
  <2>1. nextId' \in Nat /\ nextId <= nextId' /\ nextId < nextId'
    BY <1>7, <1>12
  <2>2. Visited /\ Later(lost, lost')
    BY <1>4, <1>6, <1>12 DEF Visited, Later, IInv, Small, Completes
  <2>3. IdTaken(nextId, slots, c, m.idx, nextId, nextId', lost')
    BY <2>1 DEF IdTaken
  <2>4. seen \subseteq seen' /\ num' = m.num /\ fndef' = fndef
    BY <1>4
  <2>5. Takes(fn, slots, num, nextId, lost, seen, slots', num', nextId', lost', seen', {}, c, m.idx)
    BY <1>2, <1>8, <1>9, <1>10, <2>1, <2>2, <2>3, <2>4, TakesLooked
  <2>6. Control' /\ fn' = fn
    BY <1>6, <1>12, <2>2, CompletesIs
  <2>7. QED
    BY <1>6, <1>12, <2>4, <2>5, <2>6, QuietStep
<1>13. CASE Translates(slots', m.num, c, r) \/ GivesUp(slots', m.num, c, r)
  <2>1. Compiled(c, r)
    BY <1>7, <1>9, <1>11, <1>13, CompiledIs
  <2>2. nextId' \in Nat /\ nextId <= nextId' /\ nextId < nextId'
    BY <1>7, <2>1 DEF Compiled
  <2>3. Visited /\ Later(lost, lost')
    <3>1. fails' \in 0..MaxFails
      BY <2>1, CompiledParts, FailsIs DEF IInv, Small
    <3>2. lost' \in BOOLEAN /\ Later(lost, lost') /\ err' = OK
      BY <2>1, CompiledParts DEF Later, IInv, Small
    <3>3. QED
      BY <1>4, <1>6, <3>1, <3>2 DEF Visited, IInv, Small
  <2>4. IdTaken(nextId, slots, c, m.idx, nextId, nextId', lost')
    BY <2>2 DEF IdTaken
  <2>5. seen \subseteq seen' /\ num' = m.num /\ fndef' = fndef
    BY <1>4
  <2>6. /\ Takes(fn, slots, num, nextId, lost, seen, slots', num', nextId', lost', seen', {}, c, m.idx)
        /\ slots'[m.idx].id = nextId
    BY <1>2, <1>8, <1>9, <1>10, <2>2, <2>3, <2>4, <2>5, TakesLooked
  <2>7. QED
    BY <1>6, <1>7, <2>1, <2>3, <2>5, <2>6, CompiledStep
<1>14. QED
  BY <1>5, <1>12, <1>13

LEMMA ExprStmtStep ==
    ASSUME IInv, NEW b \in Names, ExprStmt(b)
    PROVE  IInv'
<1>1. PICK c : c = Cursor(fn, "expr", b)
  OBVIOUS
<1>2. PICK m : m = MkIn(slots, num, c)
  OBVIOUS
<1>3. /\ Visits(jumps, seen \cup {c})
      /\ slots' = m.slots /\ num' = m.num /\ seen' = seen \cup {c}
      /\ Translates(m.slots, m.num, c, nextId) \/ GivesUp(m.slots, m.num, c, nextId)
      /\ UNCHANGED << fndef, hasRet, jumps >>
  BY <1>1, <1>2 DEF ExprStmt, VisitsNew, Mk
<1>4. pc = "body" /\ stmts' \in 0..MaxStmts /\ IsFiniteSet(jumps')
  BY <1>3, VisitsIs DEF IInv, Small
<1>5. slots \in Seq(Slot) /\ num \in Nat /\ nextId \in Nat /\ nextId <= nextId
  BY DEF IInv, Table
<1>6. c \in CursorT /\ c.fn = fn /\ c.kind = "expr" /\ m.slots \in Seq(Slot)
  <2>1. Tells(slots, slots, {}) /\ "expr" \in Kind
    BY <1>5, TellsNone DEF Kind
  <2>2. QED
    BY <1>1, <1>2, <1>4, <2>1, Looked
<1>7. Compiled(c, nextId)
  BY <1>3, <1>5, <1>6, CompiledIs
<1>8. Visited /\ Later(lost, lost')
  <2>1. fails' \in 0..MaxFails
    BY <1>7, CompiledParts, FailsIs DEF IInv, Small
  <2>2. lost' \in BOOLEAN /\ Later(lost, lost') /\ err' = OK
    BY <1>7, CompiledParts DEF Later, IInv, Small
  <2>3. QED
    BY <1>3, <1>4, <2>1, <2>2 DEF Visited, IInv, Small
<1>9. /\ Loose(c, lost') /\ nextId' \in Nat /\ nextId <= nextId' /\ nextId < nextId'
      /\ seen \subseteq seen' /\ num' = m.num /\ slots' = m.slots /\ fndef' = fndef
  <2>1. nextId' \in Nat /\ nextId <= nextId' /\ nextId < nextId'
    BY <1>5, <1>7 DEF Compiled
  <2>2. Loose(c, lost')
    BY <1>6 DEF Loose
  <2>3. QED
    BY <1>3, <2>1, <2>2
<1>10. PICK i : /\ Takes(fn, slots, num, nextId, lost, seen, slots', num', nextId', lost', seen', {}, c, i)
                /\ i \in 1..Len(slots') => slots'[i].id < nextId
  BY <1>2, <1>4, <1>6, <1>8, <1>9, TakesKept
<1>11. i \in 1..Len(slots') => slots'[i].id \in Nat
  <2>1. i \in 1..Len(slots') => slots'[i] \in Slot
    <3>1. slots' \in Seq(Slot)
      BY <1>3, <1>6
    <3> HIDE DEF Slot
    <3>2. QED
      BY <3>1
  <2>2. QED
    BY <2>1, SlotIs
<1>12. QED
  BY <1>4, <1>5, <1>7, <1>8, <1>9, <1>10, <1>11, CompiledStep

LEMMA ExprStmtFailsStep ==
    ASSUME IInv, NEW b \in Names, ExprStmtFails(b)
    PROVE  IInv'
<1>1. PICK c : c = Cursor(fn, "expr", b)
  OBVIOUS
<1>2. PICK m : m = MkIn(slots, num, c)
  OBVIOUS
<1>3. Visits(jumps, seen \cup {c}) /\ seen' = seen /\ jumps' = jumps
  BY <1>1 DEF ExprStmtFails, VisitsNew
<1>4. \/ MkFails(c)
      \/ /\ Breaks
         /\ slots' = m.slots /\ num' = m.num /\ nextId' = nextId + 1
         /\ err' \in {OK, ALLOC_FAILED}
         /\ fndef' = fndef /\ fnimpl' = fnimpl /\ hasRet' = hasRet
  BY <1>1, <1>2 DEF ExprStmtFails, Mk
<1>5. IsFiniteSet(jumps)
  BY DEF IInv, Small
<1>6. pc = "body" /\ stmts' \in 0..MaxStmts
  BY <1>3, <1>5, VisitsIs
<1>7. CASE MkFails(c)
  BY <1>3, <1>5, <1>6, <1>7, MkFailsStep
<1>8. ASSUME Breaks, slots' = m.slots, num' = m.num, nextId' = nextId + 1, err' \in {OK, ALLOC_FAILED},
             fndef' = fndef, fnimpl' = fnimpl, hasRet' = hasRet
      PROVE  IInv'
  <2>1. Control' /\ fn' = fn
    <3>1. Visited
      BY <1>3, <1>5, <1>6, <1>8 DEF Visited, IInv, Small, Breaks
    <3>2. QED
      BY <1>6, <1>8, <3>1, BreaksIs
  <2>2. c \in CursorT /\ c.fn = fn /\ c.kind = "expr"
    <3>1. fn \in 1..Kernels /\ b \in Nat /\ "expr" \in Kind
      BY <1>6, InBody, KernelAssumption DEF Kind
    <3>2. QED
      BY <1>1, <3>1, CursorIs
  <2>3. nextId' \in Nat /\ nextId <= nextId'
    BY <1>8 DEF IInv, Table
  <2>4. Loose(c, lost') /\ Later(lost, lost') /\ seen \subseteq seen'
    BY <1>3, <1>8, <2>2 DEF Loose, Later, Breaks
  <2>5. slots' = m.slots /\ num' = m.num
    BY <1>8
  <2>6. PICK i : Takes(fn, slots, num, nextId, lost, seen, slots', num', nextId', lost', seen', {}, c, i)
    BY <1>2, <1>6, <2>2, <2>3, <2>4, <2>5, TakesKept
  <2>7. QED
    BY <1>6, <1>8, <2>1, <2>6, QuietStep
<1>9. QED
  BY <1>4, <1>7, <1>8

\* The variables told before a label.
LEMMA ToldIs ==
    ASSUME IInv, NEW T \in SUBSET Pending
    PROVE  Tells(slots, Told(T), T) /\ T \in SUBSET Pendings(slots)
<1>1. PICK q \in Nat : q = Len(slots) /\ DOMAIN slots = 1..q
  BY DEF IInv, Table
<1>2. \A j \in 1..q : slots[j] \in Slot
  BY <1>1 DEF IInv, Table
<1>3. PICK u : u = Told(T)
  OBVIOUS
<1>4. u = [i \in 1..q |-> IF i \in T THEN [slots[i] EXCEPT !.alloc = TRUE] ELSE slots[i]]
  BY <1>1, <1>3 DEF Told, Cap
<1>5. ASSUME NEW j \in 1..q
      PROVE  /\ u[j] \in Slot /\ u[j].key = slots[j].key /\ u[j].id = slots[j].id
             /\ u[j].alloc <=> slots[j].alloc \/ j \in T
  <2>1. PICK z \in Slot : z = slots[j]
    <3> HIDE DEF Slot
    <3>1. QED
      BY <1>2
  <2>2. PICK y : y = [z EXCEPT !.alloc = TRUE]
    OBVIOUS
  <2>3. y \in Slot /\ y.key = z.key /\ y.id = z.id /\ y.alloc = TRUE
    BY <2>2 DEF Slot
  <2> HIDE DEF Slot
  <2>4. u[j] = IF j \in T THEN y ELSE z
    BY <1>4, <2>1, <2>2
  <2>5. QED
    BY <2>1, <2>3, <2>4
<1>6. u \in Seq(Slot) /\ Len(u) = q
  <2> HIDE DEF Slot
  <2>1. u = [i \in 1..q |-> u[i]]
    BY <1>4
  <2>2. u \in [1..q -> Slot]
    BY <1>5, <2>1
  <2>3. QED
    BY <2>2
<1>7. Tells(slots, u, T)
  BY <1>1, <1>5, <1>6 DEF Tells
<1>8. T \in SUBSET Pendings(slots)
  <2>1. \A j \in Pending : j \in 1..q /\ slots[j].key.kind = "var" /\ ~slots[j].alloc
    <3>1. num \in Nat
      BY DEF IInv, Table
    <3>2. QED
      BY <1>1, <3>1 DEF Pending, Cap
  <2>2. QED
    BY <1>1, <2>1 DEF Pendings, IsPending
<1>9. QED
  BY <1>3, <1>7, <1>8

LEMMA VariablesIs ==
    ASSUME IInv, pc = "body", NEW T \in SUBSET Pending, NEW l2, Later(lost, l2), NEW d, d = Variables(T)
    PROVE  /\ d \in Seq(Instruction) /\ Uniq(l2, d)
           /\ \A y : y \in Elements(d) <=> \E j \in T : y = Variable(j)
           /\ \A j \in T : InstrIs(Variable(j), "Variable", slots[j].id, << >>)
<1>1. num \in Nat
  BY DEF IInv, Table
<1>2. PICK q \in Nat : q = Len(slots) /\ \A j \in 1..q : slots[j] \in Slot
  BY DEF IInv, Table
<1>3. \A j \in T : j \in 1..num /\ j \in 1..q /\ IsPending(slots, j)
  <2>1. \A j \in Pending : j \in 1..num /\ j \in 1..q /\ IsPending(slots, j)
    BY <1>1, <1>2 DEF Pending, Cap, IsPending
  <2>2. QED
    BY <2>1
<1>4. ASSUME NEW j \in T
      PROVE  InstrIs(Variable(j), "Variable", slots[j].id, << >>)
  <2>1. slots[j].id \in Nat
    <3>1. slots[j] \in Slot
      <4> HIDE DEF Slot
      <4>1. QED
        BY <1>2, <1>3
    <3>2. QED
      BY <3>1, SlotIs
  <2>2. "Variable" \in Ops
    BY DEF Ops
  <2>3. QED
    BY <2>1, <2>2, PlainInstr DEF Variable
<1> DEFINE piece == [i \in 1..num |-> IF i \in T THEN << Variable(i) >> ELSE << >>]
<1>5. d = Downward(num, piece)
  BY DEF Variables
<1>6. ASSUME NEW i \in 1..num
      PROVE  /\ piece[i] \in Seq(Instruction) /\ Uniq(l2, piece[i])
             /\ Elements(piece[i]) = IF i \in T THEN {Variable(i)} ELSE {}
  <2>1. CASE i \in T
    <3>1. Variable(i) \in Instruction
      BY <1>4, <2>1 DEF InstrIs
    <3>2. piece[i] = << Variable(i) >>
      BY <2>1
    <3> HIDE DEF piece
    <3>3. QED
      BY <2>1, <3>1, <3>2, OneEmitted
  <2>2. CASE i \notin T
    <3>1. piece[i] = << >>
      BY <2>2
    <3> HIDE DEF piece
    <3>2. QED
      BY <2>2, <3>1, NoneEmitted
  <2>3. QED
    BY <2>1, <2>2
<1>7. piece \in [1..num -> Seq(Instruction)]
  BY <1>6
<1>8. ASSUME NEW i \in 1..num, NEW j \in 1..num, i # j
      PROVE  Apart(l2, piece[i], piece[j])
  <2>1. SUFFICES ASSUME i \in T, j \in T, Hit(l2, Variable(i), Variable(j))
                 PROVE  FALSE
    <3> HIDE DEF piece
    <3>1. QED
      BY <1>6 DEF Apart
  <2>2. Variable(i).id = slots[i].id /\ Variable(j).id = slots[j].id /\ Variable(i).op = "Variable"
    BY <1>4, <2>1 DEF InstrIs
  <2>3. ~l2 /\ slots[i].id = slots[j].id
    BY <2>1, <2>2 DEF Hit
  <2>4. PendingsAt(fn, TRUE, slots, CodeOf(fndef, fnimpl))
    BY <2>3, InBody DEF State, Before, TableOK, WaitingAt, Later
  <2>5. QED
    BY <1>2, <1>3, <1>8, <2>1, <2>3, <2>4 DEF PendingsAt
<1> HIDE DEF piece
<1>9. d \in Seq(Instruction) /\ \A x : x \in Elements(d) <=> \E i \in 1..num : x \in Elements(piece[i])
  BY <1>1, <1>5, <1>7, DownwardIs
<1>10. Uniq(l2, d)
  BY <1>1, <1>5, <1>6, <1>7, <1>8, DownwardUniq
<1>11. \A y : y \in Elements(d) <=> \E j \in T : y = Variable(j)
  BY <1>3, <1>6, <1>9
<1>12. QED
  BY <1>4, <1>9, <1>10, <1>11

LEMMA StoresIs ==
    ASSUME IInv, NEW T \in SUBSET Pending, NEW l2, NEW d, d = Stores(T)
    PROVE  /\ d \in Seq(Instruction) /\ Uniq(l2, d)
           /\ \A y \in Elements(d) : \E j \in T : /\ y.id = 0 /\ y.op = "Store" /\ y.args[1] = slots[j].id
<1>1. num \in Nat
  BY DEF IInv, Table
<1>2. PICK q \in Nat : q = Len(slots) /\ \A j \in 1..q : slots[j] \in Slot
  BY DEF IInv, Table
<1>3. \A j \in T : j \in 1..num /\ j \in 1..q
  <2>1. \A j \in Pending : j \in 1..num /\ j \in 1..q
    BY <1>1, <1>2 DEF Pending, Cap
  <2>2. QED
    BY <2>1
<1>4. ASSUME NEW j \in T
      PROVE  /\ Store(j) \in Instruction /\ Store(j).id = 0 /\ Store(j).op = "Store"
             /\ Store(j).args[1] = slots[j].id
  <2>1. PICK a, b \in Nat : a = slots[j].id /\ b = slots[j].init
    <3>1. slots[j] \in Slot
      <4> HIDE DEF Slot
      <4>1. QED
        BY <1>2, <1>3
    <3>2. QED
      BY <3>1, SlotIs
  <2>2. "Store" \in Ops /\ 0 \in Nat
    BY DEF Ops
  <2>3. InstrIs(Store(j), "Store", 0, << a, b >>)
    BY <2>1, <2>2, InstrOfTwo DEF Store
  <2>4. QED
    BY <2>1, <2>3 DEF InstrIs
<1> DEFINE piece == [i \in 1..num |-> IF i \in T /\ slots[i].init # 0 THEN << Store(i) >> ELSE << >>]
<1>5. d = Downward(num, piece)
  BY DEF Stores
<1>6. ASSUME NEW i \in 1..num
      PROVE  /\ piece[i] \in Seq(Instruction) /\ Uniq(l2, piece[i])
             /\ Elements(piece[i]) \subseteq IF i \in T THEN {Store(i)} ELSE {}
  <2>1. CASE i \in T /\ slots[i].init # 0
    <3>1. Store(i) \in Instruction
      BY <1>4, <2>1
    <3>2. piece[i] = << Store(i) >>
      BY <2>1
    <3> HIDE DEF piece
    <3>3. QED
      BY <2>1, <3>1, <3>2, OneEmitted
  <2>2. CASE ~(i \in T /\ slots[i].init # 0)
    <3>1. piece[i] = << >>
      BY <2>2
    <3> HIDE DEF piece
    <3>2. QED
      BY <2>2, <3>1, NoneEmitted
  <2>3. QED
    BY <2>1, <2>2
<1>7. piece \in [1..num -> Seq(Instruction)]
  BY <1>6
<1>8. ASSUME NEW i \in 1..num, NEW j \in 1..num, i # j
      PROVE  Apart(l2, piece[i], piece[j])
  <2>1. \A y \in Elements(piece[i]) : y.id = 0
    BY <1>4, <1>6
  <2> HIDE DEF piece
  <2>2. QED
    BY <2>1 DEF Apart, Hit
<1> HIDE DEF piece
<1>9. d \in Seq(Instruction) /\ \A x : x \in Elements(d) <=> \E i \in 1..num : x \in Elements(piece[i])
  BY <1>1, <1>5, <1>7, DownwardIs
<1>10. Uniq(l2, d)
  BY <1>1, <1>5, <1>6, <1>7, <1>8, DownwardUniq
<1>11. \A y \in Elements(d) : \E j \in T : y = Store(j)
  BY <1>3, <1>6, <1>9
<1>12. QED
  BY <1>4, <1>9, <1>10, <1>11

\* The code of the variables told is new, whatever else the statement does.
ToldCode(d, e, T) == (d = << >> \/ d = Variables(T)) /\ (e = << >> \/ \E U \in SUBSET T : e = Stores(U))

LEMMA AddsTold ==
    ASSUME IInv, pc = "body", NEW T \in SUBSET Pending, NEW l2, Later(lost, l2),
           NEW d, NEW e, ToldCode(d, e, T), NEW t, NEW c, NEW i, NEW x2, NEW v2
    PROVE  /\ Adds(fn, slots, t, T, c, i, nextId, x2, seen, v2, l2, d, e)
           /\ \A y \in Elements(e) : y.id = 0
           /\ \A y \in Elements(d) : y.op = "Variable" /\ \E j \in T : y.id = slots[j].id
<1>1. /\ d \in Seq(Instruction) /\ Uniq(l2, d)
      /\ \A y \in Elements(d) : y.op = "Variable" /\ \E j \in T : y.id = slots[j].id
  <2>1. CASE d = << >>
    BY <2>1, NoneEmitted
  <2>2. CASE d = Variables(T)
    <3>1. /\ d \in Seq(Instruction) /\ Uniq(l2, d)
          /\ \A y : y \in Elements(d) <=> \E j \in T : y = Variable(j)
          /\ \A j \in T : InstrIs(Variable(j), "Variable", slots[j].id, << >>)
      BY <2>2, VariablesIs
    <3>2. QED
      BY <3>1 DEF InstrIs
  <2>3. QED
    BY <2>1, <2>2 DEF ToldCode
<1>2. e \in Seq(Instruction) /\ Uniq(l2, e) /\ \A y \in Elements(e) : y.id = 0
  <2>1. CASE e = << >>
    BY <2>1, NoneEmitted
  <2>2. ASSUME NEW U \in SUBSET T, e = Stores(U)
        PROVE  e \in Seq(Instruction) /\ Uniq(l2, e) /\ \A y \in Elements(e) : y.id = 0
    <3>1. U \in SUBSET Pending
      OBVIOUS
    <3>2. /\ e \in Seq(Instruction) /\ Uniq(l2, e)
          /\ \A y \in Elements(e) : \E j \in U : /\ y.id = 0 /\ y.op = "Store" /\ y.args[1] = slots[j].id
      BY <2>2, <3>1, StoresIs
    <3>3. QED
      BY <3>2
  <2>3. QED
    BY <2>1, <2>2 DEF ToldCode
<1>3. Apart(l2, d, e)
  BY <1>2 DEF Apart, Hit
<1>4. ASSUME NEW y \in Elements(d) \cup Elements(e)
      PROVE  y.id \in Nat /\ NewId(y, fn, slots, t, T, c, i, nextId, x2, seen, v2)
  <2>1. y.id \in Nat
    <3>1. y \in Instruction
      BY <1>1, <1>2 DEF Elements
    <3>2. QED
      BY <3>1 DEF Instruction
  <2>2. QED
    BY <1>1, <1>2, <2>1 DEF NewId
<1>5. QED
  BY <1>1, <1>2, <1>3, <1>4 DEF Adds

\* The stores, and a branch and a label after them.
LEMMA AddsThen ==
    ASSUME NEW f, NEW s, NEW t, NEW T, NEW c, NEW i, NEW x, NEW x2, NEW v, NEW v2, NEW l2, NEW d, NEW e,
           Adds(f, s, t, T, c, i, x, x2, v, v2, l2, d, e), \A w \in Elements(e) : w.id = 0,
           NEW y \in Instruction, NEW z \in Instruction, y.id = 0, NewId(z, f, s, t, T, c, i, x, x2, v, v2),
           \A w \in Elements(d) : ~Hit(l2, w, z)
    PROVE  Adds(f, s, t, T, c, i, x, x2, v, v2, l2, d, e \o << y, z >>)
<1>1. y.id \in Nat /\ z.id \in Nat
  BY DEF Instruction
<1> HIDE DEF Instruction
<1>2. PICK g : g = << y, z >>
  OBVIOUS
<1>3. g \in Seq(Instruction) /\ Elements(g) = {y, z} /\ Uniq(l2, g)
  <2>1. ~Hit(l2, y, z)
    BY DEF Hit
  <2>2. QED
    BY <1>2, <2>1, TwoEmitted
<1>4. /\ d \in Seq(Instruction) /\ e \in Seq(Instruction)
      /\ Uniq(l2, d) /\ Uniq(l2, e) /\ Apart(l2, d, e)
      /\ \A w \in Elements(d) \cup Elements(e) : w.id \in Nat /\ NewId(w, f, s, t, T, c, i, x, x2, v, v2)
  BY DEF Adds
<1>5. e \o g \in Seq(Instruction) /\ Elements(e \o g) = Elements(e) \cup {y, z}
  BY <1>3, <1>4, ElementsConcat
<1>6. Apart(l2, e, g)
  BY DEF Apart, Hit
<1>7. Uniq(l2, e \o g)
  BY <1>3, <1>4, <1>6, UniqConcat
<1>8. \A w \in Elements(d) : ~Hit(l2, w, y)
  BY DEF Hit
<1>9. Apart(l2, d, e \o g)
  BY <1>4, <1>5, <1>8 DEF Apart
<1>10. NewId(y, f, s, t, T, c, i, x, x2, v, v2)
  BY DEF NewId
<1>11. QED
  BY <1>1, <1>2, <1>4, <1>5, <1>7, <1>9, <1>10 DEF Adds

LEMMA LabelStmtStep ==
    ASSUME IInv, NEW b \in Names, LabelStmt(b)
    PROVE  IInv'
<1>1. PICK c : c = Cursor(fn, "label", b)
  OBVIOUS
<1>2. PICK T, s0 : T = Pending /\ s0 = Told(T)
  OBVIOUS
<1>3. PICK m : m = MkIn(s0, num, c)
  OBVIOUS
<1>4. PICK id : id = IF m.new THEN nextId ELSE m.slots[m.idx].id
  OBVIOUS
<1>5. /\ c \notin seen /\ Visits(jumps, seen \cup {c})
      /\ slots' = [m.slots EXCEPT ![m.idx].id = id]
      /\ num' = m.num
      /\ nextId' = IF m.new THEN nextId + 1 ELSE nextId
      /\ fndef' = fndef \o Variables(T)
      /\ fnimpl' = fnimpl \o Stores(T) \o << Instr("Branch", 0, << id >>), Instr("Label", id, << >>) >>
      /\ seen' = seen \cup {c}
      /\ Completes
      /\ UNCHANGED << hasRet, jumps, lost >>
  BY <1>1, <1>2, <1>3, <1>4 DEF LabelStmt, VisitsNew
<1>6. pc = "body" /\ stmts' \in 0..MaxStmts /\ IsFiniteSet(jumps')
  BY <1>5, VisitsIs DEF IInv, Small
<1>7. Control' /\ fn' = fn
  <2>1. Visited
    BY <1>5, <1>6 DEF Visited, IInv, Small, Completes
  <2>2. QED
    BY <1>5, <1>6, <2>1, CompletesIs
<1>8. slots \in Seq(Slot) /\ num \in Nat /\ nextId \in Nat /\ 0 < nextId /\ fndef \in Seq(Instruction) /\ fnimpl \in Seq(Instruction)
  BY IdsAre DEF IInv, Table, SectionsOK
<1>9. Tells(slots, s0, T) /\ T \in SUBSET Pendings(slots) /\ T \in SUBSET Pending
  BY <1>2, ToldIs
<1>10. /\ c \in CursorT /\ c.fn = fn /\ c.kind = "label"
       /\ m.slots \in Seq(Slot) /\ m.idx \in 1..Len(m.slots) /\ m.slots[m.idx].id \in Nat
  <2>1. "label" \in Kind
    BY DEF Kind
  <2>2. QED
    BY <1>1, <1>3, <1>6, <1>9, <2>1, Looked
<1>11. id \in Nat
  BY <1>4, <1>8, <1>10
<1>12. Wrote(slots', m.slots, m.idx, id)
  BY <1>5, <1>10, <1>11, IdWritten
<1>13. /\ Later(lost, lost') /\ seen \subseteq seen' /\ nextId' \in Nat /\ nextId <= nextId' /\ num' = m.num
  BY <1>5, <1>8 DEF Later
<1>14. PICK y, z : y = Instr("Branch", 0, << id >>) /\ z = Instr("Label", id, << >>)
  OBVIOUS
<1>15. y \in Instruction /\ y.id = 0 /\ z \in Instruction /\ z.id = id /\ z.op = "Label"
  BY <1>11, <1>14, BranchAndLabel
<1>16. PICK d, e : d = Variables(T) /\ e = Stores(T)
  OBVIOUS
<1>17. ToldCode(d, e, T)
  BY <1>16 DEF ToldCode
<1>18. ASSUME NEW i
       PROVE  /\ Adds(fn, slots, slots', T, c, i, nextId, nextId', seen, seen', lost', d, e)
              /\ \A w \in Elements(e) : w.id = 0
              /\ \A w \in Elements(d) : w.op = "Variable" /\ \E j \in T : w.id = slots[j].id
  BY <1>6, <1>9, <1>13, <1>17, AddsTold
<1>19. Grown(fndef, fndef', d) /\ Grown(fnimpl, fnimpl', e \o << y, z >>)
  <2>1. e \in Seq(Instruction)
    BY <1>18 DEF Adds
  <2>2. PICK g : g = << y, z >>
    OBVIOUS
  <2>3. g \in Seq(Instruction)
    <3> HIDE DEF Instruction
    <3>1. QED
      BY <1>15, <2>2
  <2>4. (fnimpl \o e) \o g = fnimpl \o (e \o g)
    BY <1>8, <2>1, <2>3, ConcatAssociative, SMTT(30)
  <2>5. QED
    BY <1>5, <1>14, <1>16, <2>2, <2>4 DEF Grown
<1>20. CASE m.new
  <2>1. id = nextId /\ nextId' = nextId + 1 /\ nextId < nextId'
    BY <1>4, <1>5, <1>8, <1>20
  <2>2. PICK i : i = m.idx
    OBVIOUS
  <2>3. IdTaken(id, slots, c, i, nextId, nextId', lost')
    BY <2>1 DEF IdTaken
  <2>4. /\ Takes(fn, slots, num, nextId, lost, seen, slots', num', nextId', lost', seen', T, c, i)
        /\ slots'[i].id = id
    BY <1>3, <1>9, <1>10, <1>12, <1>13, <2>2, <2>3, TakesLooked, ZenonT(40)
  <2>5. c \in seen'
    BY <1>5
  <2>6. NewId(z, fn, slots, slots', T, c, i, nextId, nextId', seen, seen')
    BY <1>8, <1>10, <1>15, <2>1, <2>4, <2>5 DEF NewId
  <2>7. \A w \in Elements(d) : ~Hit(lost', w, z)
    <3>1. \A j \in 1..Len(slots) : slots[j].id < nextId
      BY <1>6, InBody DEF State, Before, TableOK, BoundAt
    <3>2. \A j \in T : j \in 1..Len(slots)
      BY <1>9 DEF Pendings
    <3>3. \A w \in Elements(d) : \E j \in T : w.id = slots[j].id
      BY <1>18
    <3>4. \A w \in Elements(d) : w.id < nextId
      BY <3>1, <3>2, <3>3
    <3>5. QED
      BY <1>8, <1>15, <2>1, <3>4 DEF Hit
  <2>8. Adds(fn, slots, slots', T, c, i, nextId, nextId', seen, seen', lost', d, e \o << y, z >>)
    BY <1>15, <1>18, <2>6, <2>7, AddsThen
  <2>9. QED
    BY <1>6, <1>7, <1>19, <2>4, <2>8, BodyStep
<1>21. CASE ~m.new
  <2>1. id = m.slots[m.idx].id
    BY <1>4, <1>21
  <2>2. /\ Takes(fn, slots, num, nextId, lost, seen, slots', num', nextId', lost', seen', T, c, 0)
        /\ m.idx \in 1..Len(slots) /\ slots[m.idx].key = c /\ slots[m.idx].id = id
    BY <1>3, <1>9, <1>10, <1>12, <1>13, <1>21, <2>1, TakesFound
  <2>3. IsLabel(fn, slots, m.idx)
    BY <1>10, <2>2 DEF IsLabel
  <2>4. NewId(z, fn, slots, slots', T, c, 0, nextId, nextId', seen, seen')
    BY <1>5, <1>15, <2>2, <2>3 DEF NewId
  <2>5. \A w \in Elements(d) : ~Hit(lost', w, z)
    <3>1. SUFFICES ASSUME NEW w \in Elements(d), Hit(lost', w, z)
                   PROVE  FALSE
      OBVIOUS
    <3>2. PICK j \in T : w.id = slots[j].id
      BY <1>18
    <3>3. w.op = "Variable" /\ ~lost' /\ w.id = z.id
      BY <1>18, <3>1 DEF Hit
    <3>4. PendingsAt(fn, TRUE, slots, CodeOf(fndef, fnimpl))
      BY <1>6, <1>13, <3>3, InBody DEF State, Before, TableOK, WaitingAt, Later
    <3>5. j \in 1..Len(slots) /\ IsPending(slots, j)
      BY <1>9 DEF Pendings
    <3>6. slots[j].id # slots[m.idx].id
      BY <2>2, <2>3, <3>4, <3>5 DEF PendingsAt
    <3>7. QED
      BY <1>15, <2>2, <3>2, <3>3, <3>6
  <2>6. Adds(fn, slots, slots', T, c, 0, nextId, nextId', seen, seen', lost', d, e \o << y, z >>)
    BY <1>15, <1>18, <2>4, <2>5, AddsThen
  <2>7. QED
    BY <1>6, <1>7, <1>19, <2>2, <2>6, BodyStep
<1>22. QED
  BY <1>20, <1>21

LEMMA LabelStmtGivenUpStep ==
    ASSUME IInv, NEW b \in Names, LabelStmtGivenUp(b)
    PROVE  IInv'
<1>1. PICK c : c = Cursor(fn, "label", b)
  OBVIOUS
<1>2. /\ Visits(jumps, seen \cup {c}) /\ AllocFails
      /\ seen' = seen \cup {c} /\ lost' = TRUE /\ err' = OK
      /\ UNCHANGED << fn, pc, num, nextId, hasRet, jumps >>
  BY <1>1 DEF LabelStmtGivenUp, VisitsNew
<1>3. PICK v \in Pending :
        /\ slots' = Told({ i \in Pending : i >= v })
        /\ \/ /\ fndef' = << >>
              /\ fnimpl' = fnimpl \o Stores({ i \in Pending : i >= v } \ {v})
           \/ /\ fndef' = fndef \o Variables({ i \in Pending : i >= v })
              /\ fnimpl' = << >>
  BY DEF LabelStmtGivenUp
<1>4. PICK T : T = { i \in Pending : i >= v }
  OBVIOUS
<1>5. pc = "body" /\ stmts' \in 0..MaxStmts /\ IsFiniteSet(jumps')
  BY <1>2, VisitsIs DEF IInv, Small
<1>6. Control' /\ fn' = fn
  <2>1. fails' \in 0..MaxFails
    BY <1>2, FailsIs
  <2>2. QED
    BY <1>2, <1>5, <2>1 DEF Control, IInv, Small
<1>7. T \in SUBSET Pending
  BY <1>4
<1>8. Tells(slots, slots', T) /\ T \in SUBSET Pendings(slots)
  BY <1>3, <1>4, <1>7, ToldIs
<1>9. c \in CursorT /\ c.fn = fn
  <2>1. fn \in 1..Kernels /\ b \in Nat /\ "label" \in Kind
    BY <1>5, InBody, KernelAssumption DEF Kind
  <2>2. QED
    BY <1>1, <2>1, CursorIs
<1>10. slots \in Seq(Slot) /\ num \in Nat /\ nextId \in Nat
  BY DEF IInv, Table
<1>11. Turn(slots, num, slots', num', T, c, 0) /\ ~(0 \in 1..Len(slots'))
  <2>1. PICK u : u = slots'
    OBVIOUS
  <2>2. Turn(slots, num, u, num, T, c, 0) /\ ~(0 \in 1..Len(u))
    BY <1>8, <1>10, <2>1, TurnTold
  <2>3. QED
    BY <1>2, <2>1, <2>2
<1>12. Later(lost, lost') /\ seen \subseteq seen' /\ nextId' \in Nat /\ nextId <= nextId'
  BY <1>2, <1>10 DEF Later
<1>13. Takes(fn, slots, num, nextId, lost, seen, slots', num', nextId', lost', seen', T, c, 0)
  BY <1>8, <1>9, <1>11, <1>12 DEF Takes
<1>14. CASE fndef' = << >> /\ fnimpl' = fnimpl \o Stores(T \ {v})
  <2>1. PICK d, e : d = << >> /\ e = Stores(T \ {v})
    OBVIOUS
  <2>2. ToldCode(d, e, T)
    BY <2>1 DEF ToldCode
  <2>3. Adds(fn, slots, slots', T, c, 0, nextId, nextId', seen, seen', lost', d, e)
    BY <1>5, <1>7, <1>12, <2>2, AddsTold
  <2>4. Grown(fndef, fndef', d) /\ Grown(fnimpl, fnimpl', e)
    BY <1>14, <2>1 DEF Grown
  <2>5. QED
    BY <1>5, <1>6, <1>13, <2>3, <2>4, BodyStep
<1>15. CASE fndef' = fndef \o Variables(T) /\ fnimpl' = << >>
  <2>1. PICK d, e : d = Variables(T) /\ e = << >>
    OBVIOUS
  <2>2. ToldCode(d, e, T)
    BY <2>1 DEF ToldCode
  <2>3. Adds(fn, slots, slots', T, c, 0, nextId, nextId', seen, seen', lost', d, e)
    BY <1>5, <1>7, <1>12, <2>2, AddsTold
  <2>4. Grown(fndef, fndef', d) /\ Grown(fnimpl, fnimpl', e)
    BY <1>15, <2>1 DEF Grown
  <2>5. QED
    BY <1>5, <1>6, <1>13, <2>3, <2>4, BodyStep
<1>16. QED
  BY <1>3, <1>4, <1>14, <1>15

LEMMA LabelStmtFailsStep ==
    ASSUME IInv, NEW b \in Names, LabelStmtFails(b)
    PROVE  IInv'
<1>1. PICK c : c = Cursor(fn, "label", b)
  OBVIOUS
<1>2. PICK T, s0 : T = Pending /\ s0 = Told(T)
  OBVIOUS
<1>3. PICK m : m = MkIn(s0, num, c)
  OBVIOUS
<1>4. /\ Visits(jumps, seen \cup {c}) /\ Breaks
      /\ fndef' = fndef \o Variables(T)
      /\ UNCHANGED << hasRet, err, seen, jumps >>
  BY <1>1, <1>2 DEF LabelStmtFails, VisitsNew
<1>5. \/ slots' = << >> /\ fnimpl' = fnimpl \o Stores(T) /\ num' = num /\ nextId' = nextId
      \/ /\ slots' = [m.slots EXCEPT ![m.idx].id = IF m.new THEN nextId ELSE @]
         /\ num' = m.num
         /\ nextId' = IF m.new THEN nextId + 1 ELSE nextId
         /\ fnimpl' = << >>
  BY <1>1, <1>2, <1>3 DEF LabelStmtFails
<1>6. pc = "body" /\ stmts' \in 0..MaxStmts /\ IsFiniteSet(jumps')
  BY <1>4, VisitsIs DEF IInv, Small
<1>7. Control' /\ fn' = fn /\ lost' = TRUE
  <2>1. Visited
    BY <1>4, <1>6 DEF Visited, IInv, Small, Breaks
  <2>2. QED
    BY <1>4, <1>6, <2>1, BreaksIs DEF Breaks
<1>8. slots \in Seq(Slot) /\ num \in Nat /\ nextId \in Nat
  BY DEF IInv, Table
<1>9. Tells(slots, s0, T) /\ T \in SUBSET Pendings(slots) /\ T \in SUBSET Pending
  BY <1>2, ToldIs
<1>10. /\ c \in CursorT /\ c.fn = fn /\ c.kind = "label"
       /\ m.slots \in Seq(Slot) /\ m.idx \in 1..Len(m.slots) /\ m.slots[m.idx].id \in Nat
  <2>1. "label" \in Kind
    BY DEF Kind
  <2>2. QED
    BY <1>1, <1>3, <1>6, <1>9, <2>1, Looked
<1>11. Later(lost, lost') /\ seen \subseteq seen'
  BY <1>4, <1>7 DEF Later
<1>12. PICK d : d = Variables(T)
  OBVIOUS
<1>13. Grown(fndef, fndef', d)
  BY <1>4, <1>12 DEF Grown
<1>14. ASSUME NEW e, NEW i, e = << >> \/ e = Stores(T)
       PROVE  Adds(fn, slots, slots', T, c, i, nextId, nextId', seen, seen', lost', d, e)
  <2>1. ToldCode(d, e, T)
    BY <1>12, <1>14 DEF ToldCode
  <2>2. QED
    BY <1>6, <1>9, <1>11, <2>1, AddsTold
<1>15. CASE slots' = << >> /\ fnimpl' = fnimpl \o Stores(T) /\ num' = num /\ nextId' = nextId
  <2>1. Turn(slots, num, slots', num', T, c, 0) /\ ~(0 \in 1..Len(slots'))
    BY <1>8, <1>15, TurnEmpty
  <2>2. nextId' \in Nat /\ nextId <= nextId'
    BY <1>8, <1>15
  <2>3. Takes(fn, slots, num, nextId, lost, seen, slots', num', nextId', lost', seen', T, c, 0)
    BY <1>9, <1>10, <1>11, <2>1, <2>2 DEF Takes
  <2>4. PICK e : e = Stores(T)
    OBVIOUS
  <2>5. Adds(fn, slots, slots', T, c, 0, nextId, nextId', seen, seen', lost', d, e)
    BY <1>14, <2>4
  <2>6. Grown(fnimpl, fnimpl', e)
    BY <1>15, <2>4 DEF Grown
  <2>7. QED
    BY <1>6, <1>7, <1>13, <2>3, <2>5, <2>6, BodyStep
<1>16. ASSUME slots' = [m.slots EXCEPT ![m.idx].id = IF m.new THEN nextId ELSE @], num' = m.num,
              nextId' = IF m.new THEN nextId + 1 ELSE nextId, fnimpl' = << >>
       PROVE  IInv'
  <2>1. PICK id \in Nat : id = IF m.new THEN nextId ELSE m.slots[m.idx].id
    BY <1>8, <1>10
  <2>2. slots' = [m.slots EXCEPT ![m.idx].id = id]
    BY <1>16, <2>1
  <2>3. Wrote(slots', m.slots, m.idx, id)
    BY <1>10, <2>2, IdWritten
  <2>4. nextId' \in Nat /\ nextId <= nextId' /\ num' = m.num
    BY <1>8, <1>16
  <2>5. Grown(fnimpl, fnimpl', << >>)
    BY <1>16 DEF Grown
  <2>6. CASE m.new
    <3>1. id = nextId /\ nextId < nextId'
      BY <1>8, <1>16, <2>1, <2>6
    <3>2. PICK i : i = m.idx
      OBVIOUS
    <3>3. IdTaken(id, slots, c, i, nextId, nextId', lost')
      BY <3>1 DEF IdTaken
    <3>4. Takes(fn, slots, num, nextId, lost, seen, slots', num', nextId', lost', seen', T, c, i)
      BY <1>3, <1>9, <1>10, <1>11, <2>3, <2>4, <3>2, <3>3, TakesLooked
    <3>5. Adds(fn, slots, slots', T, c, i, nextId, nextId', seen, seen', lost', d, << >>)
      BY <1>14
    <3>6. QED
      BY <1>6, <1>7, <1>13, <2>5, <3>4, <3>5, BodyStep
  <2>7. CASE ~m.new
    <3>1. id = m.slots[m.idx].id
      BY <2>1, <2>7
    <3>2. Takes(fn, slots, num, nextId, lost, seen, slots', num', nextId', lost', seen', T, c, 0)
      BY <1>3, <1>9, <1>10, <1>11, <2>3, <2>4, <2>7, <3>1, TakesFound
    <3>3. Adds(fn, slots, slots', T, c, 0, nextId, nextId', seen, seen', lost', d, << >>)
      BY <1>14
    <3>4. QED
      BY <1>6, <1>7, <1>13, <2>5, <3>2, <3>3, BodyStep
  <2>8. QED
    BY <2>6, <2>7
<1>17. QED
  BY <1>5, <1>15, <1>16
------------------------------------------------------------------------------
(***************************************************************************)
(* The loop of aclspv_compile keeps the invariant.                         *)
(***************************************************************************)
\* The slots once kernel f has some of its parameters in the table s.
ParamSlot(f, t, j) == t[j].key.fn = f /\ t[j].key.kind = "param" /\ t[j].id = ClassWord

ParamsIn(f, s, t) ==
    /\ t \in Seq(Slot)
    /\ \A j \in 1..Len(t) : SameSlot(s, t, {}, j) \/ BlankSlot(t, j) \/ ParamSlot(f, t, j)

ParamAdded(f, s, t, n, r) ==
    /\ r = [slots |-> r.slots, num |-> r.num] /\ r.slots \in Seq(Slot) /\ r.num \in Nat
    /\ KeysAt(f, FALSE, t, n) => KeysAt(f, FALSE, r.slots, r.num)
    /\ ParamsIn(f, s, t) => ParamsIn(f, s, r.slots)

LEMMA AddParamIs ==
    ASSUME NEW f \in 1..Kernels, NEW s \in Seq(Slot),
           NEW t \in Seq(Slot), NEW n \in Nat, NEW acc, acc.slots = t, acc.num = n,
           NEW a \in Nat, NEW r, r = AddParam(f, acc, a)
    PROVE  ParamAdded(f, s, t, n, r)
<1>1. PICK c : c = Cursor(f, "param", a)
  OBVIOUS
<1>2. c \in CursorT /\ c.fn = f /\ c.kind = "param"
  BY <1>1, CursorIs DEF Kind
<1>3. PICK m : m = MkIn(t, n, c)
  OBVIOUS
<1>4. m.slots \in Seq(Slot) /\ m.num \in Nat /\ n <= m.num /\ m.idx \in 1..Len(m.slots)
  BY <1>2, <1>3, MkInOK
<1>5. PICK v \in Nat : v = ParamId(f, a)
  BY IdsAre
<1>6. PICK y : y = [key |-> c, id |-> ClassWord, init |-> v, alloc |-> FALSE, number |-> FALSE]
  OBVIOUS
<1>7. y \in Slot /\ y.key = c /\ y.id = ClassWord
  BY <1>2, <1>6 DEF Slot, CursorT, ClassWord
<1>8. PICK u : u = [m.slots EXCEPT ![m.idx] = y]
  OBVIOUS
<1>9. r = [slots |-> u, num |-> m.num]
  BY <1>1, <1>3, <1>5, <1>6, <1>8 DEF AddParam
<1>10. PICK z, k, i : z = m.slots /\ k = m.num /\ i = m.idx
  OBVIOUS
<1>11. z[i].key = c
  <2>1. Added(t, n, z, k, c, i) \/ Found(t, n, z, k, c, i)
    BY <1>2, <1>3, <1>10, MkInIs
  <2>2. QED
    BY <2>1 DEF Added, Found
<1>12. Put(u, z, i, ClassWord)
  <2> HIDE DEF Slot
  <2>1. z \in Seq(Slot) /\ i \in 1..Len(z) /\ u = [z EXCEPT ![i] = y]
    BY <1>4, <1>8, <1>10
  <2>2. u \in Seq(Slot) /\ Len(u) = Len(z) /\ u[i] = y /\ \A j \in 1..Len(z) : j # i => u[j] = z[j]
    BY <1>7, <2>1
  <2>3. QED
    BY <1>7, <1>11, <2>2 DEF Put
<1>13. Turn(t, n, u, m.num, {}, c, m.idx) /\ m.idx \in 1..Len(u) /\ u[m.idx].id = ClassWord
  <2>1. Tells(t, t, {})
    BY TellsNone
  <2>2. Put(u, m.slots, m.idx, ClassWord)
    BY <1>10, <1>12
  <2>3. QED
    BY <1>2, <1>3, <2>1, <2>2, Placed
<1>14. r.slots = u /\ r.num = m.num
  BY <1>9
<1>15. KeysAt(f, FALSE, t, n) => KeysAt(f, FALSE, u, m.num)
  <2>1. m.idx \in Nat
    BY <1>4
  <2>2. QED
    BY <1>2, <1>13, <2>1, TurnKeys
<1>16. ParamsIn(f, s, t) => ParamsIn(f, s, u)
  <2> SUFFICES ASSUME ParamsIn(f, s, t) PROVE ParamsIn(f, s, u)
    OBVIOUS
  <2>1. PICK p \in Nat : p = Len(u)
    BY <1>13 DEF Turn
  <2>2. PICK q \in Nat : q = Len(t)
    OBVIOUS
  <2>3. \A j \in 1..q : SameSlot(s, t, {}, j) \/ BlankSlot(t, j) \/ ParamSlot(f, t, j)
    BY <2>2 DEF ParamsIn
  <2>4. ASSUME NEW j \in 1..p, j # i
        PROVE  SameSlot(s, u, {}, j) \/ BlankSlot(u, j) \/ ParamSlot(f, u, j)
    <3>1. SameSlot(t, u, {}, j) \/ BlankSlot(u, j)
      BY <1>10, <1>13, <2>1, <2>4 DEF Turn
    <3>2. CASE SameSlot(t, u, {}, j)
      <4>1. j \in 1..q /\ u[j].key = t[j].key /\ u[j].id = t[j].id /\ (u[j].alloc <=> t[j].alloc)
        BY <2>2, <3>2 DEF SameSlot
      <4>2. QED
        BY <2>3, <4>1 DEF SameSlot, BlankSlot, ParamSlot
    <3>3. QED
      BY <3>1, <3>2
  <2>5. ParamSlot(f, u, i)
    BY <1>2, <1>10, <1>11, <1>12, <1>13 DEF ParamSlot, Put
  <2>6. u \in Seq(Slot)
    BY <1>13 DEF Turn
  <2>7. QED
    BY <2>1, <2>4, <2>5, <2>6 DEF ParamsIn
<1>17. u \in Seq(Slot)
  BY <1>13 DEF Turn
<1>18. QED
  BY <1>4, <1>9, <1>14, <1>15, <1>16, <1>17 DEF ParamAdded

\* The parameters of a kernel, added one after the other.
Adding(h, k, n) ==
    h = [j \in 0..n |-> IF j = 0 THEN [slots |-> slots, num |-> n] ELSE AddParam(k, h[j - 1], n + 1 - j)]

LEMMA AddingExists ==
    ASSUME slots \in Seq(Slot), NEW k \in 1..Kernels, NEW n \in Nat
    PROVE  \E h : Adding(h, k, n)
<1> DEFINE S == [slots : Seq(Slot), num : Nat]
           b == [slots |-> slots, num |-> n]
           g == [w \in (1..n) \X S |-> AddParam(k, w[2], n + 1 - w[1])]
<1> HIDE DEF Slot
<1>1. g \in [(1..n) \X S -> S]
  <2> SUFFICES ASSUME NEW j \in 1..n, NEW acc \in S PROVE AddParam(k, acc, n + 1 - j) \in S
    OBVIOUS
  <2>1. PICK a \in Nat : a = n + 1 - j
    OBVIOUS
  <2>2. PICK t \in Seq(Slot), m \in Nat : acc.slots = t /\ acc.num = m
    OBVIOUS
  <2>3. PICK r : r = AddParam(k, acc, a)
    OBVIOUS
  <2>4. ParamAdded(k, t, t, m, r)
    BY <2>2, <2>3, AddParamIs
  <2>5. r \in S
    BY <2>4 DEF ParamAdded
  <2>6. QED
    BY <2>1, <2>3, <2>5
<1>2. b \in S
  OBVIOUS
<1>3. \A j \in 1..n, acc \in S : g[<< j, acc >>] = AddParam(k, acc, n + 1 - j)
  OBVIOUS
<1> HIDE DEF g, b, S
<1>4. PICK f : Iterates(f, n, S, b, g)
  BY <1>1, <1>2, Iterated
<1>5. /\ f = [j \in 0..n |-> f[j]]
      /\ f[0] = b
      /\ \A j \in 1..n : f[j] = AddParam(k, f[j - 1], n + 1 - j)
  <2>1. f \in [0..n -> S] /\ f[0] = b /\ \A j \in 1..n : f[j] = g[<< j, f[j - 1] >>]
    BY <1>4 DEF Iterates
  <2>2. \A j \in 1..n : j - 1 \in 0..n
    OBVIOUS
  <2>3. QED
    BY <1>3, <2>1, <2>2
<1>6. \A j \in 0..n : f[j] = IF j = 0 THEN b ELSE AddParam(k, f[j - 1], n + 1 - j)
  <2>1. \A j \in 0..n : j = 0 \/ j \in 1..n
    OBVIOUS
  <2>2. \A j \in 1..n : j # 0
    OBVIOUS
  <2>3. QED
    BY <1>5, <2>1, <2>2
<1>7. Adding(f, k, n)
  BY <1>5, <1>6, Zenon DEF Adding, b
<1>8. QED
  BY <1>7

LEMMA WithParamsIs ==
    ASSUME slots \in Seq(Slot), NEW k \in 1..Kernels, NEW n \in Nat, n = Params[k],
           KeysAt(k, FALSE, slots, n), NEW w, w = WithParams(k)
    PROVE  /\ w.slots \in Seq(Slot) /\ w.num \in Nat
           /\ KeysAt(k, FALSE, w.slots, w.num) /\ ParamsIn(k, slots, w.slots)
<1> DEFINE h == CHOOSE h : Adding(h, k, n)
<1>1. Adding(h, k, n)
  <2>1. \E x : Adding(x, k, n)
    BY AddingExists
  <2>2. QED
    BY <2>1, Zenon
<1>2. w = h[n]
  BY Zenon DEF WithParams, Adding
<1> HIDE DEF h, Slot
<1>3. \A j \in 0..n : h[j] = IF j = 0 THEN [slots |-> slots, num |-> n] ELSE AddParam(k, h[j - 1], n + 1 - j)
  BY <1>1, Zenon DEF Adding
<1> DEFINE P == {j \in 0..n : /\ h[j].slots \in Seq(Slot) /\ h[j].num \in Nat
                              /\ KeysAt(k, FALSE, h[j].slots, h[j].num) /\ ParamsIn(k, slots, h[j].slots)}
<1>4. 0 \in P
  <2>1. 0 \in 0..n /\ h[0].slots = slots /\ h[0].num = n
    BY <1>3
  <2>2. ParamsIn(k, slots, slots)
    BY DEF ParamsIn, SameSlot
  <2>3. KeysAt(k, FALSE, h[0].slots, h[0].num)
    BY <2>1
  <2>4. QED
    BY <2>1, <2>2, <2>3
<1>5. ASSUME NEW j \in 1..n, j - 1 \in P
      PROVE  j \in P
  <2>1. PICK a \in Nat : a = n + 1 - j
    OBVIOUS
  <2>2. PICK acc : acc = h[j - 1]
    OBVIOUS
  <2>3. PICK t \in Seq(Slot), m \in Nat : acc.slots = t /\ acc.num = m
    BY <1>5, <2>2
  <2>4. KeysAt(k, FALSE, t, m) /\ ParamsIn(k, slots, t)
    BY <1>5, <2>2, <2>3
  <2>5. PICK r : r = AddParam(k, acc, a)
    OBVIOUS
  <2>6. /\ r.slots \in Seq(Slot) /\ r.num \in Nat
        /\ KeysAt(k, FALSE, r.slots, r.num) /\ ParamsIn(k, slots, r.slots)
    <3>1. ParamAdded(k, slots, t, m, r)
      BY <2>3, <2>5, AddParamIs
    <3>2. QED
      BY <2>4, <3>1 DEF ParamAdded
  <2>7. h[j] = r
    BY <1>3, <2>1, <2>2, <2>5
  <2>8. QED
    BY <2>6, <2>7, j \in 0..n
<1>6. n \in P
  <2> HIDE DEF P
  <2>1. \A j \in 0..n : j \in P
    BY <1>4, <1>5, UpTo
  <2>2. QED
    BY <2>1
<1>7. QED
  BY <1>2, <1>6

\* The table and the code from which a kernel is entered.
LEMMA AtEntry ==
    ASSUME IInv, pc = "enter"
    PROVE  /\ fn \in 1..Kernels /\ slots \in Seq(Slot) /\ num \in Nat /\ nextId \in Nat /\ FirstId <= nextId
           /\ \A j \in 1..Len(slots) : slots[j].key.fn # fn /\ (slots[j].key.fn = 0 \/ slots[j].key.fn >= fn)
           /\ BoundAt(fn, TRUE, slots, nextId, CodeOf(fndef, fnimpl), lost)
           /\ ~lost => PendingsAt(fn, FALSE, slots, CodeOf(fndef, fnimpl))
<1>1. fn \in 1..Kernels /\ fn # 0
  BY IdsAre DEF IInv, Scope
<1>2. (pc = "enter") = TRUE /\ (pc = "body") = FALSE
  OBVIOUS
<1>3. TableOK(fn, TRUE, FALSE, slots, num, nextId, CodeOf(fndef, fnimpl), lost, seen)
  <2>1. TableOK(fn, pc = "enter", pc = "body", slots, num, nextId, CodeOf(fndef, fnimpl), lost, seen)
    BY DEF IInv, Table
  <2>2. QED
    BY <1>2, <2>1
<1>4. KeysAt(fn, TRUE, slots, num)
  BY <1>3 DEF TableOK
<1>5. \A j \in 1..Len(slots) : slots[j].key.fn # fn /\ (slots[j].key.fn = 0 \/ slots[j].key.fn >= fn)
  BY <1>1, <1>4 DEF KeysAt
<1>6. QED
  BY <1>1, <1>3, <1>5 DEF TableOK, WaitingAt, IInv, Table

\* The table of a kernel that was entered.
LEMMA EnteredTable ==
    ASSUME NEW f \in 1..Kernels, NEW s \in Seq(Slot), NEW x \in Nat, FirstId <= x, NEW E, NEW l, Nats(E),
           \A j \in 1..Len(s) : s[j].key.fn # f,
           BoundAt(f, TRUE, s, x, E, l), ~l => PendingsAt(f, FALSE, s, E),
           NEW t, ParamsIn(f, s, t), NEW n, KeysAt(f, FALSE, t, n), NEW E2, NEW x2 \in Nat, x <= x2,
           \A y \in E2 : y \in E \/ (x < x2 /\ (y.id = f + 1 \/ y.id = x))
    PROVE  TableOK(f, FALSE, TRUE, t, n, x2, E2, l, {})
<1>1. PICK m, q \in Nat : Numbers(s, t, m, q)
  BY NumbersIs DEF ParamsIn
<1>2. \A j \in 1..m : SameSlot(s, t, {}, j) \/ BlankSlot(t, j) \/ ParamSlot(f, t, j)
  BY <1>1 DEF ParamsIn, Numbers
<1>3. f \in Nat /\ f # 0 /\ f + 1 < FirstId /\ FirstId \in Nat /\ ClassWord < FirstId /\ ClassWord = 1
  <2>1. EntpId(f) < FirstId /\ EntpId(f) = f + 1 /\ FirstId \in Nat /\ Kernels \in Nat
    BY IdsAre
  <2>2. QED
    BY <2>1 DEF ClassWord
<1>4. NoCursor.fn = 0 /\ NoCursor.kind = "none"
  BY DEF NoCursor, Cursor
<1>5. ASSUME NEW j \in 1..m
      PROVE  \/ j \in 1..q /\ t[j].key = s[j].key /\ t[j].id = s[j].id /\ (t[j].alloc <=> s[j].alloc)
             \/ t[j].key.kind \in {"none", "param"} /\ t[j].id < FirstId
  <2>1. CASE SameSlot(s, t, {}, j)
    BY <1>1, <2>1 DEF SameSlot, Numbers
  <2>2. CASE BlankSlot(t, j)
    BY <1>3, <1>4, <2>2 DEF BlankSlot
  <2>3. CASE ParamSlot(f, t, j)
    BY <1>3, <2>3 DEF ParamSlot
  <2>4. QED
    BY <1>2, <2>1, <2>2, <2>3
<1>6. \A j \in 1..m : ~IsLabel(f, t, j)
  <2>1. ASSUME NEW j \in 1..m, IsLabel(f, t, j)
        PROVE  FALSE
    <3>1. j \in 1..q /\ t[j].key = s[j].key
      BY <1>5, <2>1 DEF IsLabel
    <3>2. s[j].key.fn # f
      BY <1>1, <3>1 DEF Numbers
    <3>3. QED
      BY <2>1, <3>1, <3>2 DEF IsLabel
  <2>2. QED
    BY <2>1
<1>7. \A j \in 1..m : t[j].id < x2 /\ t[j].id \in Nat
  <2>1. \A j \in 1..q : s[j].id < x
    BY <1>1 DEF BoundAt, Numbers
  <2>2. \A j \in 1..m : t[j].id \in Nat
    BY <1>1 DEF Numbers
  <2>3. ASSUME NEW j \in 1..m
        PROVE  t[j].id < x2
    <3>1. PICK a \in Nat : a = t[j].id
      BY <2>2
    <3>2. a < x \/ a < FirstId
      BY <1>5, <2>1, <3>1
    <3>3. QED
      BY <1>3, <3>1, <3>2
  <2>4. QED
    BY <2>2, <2>3
<1>8. \A y \in E2 : /\ y.id < x2
                    /\ y.id # 0 => y.id > f + 1 \/ y.id = f + 1 \/ (l /\ y.op = "Variable")
  <2>1. ASSUME NEW y \in E2
        PROVE  /\ y.id < x2
               /\ y.id # 0 => y.id > f + 1 \/ y.id = f + 1 \/ (l /\ y.op = "Variable")
    <3>1. CASE y \in E
      <4>1. PICK a \in Nat : a = y.id
        BY <3>1 DEF Nats
      <4>2. a < x /\ (a # 0 => a > f + 1 \/ a = f + 1 \/ (l /\ y.op = "Variable"))
        BY <3>1, <4>1 DEF BoundAt
      <4>3. QED
        BY <4>1, <4>2
    <3>2. CASE x < x2 /\ (y.id = f + 1 \/ y.id = x)
      BY <1>3, <3>2
    <3>3. QED
      BY <2>1, <3>1, <3>2
  <2>2. QED
    BY <2>1
<1>9. BoundAt(f, FALSE, t, x2, E2, l)
  BY <1>1, <1>7, <1>8 DEF BoundAt, Numbers
<1>10. LabelsAt(f, t, E2, l, {})
  BY <1>1, <1>6 DEF LabelsAt, Numbers
<1>11. ASSUME ~l PROVE PendingsAt(f, TRUE, t, E2)
  <2>1. PendingsAt(f, FALSE, s, E)
    BY <1>11
  <2>2. \A j \in 1..m : IsPending(t, j) => j \in 1..q /\ t[j].id = s[j].id /\ IsPending(s, j)
    BY <1>5 DEF IsPending
  <2>3. \A j \in 1..q : IsPending(s, j) => s[j].id >= FirstId /\ Free(s[j].id, E, FALSE) /\ s[j].id < x
    BY <1>1, <2>1 DEF PendingsAt, BoundAt, Numbers
  <2>4. ASSUME NEW j \in 1..m, IsPending(t, j)
        PROVE  t[j].id >= FirstId /\ Free(t[j].id, E2, FALSE)
    <3>1. PICK a \in Nat : a = t[j].id
      BY <1>7
    <3>2. a >= FirstId /\ Free(a, E, FALSE) /\ a < x
      BY <2>2, <2>3, <2>4, <3>1
    <3>3. a # f + 1 /\ a # x
      BY <1>3, <3>2
    <3>4. Free(a, E2, FALSE)
      BY <3>2, <3>3 DEF Free
    <3>5. QED
      BY <3>1, <3>2, <3>4
  <2>5. \A i, j \in 1..m : IsPending(t, i) /\ IsPending(t, j) /\ i # j => t[i].id # t[j].id
    <3>1. \A i, j \in 1..q : IsPending(s, i) /\ IsPending(s, j) /\ i # j => s[i].id # s[j].id
      BY <1>1, <2>1 DEF PendingsAt, Numbers
    <3>2. QED
      BY <2>2, <3>1
  <2>6. QED
    BY <1>1, <1>6, <2>4, <2>5 DEF PendingsAt, Numbers
<1>12. QED
  BY <1>9, <1>10, <1>11 DEF TableOK, WaitingAt

\* The prologue of a kernel shares no id with the code before it.
LEMMA PrologueIs ==
    ASSUME IInv, pc = "enter", NEW d, d = Prologue
    PROVE  /\ d \in Seq(Instruction) /\ Uniq(lost, d)
           /\ \A y \in Elements(d) : y.id = fn + 1 \/ y.id = nextId
           /\ ApartFrom(lost, d, << >>, fndef, fnimpl)
<1>1. /\ fn \in 1..Kernels /\ nextId \in Nat /\ FirstId <= nextId
      /\ BoundAt(fn, TRUE, slots, nextId, CodeOf(fndef, fnimpl), lost)
  BY AtEntry
<1>2. fn + 1 \in Nat /\ fn + 1 < nextId /\ EntpId(fn) = fn + 1
  <2>1. EntpId(fn) < FirstId /\ EntpId(fn) = fn + 1 /\ FirstId \in Nat /\ Kernels \in Nat
    BY <1>1, IdsAre
  <2>2. QED
    BY <1>1, <2>1
<1>3. PICK a \in Nat : a = fn + 1
  BY <1>2
<1>4. PICK y, z : y = Instr("Function", a, << >>) /\ z = Instr("Label", nextId, << >>)
  OBVIOUS
<1>5. InstrIs(y, "Function", a, << >>) /\ InstrIs(z, "Label", nextId, << >>)
  <2>1. "Function" \in Ops /\ "Label" \in Ops
    BY DEF Ops
  <2>2. InstrIs(y, "Function", a, << >>)
    BY <1>4, <2>1, PlainInstr
  <2>3. InstrIs(z, "Label", nextId, << >>)
    BY <1>1, <1>4, <2>1, PlainInstr
  <2>4. QED
    BY <2>2, <2>3
<1>6. y \in Instruction /\ z \in Instruction /\ y.id = a /\ z.id = nextId /\ y.op = "Function" /\ z.op = "Label"
  BY <1>5 DEF InstrIs
<1>7. d = << y, z >>
  BY <1>2, <1>3, <1>4 DEF Prologue
<1>8. ~Hit(lost, y, z)
  BY <1>2, <1>3, <1>6 DEF Hit
<1>9. d \in Seq(Instruction) /\ Elements(d) = {y, z} /\ Uniq(lost, d)
  BY <1>6, <1>7, <1>8, TwoEmitted
<1>10. ASSUME NEW w \in Elements(d), NEW u \in CodeOf(fndef, fnimpl)
       PROVE  ~Hit(lost, w, u)
  <2>1. Nats(CodeOf(fndef, fnimpl))
    BY DEF IInv, Table
  <2>2. PICK b \in Nat : b = u.id
    BY <2>1 DEF Nats
  <2>3. b < nextId /\ (b = a => b = 0 \/ (lost /\ u.op = "Variable"))
    BY <1>1, <1>3, <2>2 DEF BoundAt
  <2>4. CASE w = y
    BY <1>6, <2>2, <2>3, <2>4 DEF Hit
  <2>5. CASE w = z
    BY <1>1, <1>6, <2>2, <2>3, <2>5 DEF Hit
  <2>6. QED
    BY <1>9, <2>4, <2>5
<1>11. ApartFrom(lost, d, << >>, fndef, fnimpl)
  BY <1>10 DEF ApartFrom, Elements
<1>12. QED
  BY <1>3, <1>6, <1>9, <1>11

LEMMA EntryEmits ==
    ASSUME IInv, pc = "enter", fndef' = fndef \/ fndef' = << >> \/ fndef' = fndef \o Prologue,
           fnimpl' = << >>, lost' = lost
    PROVE  /\ SectionsOK(lost', fndef', fnimpl')
           /\ \A y \in CodeOf(fndef', fnimpl') : y \in CodeOf(fndef, fnimpl) \/ y.id = fn + 1 \/ y.id = nextId
           /\ Nats(CodeOf(fndef', fnimpl'))
<1>1. PICK d : d = Prologue
  OBVIOUS
<1>2. /\ d \in Seq(Instruction) /\ Uniq(lost, d)
      /\ \A y \in Elements(d) : y.id = fn + 1 \/ y.id = nextId
      /\ ApartFrom(lost, d, << >>, fndef, fnimpl)
  BY <1>1, PrologueIs
<1>3. << >> \in Seq(Instruction) /\ Elements(<< >>) = {} /\ Uniq(lost, << >>)
  BY NoneEmitted
<1>4. SectionsOK(lost, fndef, fnimpl) /\ Nats(CodeOf(fndef, fnimpl))
  BY DEF IInv, Table
<1>5. PICK a2, b2 : a2 = fndef' /\ b2 = fnimpl'
  OBVIOUS
<1>6. Grown(fndef, a2, d) /\ Grown(fnimpl, b2, << >>)
  BY <1>1, <1>5 DEF Grown
<1>7. Later(lost, lost) /\ Apart(lost, d, << >>)
  BY <1>3 DEF Later, Apart
<1>8. /\ SectionsOK(lost, a2, b2)
      /\ CodeOf(a2, b2) \subseteq CodeOf(fndef, fnimpl) \cup (Elements(d) \cup Elements(<< >>))
  BY <1>2, <1>3, <1>4, <1>6, <1>7, Grow
<1>9. \A y \in CodeOf(a2, b2) : y \in CodeOf(fndef, fnimpl) \/ y.id = fn + 1 \/ y.id = nextId
  BY <1>2, <1>3, <1>8
<1>10. fn + 1 \in Nat /\ nextId \in Nat
  <2>1. fn \in 1..Kernels /\ nextId \in Nat
    BY AtEntry
  <2>2. QED
    BY <2>1
<1>11. Nats(CodeOf(a2, b2))
  BY <1>4, <1>9, <1>10 DEF Nats
<1>12. QED
  BY <1>5, <1>8, <1>9, <1>11

LEMMA EnterStep ==
    ASSUME IInv, Enter
    PROVE  IInv'
<1>1. /\ pc = "enter" /\ pc' = "body" /\ fn' = fn /\ lost' = lost /\ fails' = fails
      /\ fndef' = fndef \o Prologue /\ fnimpl' = << >> /\ nextId' = nextId + 1
      /\ slots' = WithParams(fn).slots /\ num' = WithParams(fn).num
      /\ hasRet' = FALSE /\ err' = OK /\ seen' = {} /\ jumps' = {} /\ stmts' = 0
  BY DEF Enter
<1>2. /\ fn \in 1..Kernels /\ slots \in Seq(Slot) /\ num \in Nat /\ nextId \in Nat /\ FirstId <= nextId
      /\ \A j \in 1..Len(slots) : slots[j].key.fn # fn /\ (slots[j].key.fn = 0 \/ slots[j].key.fn >= fn)
      /\ BoundAt(fn, TRUE, slots, nextId, CodeOf(fndef, fnimpl), lost)
      /\ ~lost => PendingsAt(fn, FALSE, slots, CodeOf(fndef, fnimpl))
  BY <1>1, AtEntry
<1>3. /\ SectionsOK(lost', fndef', fnimpl')
      /\ \A y \in CodeOf(fndef', fnimpl') : y \in CodeOf(fndef, fnimpl) \/ y.id = fn + 1 \/ y.id = nextId
      /\ Nats(CodeOf(fndef', fnimpl'))
  BY <1>1, EntryEmits
<1>4. PICK n \in Nat : n = Params[fn]
  BY <1>2, MaxParamsIs
<1>5. PICK w : w = WithParams(fn)
  OBVIOUS
<1>6. KeysAt(fn, FALSE, slots, n)
  BY <1>2 DEF KeysAt
<1>7. /\ w.slots \in Seq(Slot) /\ w.num \in Nat
      /\ KeysAt(fn, FALSE, w.slots, w.num) /\ ParamsIn(fn, slots, w.slots)
  BY <1>2, <1>4, <1>5, <1>6, WithParamsIs
<1>8. slots' = w.slots /\ num' = w.num
  BY <1>1, <1>5
<1>9. PICK t, k, E, E2 : t = w.slots /\ k = w.num /\ E = CodeOf(fndef, fnimpl) /\ E2 = CodeOf(fndef', fnimpl')
  OBVIOUS
<1>10. PICK x2 \in Nat : x2 = nextId + 1 /\ nextId < x2 /\ nextId <= x2
  BY <1>2
<1>17. TableOK(fn, FALSE, TRUE, t, k, x2, E2, lost, {})
  <2>1. ParamsIn(fn, slots, t) /\ KeysAt(fn, FALSE, t, k)
    BY <1>7, <1>9
  <2>2. Nats(E)
    BY <1>9 DEF IInv, Table
  <2>3. \A y \in E2 : y \in E \/ (nextId < x2 /\ (y.id = fn + 1 \/ y.id = nextId))
    BY <1>3, <1>9, <1>10
  <2>4. BoundAt(fn, TRUE, slots, nextId, E, lost) /\ (~lost => PendingsAt(fn, FALSE, slots, E))
    BY <1>2, <1>9
  <2>5. QED
    BY <1>2, <1>10, <2>1, <2>2, <2>3, <2>4, EnteredTable
<1>11. (pc' = "enter") = FALSE /\ (pc' = "body") = TRUE
  BY <1>1
<1>12. TableOK(fn', pc' = "enter", pc' = "body", slots', num', nextId', CodeOf(fndef', fnimpl'), lost', seen')
  BY <1>1, <1>8, <1>9, <1>10, <1>11, <1>17
<1>13. Table'
  BY <1>1, <1>2, <1>3, <1>7, <1>8, <1>12, IdsAre DEF Table
<1>14. Scope'
  BY <1>1, <1>2, IdsAre DEF Scope
<1>15. Small'
  <2>1. Small /\ IsFiniteSet({}) /\ MaxStmts \in Nat
    BY FS_EmptySet, KernelAssumption DEF IInv
  <2>2. IsFiniteSet(jumps')
    BY <1>1, <2>1
  <2>3. hasRet' \in BOOLEAN /\ lost' \in BOOLEAN
    BY <1>1, <2>1 DEF Small
  <2>4. err' \in {OK, ALLOC_FAILED, MET_INVAL} /\ stmts' \in 0..MaxStmts /\ fails' \in 0..MaxFails
    BY <1>1, <2>1 DEF Small
  <2>5. QED
    BY <2>2, <2>3, <2>4 DEF Small
<1>16. QED
  BY <1>13, <1>14, <1>15 DEF IInv

LEMMA EnterFailsStep ==
    ASSUME IInv, EnterFails
    PROVE  IInv'
<1>1. /\ pc = "enter" /\ AllocFails /\ fnimpl' = << >> /\ err' = ALLOC_FAILED /\ pc' = "done"
      /\ fn' = fn /\ hasRet' = hasRet /\ lost' = lost /\ seen' = seen /\ jumps' = jumps /\ stmts' = stmts
  BY DEF EnterFails, source
<1>2. \/ fndef' = << >> /\ nextId' \in {nextId, nextId + 1} /\ slots' = slots /\ num' = num
      \/ \E n \in Params[fn]..(2 * Params[fn] - 1) :
            fndef' = fndef \o Prologue /\ nextId' = nextId + 1 /\ slots' = << >> /\ num' = n
  BY DEF EnterFails, table
<1>3. /\ fn \in 1..Kernels /\ slots \in Seq(Slot) /\ num \in Nat /\ nextId \in Nat /\ FirstId <= nextId
      /\ \A j \in 1..Len(slots) : slots[j].key.fn # fn /\ (slots[j].key.fn = 0 \/ slots[j].key.fn >= fn)
      /\ BoundAt(fn, TRUE, slots, nextId, CodeOf(fndef, fnimpl), lost)
      /\ ~lost => PendingsAt(fn, FALSE, slots, CodeOf(fndef, fnimpl))
  BY <1>1, AtEntry
<1>4. slots' \in Seq(Slot) /\ num' \in Nat /\ (slots' = slots \/ slots' = << >>)
  <2>1. PICK p \in Nat : p = Params[fn]
    BY <1>3, MaxParamsIs
  <2>2. \A n \in p..(2 * p - 1) : n \in Nat
    OBVIOUS
  <2>3. \A n \in Params[fn]..(2 * Params[fn] - 1) : n \in Nat
    BY <2>1, <2>2
  <2>4. CASE slots' = slots /\ num' = num
    BY <1>3, <2>4
  <2>5. CASE slots' = << >> /\ num' \in Params[fn]..(2 * Params[fn] - 1)
    BY <2>3, <2>5
  <2>6. QED
    BY <1>2, <2>4, <2>5
<1>5. fndef' = << >> \/ fndef' = fndef \o Prologue
  BY <1>2
<1>6. /\ SectionsOK(lost', fndef', fnimpl')
      /\ \A y \in CodeOf(fndef', fnimpl') : y \in CodeOf(fndef, fnimpl) \/ y.id = fn + 1 \/ y.id = nextId
      /\ Nats(CodeOf(fndef', fnimpl'))
  BY <1>1, <1>5, EntryEmits
<1>7. PICK x2 \in Nat : x2 = nextId' /\ nextId <= x2
  BY <1>2, <1>3
<1>8. \A y \in CodeOf(fndef', fnimpl') : y \in CodeOf(fndef, fnimpl) \/ (nextId < x2 /\ (y.id = fn + 1 \/ y.id = nextId))
  <2>1. CASE fndef' = << >>
    BY <1>1, <2>1 DEF CodeOf, Elements
  <2>2. CASE nextId' = nextId + 1
    BY <1>3, <1>6, <1>7, <2>2
  <2>3. QED
    BY <1>2, <2>1, <2>2
<1>9. PICK t, k, E, E2 : t = slots' /\ k = num' /\ E = CodeOf(fndef, fnimpl) /\ E2 = CodeOf(fndef', fnimpl')
  OBVIOUS
<1>10. ParamsIn(fn, slots, t) /\ KeysAt(fn, FALSE, t, k)
  <2>1. CASE t = slots
    BY <1>3, <2>1 DEF ParamsIn, SameSlot, KeysAt
  <2>2. CASE t = << >>
    BY <2>2 DEF ParamsIn, KeysAt
  <2>3. QED
    BY <1>4, <1>9, <2>1, <2>2
<1>11. TableOK(fn, FALSE, TRUE, t, k, x2, E2, lost, {})
  <2>1. Nats(E)
    BY <1>9 DEF IInv, Table
  <2>2. \A y \in E2 : y \in E \/ (nextId < x2 /\ (y.id = fn + 1 \/ y.id = nextId))
    BY <1>8, <1>9
  <2>3. BoundAt(fn, TRUE, slots, nextId, E, lost) /\ (~lost => PendingsAt(fn, FALSE, slots, E))
    BY <1>3, <1>9
  <2>4. QED
    BY <1>3, <1>7, <1>10, <2>1, <2>2, <2>3, EnteredTable
<1>12. TableOK(fn, FALSE, FALSE, t, k, x2, E2, lost, seen')
  BY <1>11 DEF TableOK, WaitingAt, PendingsAt
<1>13. (pc' = "enter") = FALSE /\ (pc' = "body") = FALSE
  BY <1>1
<1>14. TableOK(fn', pc' = "enter", pc' = "body", slots', num', nextId', CodeOf(fndef', fnimpl'), lost', seen')
  BY <1>1, <1>7, <1>9, <1>12, <1>13
<1>15. Table'
  BY <1>3, <1>4, <1>6, <1>7, <1>14, IdsAre DEF Table
<1>16. Scope'
  BY <1>1, <1>3, IdsAre DEF Scope
<1>17. Small'
  <2>1. fails' \in 0..MaxFails
    BY <1>1, FailsIs
  <2>2. QED
    BY <1>1, <2>1 DEF Small, IInv
<1>18. QED
  BY <1>15, <1>16, <1>17 DEF IInv

LEMMA InitStep == Init => IInv
<1> SUFFICES ASSUME Init PROVE IInv
  OBVIOUS
<1>1. /\ fn = Kernels /\ pc = "enter" /\ slots = << >> /\ num = 0 /\ nextId = FirstId
      /\ fndef = << >> /\ fnimpl = << >> /\ hasRet = FALSE /\ err = OK
      /\ seen = {} /\ jumps = {} /\ stmts = 0 /\ fails = 0 /\ lost = FALSE
  BY DEF Init
<1>2. << >> \in Seq(Instruction) /\ Elements(<< >>) = {} /\ Uniq(lost, << >>)
  BY NoneEmitted
<1>3. CodeOf(fndef, fnimpl) = {} /\ SectionsOK(lost, fndef, fnimpl)
  BY <1>1, <1>2 DEF CodeOf, SectionsOK, Apart
<1>4. FirstId \in Nat /\ Kernels \in Nat \ {0} /\ MaxStmts \in Nat /\ MaxFails \in Nat
  BY IdsAre, KernelAssumption
<1>5. slots \in Seq(Slot) /\ Len(slots) = 0
  BY <1>1
<1>6. PICK E : E = CodeOf(fndef, fnimpl) /\ E = {}
  BY <1>3
<1>7. KeysAt(fn, pc = "enter", slots, num) /\ BoundAt(fn, pc = "enter", slots, nextId, E, lost)
  BY <1>5, <1>6 DEF KeysAt, BoundAt
<1>8. WaitingAt(fn, pc = "body", slots, E, lost)
  BY <1>5, <1>6 DEF WaitingAt, PendingsAt
<1>9. Table
  <2>1. TableOK(fn, pc = "enter", pc = "body", slots, num, nextId, E, lost, seen)
    BY <1>1, <1>7, <1>8 DEF TableOK
  <2>2. Nats(CodeOf(fndef, fnimpl)) /\ nextId \in Nat /\ FirstId <= nextId /\ num \in Nat
    BY <1>1, <1>3, <1>4 DEF Nats
  <2>3. QED
    BY <1>3, <1>5, <1>6, <2>1, <2>2 DEF Table
<1>10. Scope
  BY <1>1, <1>4 DEF Scope
<1>11. Small
  <2>1. IsFiniteSet(jumps)
    BY <1>1, FS_EmptySet
  <2>2. hasRet \in BOOLEAN /\ lost \in BOOLEAN /\ err \in {OK, ALLOC_FAILED, MET_INVAL}
    BY <1>1
  <2>3. stmts \in 0..MaxStmts /\ fails \in 0..MaxFails
    BY <1>1, <1>4
  <2>4. QED
    BY <2>1, <2>2, <2>3 DEF Small
<1>12. QED
  BY <1>9, <1>10, <1>11 DEF IInv

\* The table and the code when a body was visited to its end or given up.
LEMMA AtExit ==
    ASSUME IInv, BodyEnds
    PROVE  /\ fn \in 1..Kernels /\ pc \in {"body", "leave"}
           /\ KeysAt(fn, FALSE, slots, num)
           /\ BoundAt(fn, FALSE, slots, nextId, CodeOf(fndef, fnimpl), lost)
           /\ ~lost => PendingsAt(fn, FALSE, slots, CodeOf(fndef, fnimpl))
<1>1. pc \in {"body", "leave"}
  BY DEF BodyEnds
<1>2. fn \in 1..Kernels
  BY <1>1, IdsAre DEF IInv, Scope
<1>3. (pc = "enter") = FALSE
  BY <1>1
<1>4. TableOK(fn, FALSE, pc = "body", slots, num, nextId, CodeOf(fndef, fnimpl), lost, seen)
  <2>1. TableOK(fn, pc = "enter", pc = "body", slots, num, nextId, CodeOf(fndef, fnimpl), lost, seen)
    BY DEF IInv, Table
  <2>2. QED
    BY <1>3, <2>1
<1>5. ~lost => PendingsAt(fn, pc = "body", slots, CodeOf(fndef, fnimpl))
  BY <1>4 DEF TableOK, WaitingAt
<1>6. ~lost => PendingsAt(fn, FALSE, slots, CodeOf(fndef, fnimpl))
  BY <1>5 DEF PendingsAt
<1>7. QED
  BY <1>1, <1>2, <1>4, <1>6 DEF TableOK

\* The compilation ends in a kernel, with the code it has or less.
LEMMA EndStep ==
    ASSUME IInv, BodyEnds, pc' = "done", UNCHANGED << fn, table, nextId, fnimpl, source, lost, hasRet >>,
           fndef' = fndef \/ fndef' = << >>, fails' \in 0..MaxFails, err' \in {OK, ALLOC_FAILED, MET_INVAL}
    PROVE  IInv'
<1>1. /\ fn \in 1..Kernels /\ pc \in {"body", "leave"}
      /\ KeysAt(fn, FALSE, slots, num)
      /\ BoundAt(fn, FALSE, slots, nextId, CodeOf(fndef, fnimpl), lost)
      /\ ~lost => PendingsAt(fn, FALSE, slots, CodeOf(fndef, fnimpl))
  BY AtExit
<1>2. /\ fn' = fn /\ slots' = slots /\ num' = num /\ nextId' = nextId /\ fnimpl' = fnimpl
      /\ seen' = seen /\ jumps' = jumps /\ stmts' = stmts /\ lost' = lost /\ hasRet' = hasRet
  BY DEF table, source
<1>3. SectionsOK(lost, fndef', fnimpl) /\ CodeOf(fndef', fnimpl) \subseteq CodeOf(fndef, fnimpl)
  <2>1. SectionsOK(lost, fndef, fnimpl)
    BY DEF IInv, Table
  <2>2. << >> \in Seq(Instruction) /\ Elements(<< >>) = {} /\ Uniq(lost, << >>)
    BY NoneEmitted
  <2>3. CASE fndef' = << >>
    BY <2>1, <2>2, <2>3 DEF SectionsOK, CodeOf, Apart
  <2>4. CASE fndef' = fndef
    BY <2>1, <2>4
  <2>5. QED
    BY <2>3, <2>4
<1>4. PICK E, E2 : E = CodeOf(fndef, fnimpl) /\ E2 = CodeOf(fndef', fnimpl)
  OBVIOUS
<1>5. E2 \subseteq E /\ Nats(E)
  BY <1>3, <1>4 DEF IInv, Table
<1>6. BoundAt(fn, FALSE, slots, nextId, E2, lost)
  BY <1>1, <1>4, <1>5 DEF BoundAt
<1>7. WaitingAt(fn, FALSE, slots, E2, lost)
  BY <1>1, <1>4, <1>5 DEF WaitingAt, PendingsAt, Free
<1>8. TableOK(fn, FALSE, FALSE, slots, num, nextId, E2, lost, seen)
  BY <1>1, <1>6, <1>7 DEF TableOK
<1>9. (pc' = "enter") = FALSE /\ (pc' = "body") = FALSE
  OBVIOUS
<1>10. TableOK(fn', pc' = "enter", pc' = "body", slots', num', nextId', CodeOf(fndef', fnimpl'), lost', seen')
  BY <1>2, <1>4, <1>8, <1>9
<1>11. Table'
  <2>1. Nats(CodeOf(fndef', fnimpl'))
    BY <1>2, <1>4, <1>5 DEF Nats
  <2>2. slots \in Seq(Slot) /\ num \in Nat /\ nextId \in Nat /\ FirstId <= nextId
    BY DEF IInv, Table
  <2>3. QED
    BY <1>2, <1>3, <1>10, <2>1, <2>2 DEF Table
<1>12. Scope'
  BY <1>1, <1>2, IdsAre DEF Scope
<1>13. Small'
  BY <1>2 DEF Small, IInv
<1>14. QED
  BY <1>11, <1>12, <1>13 DEF IInv

LEMMA LeaveFailsStep ==
    ASSUME IInv, LeaveFails
    PROVE  IInv'
<1>1. /\ BodyEnds /\ AllocFails /\ fndef' = << >> /\ err' = ALLOC_FAILED /\ pc' = "done"
      /\ UNCHANGED << fn, table, nextId, fnimpl, source, lost, hasRet >>
  BY DEF LeaveFails
<1>2. fails' \in 0..MaxFails
  BY <1>1, FailsIs
<1>3. QED
  BY <1>1, <1>2, EndStep

LEMMA AbortStep ==
    ASSUME IInv, Abort
    PROVE  IInv'
<1>1. /\ BodyEnds /\ fndef' = fndef /\ err' = err /\ pc' = "done" /\ fails' = fails
      /\ UNCHANGED << fn, table, nextId, fnimpl, source, lost, hasRet >>
  BY DEF Abort
<1>2. fails' \in 0..MaxFails /\ err' \in {OK, ALLOC_FAILED, MET_INVAL}
  BY <1>1 DEF IInv, Small
<1>3. QED
  BY <1>1, <1>2, EndStep

\* What ends a function defines no id.
LEMMA EpilogueIs ==
    ASSUME NEW d, d = Epilogue, NEW l
    PROVE  d \in Seq(Instruction) /\ Uniq(l, d) /\ \A y \in Elements(d) : y.id = 0
<1>1. PICK y, z : y = Instr("Return", 0, << >>) /\ z = Instr("FunctionEnd", 0, << >>)
  OBVIOUS
<1>2. y \in Instruction /\ z \in Instruction /\ y.id = 0 /\ z.id = 0
  <2>1. "Return" \in Ops /\ "FunctionEnd" \in Ops
    BY DEF Ops
  <2>2. InstrIs(y, "Return", 0, << >>)
    BY <1>1, <2>1, PlainInstr
  <2>3. InstrIs(z, "FunctionEnd", 0, << >>)
    BY <1>1, <2>1, PlainInstr
  <2>4. QED
    BY <2>2, <2>3 DEF InstrIs
<1>3. PICK e : (e = << y >> \/ e = << >>) /\ d = e \o << z >>
  <2>1. CASE hasRet
    BY <1>1, <2>1 DEF Epilogue
  <2>2. CASE ~hasRet
    BY <1>1, <2>2 DEF Epilogue
  <2>3. QED
    BY <2>1, <2>2
<1>4. e \in Seq(Instruction) /\ Uniq(l, e) /\ \A w \in Elements(e) : w.id = 0
  <2>1. CASE e = << y >>
    BY <1>2, <2>1, OneEmitted
  <2>2. CASE e = << >>
    BY <2>2, NoneEmitted
  <2>3. QED
    BY <1>3, <2>1, <2>2
<1>5. << z >> \in Seq(Instruction) /\ Elements(<< z >>) = {z} /\ Uniq(l, << z >>)
  BY <1>2, OneEmitted
<1>6. PICK s : s = << z >>
  OBVIOUS
<1>7. Apart(l, e, s)
  BY <1>4 DEF Apart, Hit
<1>8. d \in Seq(Instruction) /\ Elements(d) = Elements(e) \cup Elements(s)
  BY <1>3, <1>4, <1>5, <1>6, ElementsConcat
<1>9. Uniq(l, e \o s)
  BY <1>4, <1>5, <1>6, <1>7, UniqConcat
<1>10. QED
  BY <1>2, <1>3, <1>4, <1>5, <1>6, <1>8, <1>9

\* The code of a finished function.
LEMMA FunctionEnds ==
    ASSUME NEW l, NEW a, NEW b, SectionsOK(l, a, b), Nats(CodeOf(a, b)), NEW d, d = Epilogue, NEW a2, a2 = a \o b \o d
    PROVE  /\ SectionsOK(l, a2, << >>)
           /\ \A y \in CodeOf(a2, << >>) : y \in CodeOf(a, b) \/ y.id = 0
<1>1. a \in Seq(Instruction) /\ b \in Seq(Instruction) /\ Uniq(l, a) /\ Uniq(l, b) /\ Apart(l, a, b)
  BY DEF SectionsOK
<1>2. PICK ab : ab = a \o b
  OBVIOUS
<1>3. ab \in Seq(Instruction) /\ Elements(ab) = Elements(a) \cup Elements(b)
  BY <1>1, <1>2, ElementsConcat
<1>4. Uniq(l, ab)
  <2>1. Uniq(l, a \o b)
    BY <1>1, UniqConcat
  <2>2. QED
    BY <1>2, <2>1
<1>5. d \in Seq(Instruction) /\ Uniq(l, d) /\ \A y \in Elements(d) : y.id = 0
  BY EpilogueIs
<1>6. a2 = ab \o d
  BY <1>2
<1>7. a2 \in Seq(Instruction) /\ Elements(a2) = Elements(ab) \cup Elements(d)
  BY <1>3, <1>5, <1>6, ElementsConcat
<1>8. Apart(l, ab, d)
  BY <1>5 DEF Apart, Hit
<1>9. Uniq(l, a2)
  <2>1. Uniq(l, ab \o d)
    BY <1>3, <1>4, <1>5, <1>8, UniqConcat
  <2>2. QED
    BY <1>6, <2>1
<1>10. << >> \in Seq(Instruction) /\ Elements(<< >>) = {} /\ Uniq(l, << >>)
  BY NoneEmitted
<1>11. SectionsOK(l, a2, << >>)
  BY <1>7, <1>9, <1>10 DEF SectionsOK, Apart
<1>12. \A y \in CodeOf(a2, << >>) : y \in CodeOf(a, b) \/ y.id = 0
  BY <1>3, <1>5, <1>7, <1>10 DEF CodeOf
<1>13. QED
  BY <1>11, <1>12

LEMMA LeaveStep ==
    ASSUME IInv, Leave
    PROVE  IInv'
<1>1. /\ BodyEnds /\ err = OK /\ fndef' = fndef \o fnimpl \o Epilogue /\ fnimpl' = << >> /\ fn' = fn - 1
      /\ pc' = IF fn = 1 THEN "done" ELSE "enter"
      /\ slots' = slots /\ num' = num /\ nextId' = nextId /\ hasRet' = hasRet /\ err' = err
      /\ seen' = seen /\ jumps' = jumps /\ stmts' = stmts /\ fails' = fails /\ lost' = lost
  BY DEF Leave, table, source
<1>2. /\ fn \in 1..Kernels
      /\ KeysAt(fn, FALSE, slots, num)
      /\ BoundAt(fn, FALSE, slots, nextId, CodeOf(fndef, fnimpl), lost)
      /\ ~lost => PendingsAt(fn, FALSE, slots, CodeOf(fndef, fnimpl))
  BY <1>1, AtExit
<1>3. /\ slots \in Seq(Slot) /\ num \in Nat /\ nextId \in Nat /\ FirstId <= nextId /\ FirstId \in Nat
      /\ Kernels \in Nat /\ FirstId >= 2 + Kernels
  BY IdsAre DEF IInv, Table
<1>4. SectionsOK(lost, fndef, fnimpl) /\ Nats(CodeOf(fndef, fnimpl))
  BY DEF IInv, Table
<1>5. PICK d, a2 : d = Epilogue /\ a2 = fndef \o fnimpl \o d
  OBVIOUS
<1>6. /\ SectionsOK(lost, a2, << >>)
      /\ \A y \in CodeOf(a2, << >>) : y \in CodeOf(fndef, fnimpl) \/ y.id = 0
  BY <1>4, <1>5, FunctionEnds
<1>7. PICK f \in 0..Kernels : f = fn - 1
  BY <1>2, <1>3
<1>8. PICK E, E2 : E = CodeOf(fndef, fnimpl) /\ E2 = CodeOf(a2, << >>)
  OBVIOUS
<1>9. Nats(E) /\ \A y \in E2 : y \in E \/ y.id = 0
  BY <1>4, <1>6, <1>8
<1>10. \A j \in 1..Len(slots) : slots[j].key.fn = 0 \/ (slots[j].key.fn >= f /\ slots[j].key.fn # f)
  <2>1. PICK q \in Nat : q = Len(slots) /\ DOMAIN slots = 1..q
    BY <1>3
  <2>2. ASSUME NEW j \in 1..q
        PROVE  slots[j].key.fn = 0 \/ (slots[j].key.fn >= f /\ slots[j].key.fn # f)
    <3>1. slots[j] \in Slot
      BY <1>3, <2>1
    <3>2. PICK g \in Nat : g = slots[j].key.fn
      <4> HIDE DEF Slot
      <4>1. slots[j].key \in CursorT
        BY <3>1, SlotIs
      <4>2. QED
        BY <1>3, <4>1 DEF CursorT
    <3>3. g = 0 \/ g >= fn
      BY <1>2, <2>1, <3>2 DEF KeysAt
    <3>4. QED
      BY <1>2, <1>7, <3>2, <3>3
  <2>3. QED
    BY <2>1, <2>2
<1>11. ASSUME NEW e PROVE KeysAt(f, e, slots, num)
  BY <1>10 DEF KeysAt
<1>12. ASSUME NEW e PROVE BoundAt(f, e, slots, nextId, E2, lost)
  <2>1. ASSUME NEW y \in E2
        PROVE  y.id < nextId /\ (y.id # 0 => y.id > f + 1 \/ (lost /\ y.op = "Variable"))
    <3>1. CASE y.id = 0
      BY <1>2, <1>3, <3>1
    <3>2. CASE y \in E
      <4>1. PICK a \in Nat : a = y.id
        BY <1>9, <3>2 DEF Nats
      <4>2. a < nextId /\ (a # 0 => a > fn + 1 \/ a = fn + 1 \/ (lost /\ y.op = "Variable"))
        BY <1>2, <1>8, <3>2, <4>1 DEF BoundAt
      <4>3. QED
        BY <1>2, <1>7, <4>1, <4>2
    <3>3. QED
      BY <1>9, <2>1, <3>1, <3>2
  <2>2. \A j \in 1..Len(slots) : slots[j].id < nextId
    BY <1>2 DEF BoundAt
  <2>3. QED
    BY <2>1, <2>2 DEF BoundAt
<1>13. WaitingAt(f, FALSE, slots, E2, lost)
  <2>1. ASSUME ~lost PROVE PendingsAt(f, FALSE, slots, E2)
    <3>1. PendingsAt(fn, FALSE, slots, E)
      BY <1>2, <1>8, <2>1
    <3>2. ASSUME NEW j \in 1..Len(slots), IsPending(slots, j)
          PROVE  Free(slots[j].id, E2, FALSE)
      <4>1. Free(slots[j].id, E, FALSE) /\ slots[j].id >= FirstId
        BY <3>1, <3>2 DEF PendingsAt
      <4>2. slots[j].id # 0
        BY <1>3, <4>1
      <4>3. QED
        BY <1>9, <4>1, <4>2 DEF Free
    <3>3. QED
      BY <3>1, <3>2 DEF PendingsAt
  <2>2. QED
    BY <2>1 DEF WaitingAt
<1>14. PICK e : e = (pc' = "enter")
  OBVIOUS
<1>15. TableOK(f, e, FALSE, slots, num, nextId, E2, lost, seen)
  BY <1>11, <1>12, <1>13 DEF TableOK
<1>16. (pc' = "body") = FALSE
  BY <1>1
<1>17. fndef' = a2 /\ fnimpl' = << >> /\ fn' = f
  BY <1>1, <1>5, <1>7
<1>18. Table'
  <2>1. TableOK(fn', pc' = "enter", pc' = "body", slots', num', nextId', CodeOf(fndef', fnimpl'), lost', seen')
    BY <1>1, <1>8, <1>14, <1>15, <1>16, <1>17
  <2>2. Nats(CodeOf(fndef', fnimpl'))
    BY <1>8, <1>9, <1>17 DEF Nats
  <2>3. SectionsOK(lost', fndef', fnimpl')
    BY <1>1, <1>6, <1>17
  <2>4. QED
    BY <1>1, <1>3, <2>1, <2>2, <2>3 DEF Table
<1>19. Scope'
  <2>1. fn = 1 => pc' = "done"
    BY <1>1
  <2>2. fn # 1 => pc' = "enter" /\ f # 0
    BY <1>1, <1>2, <1>7
  <2>3. QED
    BY <1>1, <1>17, <2>1, <2>2 DEF Scope
<1>20. Small'
  BY <1>1 DEF IInv, Small
<1>21. QED
  BY <1>18, <1>19, <1>20 DEF IInv

LEMMA NextStep ==
    ASSUME IInv, [Next]_vars
    PROVE  IInv'
<1>1. CASE UNCHANGED vars
  BY <1>1 DEF vars, IInv, Small, Scope, Table
<1>2. CASE Enter
  BY <1>2, EnterStep
<1>3. CASE EnterFails
  BY <1>3, EnterFailsStep
<1>4. CASE Leave
  BY <1>4, LeaveStep
<1>5. CASE LeaveFails
  BY <1>5, LeaveFailsStep
<1>6. CASE Abort
  BY <1>6, AbortStep
<1>7. CASE Finished
  BY <1>1, <1>7 DEF Finished
<1>8. CASE ReturnStmt
  BY <1>8, ReturnStmtStep
<1>9. CASE ReturnStmtFails
  BY <1>9, ReturnStmtFailsStep
<1>10. CASE OtherStmt
  BY <1>10, OtherStmtStep
<1>11. ASSUME NEW n \in Names, \E number, init \in BOOLEAN : VarDecl(n, number, init)
       PROVE  IInv'
  BY <1>11, VarDeclStep
<1>12. ASSUME NEW n \in Names, VarDeclUnknown(n) \/ VarDeclFails(n)
       PROVE  IInv'
  BY <1>12, VarDeclUnknownStep, VarDeclFailsStep
<1>13. ASSUME NEW n \in Names, LabelStmt(n) \/ LabelStmtGivenUp(n) \/ LabelStmtFails(n)
       PROVE  IInv'
  BY <1>13, LabelStmtStep, LabelStmtGivenUpStep, LabelStmtFailsStep
<1>14. ASSUME NEW n \in Names, GotoStmt(n) \/ GotoStmtFails(n)
       PROVE  IInv'
  BY <1>14, GotoStmtStep, GotoStmtFailsStep
<1>15. ASSUME NEW n \in Names, ExprStmt(n) \/ ExprStmtFails(n)
       PROVE  IInv'
  BY <1>15, ExprStmtStep, ExprStmtFailsStep
<1>16. QED
  BY <1>1, <1>2, <1>3, <1>4, <1>5, <1>6, <1>7, <1>8, <1>9, <1>10, <1>11, <1>12, <1>13, <1>14, <1>15 DEF Next

\* The table and the sections fit together in every state: keys, ids, pending
\* variables, labels and the code that has been emitted.
THEOREM Inductive == Spec => []IInv
<1>1. Init => IInv
  BY InitStep
<1>2. IInv /\ [Next]_vars => IInv'
  BY NextStep
<1>3. QED
  BY <1>1, <1>2, PTL DEF Spec

\* Slots, sections, counters and the reported error have their types, whatever
\* statements fail.
THEOREM TypeCorrect == Spec => []TypeOK
<1>1. IInv => TypeOK
  BY DEF IInv, Small, Scope, Table, SectionsOK, TypeOK
<1>2. QED
  BY <1>1, Inductive, PTL

\* util_find_cursor finds at most one slot of the current kernel for a cursor:
\* a goto and its label, or two uses of a variable, agree on the id.
THEOREM KeysDistinct == Spec => []WindowKeysDistinct
<1>1. ASSUME IInv PROVE WindowKeysDistinct
  <2>1. PICK q \in Nat : q = Len(slots)
    BY <1>1 DEF IInv, Table
  <2>2. KeysAt(fn, pc = "enter", slots, num)
    BY <1>1 DEF IInv, Table, TableOK
  <2>3. fn # 0 => \A i, j \in 1..q : slots[i].key.fn = fn /\ slots[i].key = slots[j].key => i = j
    BY <2>1, <2>2 DEF KeysAt
  <2>4. \A i \in 1..num : i <= Cap => i \in 1..q
    BY <1>1, <2>1 DEF Cap, IInv, Table
  <2>5. QED
    BY <2>3, <2>4 DEF WindowKeysDistinct
<1>2. QED
  BY <1>1, Inductive, PTL

\* No id in the code of the module's functions is handed out to two statements,
\* and none is above the counter: only values of one and the same expression
\* ever share theirs.
THEOREM IdsUnique == Spec => []ResultIdsUnique
<1>1. ASSUME IInv PROVE ResultIdsUnique
  <2>1. PICK c : c = fndef \o fnimpl
    OBVIOUS
  <2>2. /\ fndef \in Seq(Instruction) /\ fnimpl \in Seq(Instruction)
        /\ Uniq(lost, fndef) /\ Uniq(lost, fnimpl) /\ Apart(lost, fndef, fnimpl)
    BY <1>1 DEF IInv, Table, SectionsOK
  <2>3. c \in Seq(Instruction) /\ Elements(c) = CodeOf(fndef, fnimpl)
    BY <2>1, <2>2, ElementsConcat DEF CodeOf
  <2>4. Uniq(lost, fndef \o fnimpl)
    BY <2>2, UniqConcat
  <2>5. PICK n \in Nat : n = Len(c) /\ DOMAIN c = 1..n
    <3> HIDE DEF Instruction
    <3>1. QED
      BY <2>3
  <2>6. \A i \in 1..n : c[i].id < nextId
    <3>1. BoundAt(fn, pc = "enter", slots, nextId, CodeOf(fndef, fnimpl), lost)
      BY <1>1 DEF IInv, Table, TableOK
    <3>2. \A i \in 1..n : c[i] \in CodeOf(fndef, fnimpl)
      BY <2>3, <2>5 DEF Elements
    <3>3. QED
      BY <3>1, <3>2 DEF BoundAt
  <2>7. \A i \in 1..n : \A j \in 1..(i - 1) : ~Clash(c[i], c[j])
    <3>1. \A i \in 1..n : \A j \in 1..(i - 1) : j \in 1..n /\ i # j
      OBVIOUS
    <3>2. QED
      BY <2>1, <2>4, <2>5, <3>1 DEF Uniq, Hit, Clash
  <2>8. QED
    BY <2>1, <2>5, <2>6, <2>7 DEF ResultIdsUnique, Code
<1>2. QED
  BY <1>1, Inductive, PTL
------------------------------------------------------------------------------
(***************************************************************************)
(* The order of instructions in a section.                                 *)
(***************************************************************************)
\* y comes right after x.
Adjacent(c, x, y) == \E i \in 1..(Len(c) - 1) : x = c[i] /\ y = c[i + 1]

Ends(c, x) == Len(c) > 0 /\ x = c[Len(c)]
Starts(c, x) == Len(c) > 0 /\ x = c[1]
Empty(c) == c = << >>

LEMMA LenZero == ASSUME NEW S, NEW s \in Seq(S), Len(s) = 0 PROVE s = << >>
<1>1. s # << >> => Len(s) \in Nat \ {0}
  BY EmptySeq
<1>2. QED
  BY <1>1

\* Where the pairs and the ends of s followed by t come from.
Joined(s, t, c) ==
    /\ \A x, y : Adjacent(s, x, y) => Adjacent(c, x, y)
    /\ \A x, y : Adjacent(t, x, y) => Adjacent(c, x, y)
    /\ \A x, y : Ends(s, x) /\ Starts(t, y) => Adjacent(c, x, y)
    /\ \A x, y : Adjacent(c, x, y) => \/ Adjacent(s, x, y)
                                      \/ Adjacent(t, x, y)
                                      \/ Ends(s, x) /\ Starts(t, y)
    /\ \A x : Ends(c, x) => Ends(t, x) \/ (Empty(t) /\ Ends(s, x))
    /\ \A x : Starts(c, x) => Starts(s, x) \/ (Empty(s) /\ Starts(t, x))

LEMMA AdjacentConcat ==
    ASSUME NEW S, NEW s \in Seq(S), NEW t \in Seq(S), NEW c, c = s \o t
    PROVE  Joined(s, t, c)
<1>1. PICK m \in Nat : m = Len(s)
  BY LenOf
<1>2. PICK n \in Nat : n = Len(t)
  BY LenOf
<1>3. /\ c \in Seq(S) /\ Len(c) = m + n
      /\ \A i \in 1..m : c[i] = s[i]
      /\ \A i \in 1..n : c[m + i] = t[i]
      /\ \A i \in 1..(m + n) : i > m => i - m \in 1..n /\ c[i] = t[i - m]
  BY <1>1, <1>2, Concat
<1>4. ASSUME NEW x, NEW y, Adjacent(s, x, y) PROVE Adjacent(c, x, y)
  <2>1. PICK i \in 1..(m - 1) : x = s[i] /\ y = s[i + 1]
    BY <1>1, <1>4 DEF Adjacent
  <2>2. i \in 1..m /\ i + 1 \in 1..m /\ i \in 1..((m + n) - 1)
    OBVIOUS
  <2>3. QED
    BY <1>3, <2>1, <2>2 DEF Adjacent
<1>5. ASSUME NEW x, NEW y, Adjacent(t, x, y) PROVE Adjacent(c, x, y)
  <2>1. PICK i \in 1..(n - 1) : x = t[i] /\ y = t[i + 1]
    BY <1>2, <1>5 DEF Adjacent
  <2>2. i \in 1..n /\ i + 1 \in 1..n /\ m + i \in 1..((m + n) - 1) /\ m + (i + 1) = (m + i) + 1
    OBVIOUS
  <2>3. c[m + i] = x /\ c[(m + i) + 1] = y
    BY <1>3, <2>1, <2>2
  <2>4. QED
    BY <1>3, <2>2, <2>3 DEF Adjacent
<1>6. ASSUME NEW x, NEW y, Ends(s, x), Starts(t, y) PROVE Adjacent(c, x, y)
  <2>1. m > 0 /\ n > 0 /\ x = s[m] /\ y = t[1]
    BY <1>1, <1>2, <1>6 DEF Ends, Starts
  <2>2. m \in 1..m /\ 1 \in 1..n /\ m \in 1..((m + n) - 1)
    BY <2>1
  <2>3. c[m] = x /\ c[m + 1] = y
    BY <1>3, <2>1, <2>2
  <2>4. QED
    BY <1>3, <2>2, <2>3 DEF Adjacent
<1>7. ASSUME NEW x, NEW y, Adjacent(c, x, y)
      PROVE  Adjacent(s, x, y) \/ Adjacent(t, x, y) \/ (Ends(s, x) /\ Starts(t, y))
  <2>1. PICK i \in 1..((m + n) - 1) : x = c[i] /\ y = c[i + 1]
    BY <1>3, <1>7 DEF Adjacent
  <2>2. CASE i < m
    <3>1. i \in 1..(m - 1) /\ i \in 1..m /\ i + 1 \in 1..m
      BY <2>2
    <3>2. QED
      BY <1>1, <1>3, <2>1, <3>1 DEF Adjacent
  <2>3. CASE i = m
    <3>1. m > 0 /\ n > 0 /\ m \in 1..m /\ 1 \in 1..n
      BY <2>3
    <3>2. x = s[m] /\ y = t[1]
      BY <1>3, <2>1, <2>3, <3>1
    <3>3. QED
      BY <1>1, <1>2, <3>1, <3>2 DEF Ends, Starts
  <2>4. CASE i > m
    <3>1. PICK k \in 1..(n - 1) : k = i - m
      BY <2>4
    <3>2. i \in 1..(m + n) /\ i + 1 \in 1..(m + n) /\ i + 1 > m /\ (i + 1) - m = k + 1
      BY <2>4, <3>1
    <3>3. x = t[k] /\ y = t[k + 1]
      BY <1>3, <2>1, <2>4, <3>1, <3>2
    <3>4. QED
      BY <1>2, <3>1, <3>3 DEF Adjacent
  <2>5. QED
    BY <2>2, <2>3, <2>4
<1>8. ASSUME NEW x PROVE Ends(c, x) => Ends(t, x) \/ (Empty(t) /\ Ends(s, x))
  <2>1. CASE n = 0
    <3>1. t = << >> /\ ~Ends(t, x)
      <4>1. Len(t) = 0
        BY <1>2, <2>1
      <4>2. QED
        BY <4>1, LenZero DEF Ends
    <3>2. c = s
      BY <3>1, ConcatEmptySeq
    <3>3. QED
      BY <3>1, <3>2 DEF Empty
  <2>2. CASE n > 0
    <3>1. n \in 1..n /\ t # << >> /\ m + n > 0
      BY <1>2, <2>2
    <3>2. c[m + n] = t[n]
      BY <1>3, <3>1
    <3>3. QED
      BY <1>2, <1>3, <2>2, <3>1, <3>2 DEF Ends
  <2>3. QED
    BY <2>1, <2>2
<1>9. ASSUME NEW x PROVE Starts(c, x) => Starts(s, x) \/ (Empty(s) /\ Starts(t, x))
  <2>1. CASE m = 0
    <3>1. s = << >> /\ ~Starts(s, x)
      <4>1. Len(s) = 0
        BY <1>1, <2>1
      <4>2. QED
        BY <4>1, LenZero DEF Starts
    <3>2. c = t
      BY <3>1, ConcatEmptySeq
    <3>3. QED
      BY <3>1, <3>2 DEF Empty
  <2>2. CASE m > 0
    <3>1. 1 \in 1..m /\ s # << >> /\ m + n > 0
      BY <1>1, <2>2
    <3>2. c[1] = s[1]
      BY <1>3, <3>1
    <3>3. QED
      BY <1>1, <1>3, <2>2, <3>1, <3>2 DEF Starts
  <2>3. QED
    BY <2>1, <2>2
<1>10. QED
  BY <1>4, <1>5, <1>6, <1>7, <1>8, <1>9 DEF Joined

LEMMA AdjacentNone == /\ \A x, y : ~Adjacent(<< >>, x, y)
                      /\ \A x : ~Ends(<< >>, x) /\ ~Starts(<< >>, x)
BY DEF Adjacent, Ends, Starts

LEMMA AdjacentOne ==
    ASSUME NEW u, NEW c, c = << u >>
    PROVE  /\ \A x, y : ~Adjacent(c, x, y)
           /\ \A x : (Ends(c, x) <=> x = u) /\ (Starts(c, x) <=> x = u)
<1>1. Len(c) = 1 /\ c[1] = u
  OBVIOUS
<1>2. QED
  BY <1>1 DEF Adjacent, Ends, Starts

LEMMA AdjacentTwo ==
    ASSUME NEW u, NEW w, NEW c, c = << u, w >>
    PROVE  /\ \A x, y : Adjacent(c, x, y) <=> x = u /\ y = w
           /\ \A x : (Ends(c, x) <=> x = w) /\ (Starts(c, x) <=> x = u)
<1>1. Len(c) = 2 /\ c[1] = u /\ c[2] = w
  OBVIOUS
<1>2. QED
  BY <1>1 DEF Adjacent, Ends, Starts

LEMMA AdjacentIn ==
    ASSUME NEW S, NEW c \in Seq(S)
    PROVE  /\ \A x, y : Adjacent(c, x, y) => x \in Elements(c) /\ y \in Elements(c)
           /\ \A x : Ends(c, x) \/ Starts(c, x) => x \in Elements(c)
<1>1. PICK n \in Nat : n = Len(c) /\ DOMAIN c = 1..n
  OBVIOUS
<1>2. \A i \in 1..(n - 1) : i \in 1..n /\ i + 1 \in 1..n
  OBVIOUS
<1>3. n > 0 => n \in 1..n /\ 1 \in 1..n
  OBVIOUS
<1>4. QED
  BY <1>1, <1>2, <1>3 DEF Adjacent, Ends, Starts, Elements

\* A return that is not the last instruction ends its function.
LEMMA ReturnsLastIs ==
    ASSUME NEW S, NEW c \in Seq(S)
    PROVE  ReturnsLast(c) <=> /\ \A x, y : Adjacent(c, x, y) /\ x.op = "Return" => y.op = "FunctionEnd"
                              /\ \A x : Ends(c, x) => x.op # "Return"
<1>1. PICK n \in Nat : n = Len(c) /\ DOMAIN c = 1..n
  OBVIOUS
<1>2. ASSUME ReturnsLast(c), NEW x, NEW y, Adjacent(c, x, y), x.op = "Return" PROVE y.op = "FunctionEnd"
  <2>1. PICK i \in 1..(n - 1) : x = c[i] /\ y = c[i + 1]
    BY <1>1, <1>2 DEF Adjacent
  <2>2. i \in 1..n
    OBVIOUS
  <2>3. QED
    BY <1>1, <1>2, <2>1, <2>2 DEF ReturnsLast
<1>3. ASSUME ReturnsLast(c), NEW x, Ends(c, x) PROVE x.op # "Return"
  <2>1. n > 0 /\ x = c[n] /\ n \in 1..n /\ ~(n < n)
    BY <1>1, <1>3 DEF Ends
  <2>2. QED
    BY <1>1, <1>3, <2>1 DEF ReturnsLast
<1>4. ASSUME \A x, y : Adjacent(c, x, y) /\ x.op = "Return" => y.op = "FunctionEnd",
             \A x : Ends(c, x) => x.op # "Return",
             NEW i \in 1..n, c[i].op = "Return"
      PROVE  i < n /\ c[i + 1].op = "FunctionEnd"
  <2>1. CASE i = n
    <3>1. Ends(c, c[i])
      BY <1>1, <2>1 DEF Ends
    <3>2. QED
      BY <1>4, <3>1
  <2>2. CASE i # n
    <3>1. i < n /\ i \in 1..(n - 1)
      BY <2>2
    <3>2. Adjacent(c, c[i], c[i + 1])
      BY <1>1, <3>1 DEF Adjacent
    <3>3. QED
      BY <1>4, <3>1, <3>2
  <2>3. QED
    BY <2>1, <2>2
<1>5. QED
  BY <1>1, <1>2, <1>3, <1>4 DEF ReturnsLast

\* Every block is closed by its last instruction.
Closed(c) ==
    \A x, y : Adjacent(c, x, y) =>
        (x.op \in Terminators <=> y.op \in {"Label", "FunctionEnd"} /\ x.op # "Function")

ClosedIfLast(c) == ReturnsLast(c) => Closed(c)

LEMMA ClosedConcat ==
    ASSUME NEW S, NEW s \in Seq(S), NEW t \in Seq(S), NEW c, c = s \o t, ClosedIfLast(s),
           \A x : Ends(s, x) => x.op \notin Terminators,
           \A y : Starts(t, y) => y.op \notin {"Label", "FunctionEnd"},
           ReturnsLast(c) => Closed(t)
    PROVE  ClosedIfLast(c)
<1>1. SUFFICES ASSUME ReturnsLast(c) PROVE Closed(c)
  BY DEF ClosedIfLast
<1>2. c \in Seq(S)
  BY ElementsConcat
<1>3. /\ \A x, y : Adjacent(s, x, y) => Adjacent(c, x, y)
      /\ \A x, y : Adjacent(c, x, y) => Adjacent(s, x, y) \/ Adjacent(t, x, y) \/ (Ends(s, x) /\ Starts(t, y))
  BY AdjacentConcat DEF Joined
<1>4. \A x, y : Adjacent(c, x, y) /\ x.op = "Return" => y.op = "FunctionEnd"
  BY <1>1, <1>2, ReturnsLastIs
<1>5. ReturnsLast(s)
  <2>1. \A x : Ends(s, x) => x.op # "Return"
    BY DEF Terminators
  <2>2. QED
    BY <1>3, <1>4, <2>1, ReturnsLastIs
<1>6. Closed(s) /\ Closed(t)
  BY <1>1, <1>5 DEF ClosedIfLast
<1>7. QED
  BY <1>3, <1>6 DEF Closed
------------------------------------------------------------------------------
(***************************************************************************)
(* The places of declarations and stores.                                  *)
(***************************************************************************)
VarAt(c, i) ==
    i > 2 /\ \/ c[i-1].op = "Variable"
             \/ c[i-1].op = "Label" /\ c[i-2].op = "Function"

StoreAt(c, i) ==
    \E j \in 1..(i-1) :
        /\ c[j].op = "Variable" /\ c[j].id = c[i].args[1]
        /\ \A k \in j..i : c[k].op # "Function"

DeclaredAt(c, i) ==
    /\ c[i].op = "Variable" => VarAt(c, i)
    /\ c[i].op = "Store" => StoreAt(c, i)

DeclaresAll(c) == \A i \in 1..Len(c) : DeclaredAt(c, i)

DeclaresFrom(c, m, n) == \A i \in 1..n : DeclaredAt(c, m + i)

LEMMA DeclaresConcat ==
    ASSUME NEW S, NEW s \in Seq(S), NEW t \in Seq(S), NEW m \in Nat, m = Len(s), NEW n \in Nat, n = Len(t),
           NEW c, c = s \o t, DeclaresAll(s), DeclaresFrom(c, m, n)
    PROVE  DeclaresAll(c)
<1>1. /\ Len(c) = m + n
      /\ \A i \in 1..m : c[i] = s[i]
  BY Concat
<1>2. ASSUME NEW i \in 1..m PROVE DeclaredAt(c, i)
  <2>1. DeclaredAt(s, i) /\ c[i] = s[i]
    BY <1>1 DEF DeclaresAll
  <2>2. ASSUME c[i].op = "Variable" PROVE VarAt(c, i)
    <3>1. VarAt(s, i)
      BY <2>1, <2>2 DEF DeclaredAt
    <3>2. i > 2 /\ i - 1 \in 1..m /\ i - 2 \in 1..m
      BY <3>1 DEF VarAt
    <3>3. QED
      BY <1>1, <3>1, <3>2 DEF VarAt
  <2>3. ASSUME c[i].op = "Store" PROVE StoreAt(c, i)
    <3>1. PICK j \in 1..(i-1) : /\ s[j].op = "Variable" /\ s[j].id = s[i].args[1]
                                /\ \A k \in j..i : s[k].op # "Function"
      BY <2>1, <2>3 DEF DeclaredAt, StoreAt
    <3>2. j \in 1..m /\ \A k \in j..i : k \in 1..m
      OBVIOUS
    <3>3. c[j] = s[j] /\ \A k \in j..i : c[k].op # "Function"
      BY <1>1, <3>1, <3>2
    <3>4. QED
      BY <2>1, <3>1, <3>3 DEF StoreAt
  <2>4. QED
    BY <2>2, <2>3 DEF DeclaredAt
<1>3. \A i \in 1..(m + n) : i \in 1..m \/ \E k \in 1..n : i = m + k
  <2>1. ASSUME NEW i \in 1..(m + n), i > m PROVE \E k \in 1..n : i = m + k
    <3>1. i - m \in 1..n /\ i = m + (i - m)
      BY <2>1
    <3>2. QED
      BY <3>1
  <2>2. \A i \in 1..(m + n) : i \in 1..m \/ i > m
    OBVIOUS
  <2>3. QED
    BY <2>1, <2>2
<1>4. \A i \in 1..(m + n) : DeclaredAt(c, i)
  BY <1>2, <1>3 DEF DeclaresFrom
<1>5. QED
  BY <1>1, <1>4 DEF DeclaresAll

LEMMA DeclaresPlain ==
    ASSUME NEW S, NEW s \in Seq(S), NEW t \in Seq(S), NEW c, c = s \o t, DeclaresAll(s),
           \A y \in Elements(t) : y.op \notin {"Variable", "Store"}
    PROVE  DeclaresAll(c)
<1>1. PICK m \in Nat : m = Len(s)
  BY LenOf
<1>2. PICK n \in Nat : n = Len(t)
  BY LenOf
<1>3. DOMAIN t = 1..n /\ \A i \in 1..n : c[m + i] = t[i]
  BY <1>1, <1>2, Concat
<1>4. DeclaresFrom(c, m, n)
  BY <1>3 DEF DeclaresFrom, DeclaredAt, Elements
<1>5. QED
  BY <1>1, <1>2, <1>4, DeclaresConcat

\* The function being compiled starts at p: its variables follow its label.
Opens(a, p) ==
    /\ p \in Nat \ {0} /\ p + 1 <= Len(a)
    /\ a[p].op = "Function" /\ a[p + 1].op = "Label"
    /\ \A j \in (p + 2)..Len(a) : a[j].op = "Variable"

\* The variable y stores into is one of them.
StoredIn(a, p, y) == \E j \in (p + 2)..Len(a) : a[j].id = y.args[1]

LEMMA OpensEnds ==
    ASSUME NEW S, NEW a \in Seq(S), NEW p, Opens(a, p), NEW x, Ends(a, x)
    PROVE  x.op \in {"Label", "Variable"}
<1>1. PICK m \in Nat : m = Len(a)
  BY LenOf
<1>2. p \in Nat \ {0} /\ p + 1 <= m /\ x = a[m]
  BY <1>1 DEF Opens, Ends
<1>3. m = p + 1 \/ m \in (p + 2)..m
  BY <1>2
<1>4. QED
  BY <1>1, <1>2, <1>3 DEF Opens

LEMMA OpensMore ==
    ASSUME NEW S, NEW a \in Seq(S), NEW d \in Seq(S), NEW p, Opens(a, p),
           \A y \in Elements(d) : y.op = "Variable", NEW c, c = a \o d
    PROVE  /\ Opens(c, p)
           /\ \A y : StoredIn(a, p, y) => StoredIn(c, p, y)
           /\ \A y : (\E z \in Elements(d) : z.id = y.args[1]) => StoredIn(c, p, y)
           /\ DeclaresAll(a) => DeclaresAll(c)
<1>1. PICK m \in Nat : m = Len(a)
  BY LenOf
<1>2. PICK n \in Nat : n = Len(d)
  BY LenOf
<1>3. /\ Len(c) = m + n /\ DOMAIN d = 1..n
      /\ \A i \in 1..m : c[i] = a[i]
      /\ \A i \in 1..n : c[m + i] = d[i]
      /\ \A i \in 1..(m + n) : i > m => i - m \in 1..n /\ c[i] = d[i - m]
  BY <1>1, <1>2, Concat
<1>4. /\ p \in Nat \ {0} /\ p + 1 <= m
      /\ a[p].op = "Function" /\ a[p + 1].op = "Label"
      /\ \A j \in (p + 2)..m : a[j].op = "Variable"
  BY <1>1 DEF Opens
<1>5. p \in 1..m /\ p + 1 \in 1..m /\ p + 1 <= m + n
  BY <1>4
<1>6. \A j \in 1..n : d[j].op = "Variable"
  BY <1>3 DEF Elements
<1>7. ASSUME NEW j \in (p + 2)..(m + n) PROVE c[j].op = "Variable"
  <2>1. CASE j <= m
    <3>1. j \in 1..m /\ j \in (p + 2)..m
      BY <1>4, <2>1
    <3>2. QED
      BY <1>3, <1>4, <3>1
  <2>2. CASE j > m
    <3>1. j \in 1..(m + n)
      BY <1>4, <2>2
    <3>2. QED
      BY <1>3, <1>6, <2>2, <3>1
  <2>3. j <= m \/ j > m
    <3>1. p \in Nat
      BY <1>4
    <3>2. QED
      BY <3>1
  <2>4. QED
    BY <2>1, <2>2, <2>3
<1>8. Opens(c, p)
  BY <1>3, <1>4, <1>5, <1>7 DEF Opens
<1>9. ASSUME NEW y, StoredIn(a, p, y) PROVE StoredIn(c, p, y)
  <2>1. PICK j \in (p + 2)..m : a[j].id = y.args[1]
    BY <1>1, <1>9 DEF StoredIn
  <2>2. j \in 1..m /\ j \in (p + 2)..(m + n)
    BY <1>4
  <2>3. QED
    BY <1>3, <2>1, <2>2 DEF StoredIn
<1>10. ASSUME NEW y, NEW z \in Elements(d), z.id = y.args[1] PROVE StoredIn(c, p, y)
  <2>1. PICK i \in 1..n : z = d[i]
    BY <1>3 DEF Elements
  <2>2. PICK j \in (p + 2)..(m + n) : j = m + i
    BY <1>4
  <2>3. c[j].id = y.args[1]
    BY <1>3, <1>10, <2>1, <2>2
  <2>4. QED
    BY <1>3, <2>3 DEF StoredIn
<1>11. ASSUME DeclaresAll(a) PROVE DeclaresAll(c)
  <2>1. ASSUME NEW i \in 1..n PROVE DeclaredAt(c, m + i)
    <3>1. c[m + i].op = "Variable"
      BY <1>3, <1>6
    <3>2. m + i > 2
      BY <1>4
    <3>3. CASE m + i = p + 2
      <4>1. (m + i) - 1 = p + 1 /\ (m + i) - 2 = p
        BY <1>4, <3>3
      <4>2. c[p + 1].op = "Label" /\ c[p].op = "Function"
        BY <1>8 DEF Opens
      <4>3. VarAt(c, m + i)
        BY <3>2, <4>1, <4>2 DEF VarAt
      <4>4. QED
        BY <3>1, <4>3 DEF DeclaredAt
    <3>4. CASE m + i # p + 2
      <4>1. (m + i) - 1 \in (p + 2)..(m + n)
        BY <1>4, <3>4
      <4>2. c[(m + i) - 1].op = "Variable"
        BY <1>7, <4>1
      <4>3. VarAt(c, m + i)
        BY <3>2, <4>2 DEF VarAt
      <4>4. QED
        BY <3>1, <4>3 DEF DeclaredAt
    <3>5. QED
      BY <3>3, <3>4
  <2>2. DeclaresFrom(c, m, n)
    BY <2>1 DEF DeclaresFrom
  <2>3. QED
    BY <1>1, <1>2, <1>11, <2>2, DeclaresConcat
<1>12. QED
  BY <1>8, <1>9, <1>10, <1>11

BodyOps == {"Op", "Load", "Store", "Branch", "Label", "Return"}

\* The code of a body comes after the variables it stores into.
LEMMA BodyDeclares ==
    ASSUME NEW S, NEW a \in Seq(S), NEW b \in Seq(S), NEW p, Opens(a, p), DeclaresAll(a), NEW c, c = a \o b,
           \A y \in Elements(b) : y.op \in BodyOps /\ (y.op = "Store" => StoredIn(a, p, y))
    PROVE  DeclaresAll(c)
<1>1. PICK m \in Nat : m = Len(a)
  BY LenOf
<1>2. PICK n \in Nat : n = Len(b)
  BY LenOf
<1>3. /\ Len(c) = m + n /\ DOMAIN b = 1..n
      /\ \A i \in 1..m : c[i] = a[i]
      /\ \A i \in 1..n : c[m + i] = b[i]
      /\ \A i \in 1..(m + n) : i > m => i - m \in 1..n /\ c[i] = b[i - m]
  BY <1>1, <1>2, Concat
<1>4. p \in Nat \ {0} /\ p + 1 <= m /\ \A j \in (p + 2)..m : a[j].op = "Variable"
  BY <1>1 DEF Opens
<1>5. \A i \in 1..n : b[i].op \in BodyOps /\ (b[i].op = "Store" => StoredIn(a, p, b[i]))
  BY <1>3 DEF Elements
<1>6. ASSUME NEW i \in 1..n PROVE DeclaredAt(c, m + i)
  <2>1. c[m + i] = b[i] /\ c[m + i].op # "Variable"
    BY <1>3, <1>5 DEF BodyOps
  <2>2. ASSUME b[i].op = "Store" PROVE StoreAt(c, m + i)
    <3>1. PICK j \in (p + 2)..m : a[j].id = b[i].args[1]
      BY <1>1, <1>5, <2>2 DEF StoredIn
    <3>2. j \in 1..m /\ j \in 1..((m + i) - 1)
      BY <1>4
    <3>3. c[j].op = "Variable" /\ c[j].id = c[m + i].args[1]
      BY <1>3, <1>4, <2>1, <3>1, <3>2
    <3>4. ASSUME NEW k \in j..(m + i) PROVE c[k].op # "Function"
      <4>1. CASE k <= m
        <5>1. k \in 1..m /\ k \in (p + 2)..m
          BY <1>4, <4>1
        <5>2. c[k].op = "Variable"
          BY <1>3, <1>4, <5>1
        <5>3. QED
          BY <5>2
      <4>2. CASE k > m
        <5>1. k \in 1..(m + n)
          BY <4>2
        <5>2. c[k].op \in BodyOps
          BY <1>3, <1>5, <4>2, <5>1
        <5>3. QED
          BY <5>2 DEF BodyOps
      <4>3. k <= m \/ k > m
        BY <3>2
      <4>4. QED
        BY <4>1, <4>2, <4>3
    <3>5. QED
      BY <3>2, <3>3, <3>4 DEF StoreAt
  <2>3. QED
    BY <2>1, <2>2 DEF DeclaredAt
<1>7. DeclaresFrom(c, m, n)
  BY <1>6 DEF DeclaresFrom
<1>8. QED
  BY <1>1, <1>2, <1>7, DeclaresConcat
------------------------------------------------------------------------------
(***************************************************************************)
(* The blocks of a body, and the code a function is made of.               *)
(***************************************************************************)
\* A body in which a branch is followed by a label, which ends the branch's
\* block; nothing else but a return comes before a label.
Linked(b) ==
    /\ \A x, y : Adjacent(b, x, y) /\ x.op # "Return" => (x.op = "Branch" <=> y.op = "Label")
    /\ \A y : Starts(b, y) => y.op # "Label"
    /\ \A x : Ends(b, x) => x.op # "Branch"

LEMMA LinkedConcat ==
    ASSUME NEW S, NEW s \in Seq(S), NEW t \in Seq(S), NEW c, c = s \o t, Linked(s), Linked(t)
    PROVE  Linked(c)
<1>1. /\ \A x, y : Adjacent(c, x, y) => Adjacent(s, x, y) \/ Adjacent(t, x, y) \/ (Ends(s, x) /\ Starts(t, y))
      /\ \A x : Ends(c, x) => Ends(t, x) \/ Ends(s, x)
      /\ \A x : Starts(c, x) => Starts(s, x) \/ Starts(t, x)
  BY AdjacentConcat DEF Joined
<1>2. QED
  BY <1>1 DEF Linked

LEMMA LinkedPlain ==
    ASSUME NEW S, NEW c \in Seq(S), \A y \in Elements(c) : y.op \notin {"Branch", "Label"}
    PROVE  Linked(c)
BY AdjacentIn DEF Linked

\* What a statement emits: d to the variables, e to the body.
Piece(d, e) ==
    /\ d \in Seq(Instruction) /\ e \in Seq(Instruction)
    /\ \A y \in Elements(d) : y.op = "Variable"
    /\ \A y \in Elements(e) : /\ y.op \in BodyOps
                              /\ y.op = "Store" => \E z \in Elements(d) : z.id = y.args[1]
    /\ Linked(e)

Settled(a) == DeclaresAll(a) /\ ClosedIfLast(a)

\* Section b is the body of the last function of section a; r says whether
\* it has a return.
Within(a, b, r) ==
    /\ \E p : Opens(a, p) /\ \A y \in Elements(b) : y.op = "Store" => StoredIn(a, p, y)
    /\ \A y \in Elements(b) : y.op \in BodyOps
    /\ Linked(b)
    /\ r <=> \E y \in Elements(b) : y.op = "Return"

Between(a, b) == b = << >> /\ \A x : Ends(a, x) => x.op = "FunctionEnd"

\* The code e leaves r2 of whether there was a return.
Returns(r, r2, e) == r2 <=> r \/ \E y \in Elements(e) : y.op = "Return"

LEMMA Continues ==
    ASSUME NEW a \in Seq(Instruction), NEW b \in Seq(Instruction), NEW r, Settled(a), Within(a, b, r),
           NEW d, NEW e, Piece(d, e), NEW r2, Returns(r, r2, e),
           NEW a2, a2 = a \o d, NEW b2, b2 = b \o e
    PROVE  Settled(a2) /\ Within(a2, b2, r2)
<1>1. /\ d \in Seq(Instruction) /\ e \in Seq(Instruction)
      /\ \A y \in Elements(d) : y.op = "Variable"
      /\ \A y \in Elements(e) : /\ y.op \in BodyOps
                                /\ y.op = "Store" => \E z \in Elements(d) : z.id = y.args[1]
      /\ Linked(e)
  BY DEF Piece
<1>2. PICK p : Opens(a, p) /\ \A y \in Elements(b) : y.op = "Store" => StoredIn(a, p, y)
  BY DEF Within
<1> HIDE DEF Instruction
<1>3. Elements(b2) = Elements(b) \cup Elements(e)
  BY <1>1, ElementsConcat
<1>4. /\ Opens(a2, p)
      /\ \A y : StoredIn(a, p, y) => StoredIn(a2, p, y)
      /\ \A y : (\E z \in Elements(d) : z.id = y.args[1]) => StoredIn(a2, p, y)
      /\ DeclaresAll(a2)
  <2>1. DeclaresAll(a)
    BY DEF Settled
  <2>2. QED
    BY <1>1, <1>2, <2>1, OpensMore
<1>5. ClosedIfLast(a2)
  <2>1. \A x : Ends(a, x) => x.op \notin Terminators
    BY <1>2, OpensEnds DEF Terminators
  <2>2. \A y : Starts(d, y) => y.op \notin {"Label", "FunctionEnd"}
    BY <1>1, AdjacentIn
  <2>3. Closed(d)
    BY <1>1, AdjacentIn DEF Closed, Terminators
  <2>4. QED
    BY <1>1, <2>1, <2>2, <2>3, ClosedConcat DEF Settled
<1>6. Linked(b2)
  BY <1>1, LinkedConcat DEF Within
<1>7. \A y \in Elements(b2) : y.op \in BodyOps /\ (y.op = "Store" => StoredIn(a2, p, y))
  BY <1>1, <1>2, <1>3, <1>4 DEF Within
<1>8. r2 <=> \E y \in Elements(b2) : y.op = "Return"
  BY <1>3 DEF Within, Returns
<1>9. QED
  BY <1>4, <1>5, <1>6, <1>7, <1>8 DEF Settled, Within

\* A kernel is entered.
LEMMA Begins ==
    ASSUME IInv, pc = "enter", Settled(fndef), Between(fndef, fnimpl), NEW a2, a2 = fndef \o Prologue
    PROVE  Settled(a2) /\ Within(a2, << >>, FALSE)
<1>1. PICK y, z : y = Instr("Function", EntpId(fn), << >>) /\ z = Instr("Label", nextId, << >>)
  OBVIOUS
<1>2. y.op = "Function" /\ z.op = "Label"
  BY <1>1 DEF Instr
<1>3. PICK d : d = Prologue
  OBVIOUS
<1>4. d = << y, z >> /\ d \in Seq(Instruction)
  BY <1>1, <1>3, PrologueIs DEF Prologue
<1>5. fndef \in Seq(Instruction)
  BY DEF IInv, Table, SectionsOK
<1> HIDE DEF Instruction
<1>6. /\ \A u, w : Adjacent(d, u, w) <=> u = y /\ w = z
      /\ \A w : Starts(d, w) <=> w = y
  BY <1>4, AdjacentTwo
<1>7. Len(d) = 2 /\ d[1] = y /\ d[2] = z
  BY <1>4
<1>8. \A w \in Elements(d) : w = y \/ w = z
  <2>1. DOMAIN d = {1, 2}
    BY <1>4
  <2>2. QED
    BY <1>7, <2>1 DEF Elements
<1>9. a2 = fndef \o d
  BY <1>3
<1>10. DeclaresAll(a2)
  <2>1. \A w \in Elements(d) : w.op \notin {"Variable", "Store"}
    BY <1>2, <1>8
  <2>2. QED
    BY <1>4, <1>5, <1>9, <2>1, DeclaresPlain DEF Settled
<1>11. ClosedIfLast(a2)
  <2>1. \A x : Ends(fndef, x) => x.op \notin Terminators
    BY DEF Between, Terminators
  <2>2. \A w : Starts(d, w) => w.op \notin {"Label", "FunctionEnd"}
    BY <1>2, <1>6
  <2>3. Closed(d)
    BY <1>2, <1>6 DEF Closed, Terminators
  <2>4. QED
    BY <1>4, <1>5, <1>9, <2>1, <2>2, <2>3, ClosedConcat DEF Settled
<1>12. PICK m \in Nat : m = Len(fndef)
  BY <1>5, LenOf
<1>13. Len(a2) = m + 2 /\ a2[m + 1] = y /\ a2[m + 2] = z
  <2>1. /\ Len(a2) = m + 2
        /\ \A i \in 1..2 : a2[m + i] = d[i]
    BY <1>4, <1>5, <1>7, <1>9, <1>12, Concat
  <2>2. QED
    BY <1>7, <2>1
<1>14. Opens(a2, m + 1)
  <2>1. (m + 1) + 1 = m + 2 /\ m + 1 \in Nat \ {0}
    OBVIOUS
  <2>2. \A j \in ((m + 1) + 2)..(m + 2) : FALSE
    OBVIOUS
  <2>3. QED
    BY <1>2, <1>13, <2>1, <2>2 DEF Opens
<1>15. Elements(<< >>) = {}
  BY DEF Elements
<1>16. Linked(<< >>)
  BY AdjacentNone DEF Linked
<1>17. QED
  BY <1>10, <1>11, <1>14, <1>15, <1>16 DEF Settled, Within

LEMMA EndsOrNot ==
    ASSUME NEW S, NEW c \in Seq(S), NEW x \in Elements(c)
    PROVE  Ends(c, x) \/ \E y : Adjacent(c, x, y)
<1>1. PICK n \in Nat : n = Len(c) /\ DOMAIN c = 1..n
  OBVIOUS
<1>2. PICK i \in 1..n : x = c[i]
  BY <1>1 DEF Elements
<1>3. CASE i = n
  <2>1. n > 0
    OBVIOUS
  <2>2. QED
    BY <1>1, <1>2, <1>3, <2>1 DEF Ends
<1>4. CASE i # n
  <2>1. i \in 1..(n - 1)
    BY <1>4
  <2>2. QED
    BY <1>1, <1>2, <2>1 DEF Adjacent
<1>5. QED
  BY <1>3, <1>4

\* The end of a function, with the return that the body may lack.
LEMMA EpilogueOrder ==
    ASSUME NEW d, d = Epilogue
    PROVE  /\ \A x, w : Adjacent(d, x, w) => x.op = "Return" /\ w.op = "FunctionEnd"
           /\ \A w : Starts(d, w) => w.op = IF hasRet THEN "FunctionEnd" ELSE "Return"
           /\ \A w : Ends(d, w) => w.op = "FunctionEnd"
           /\ d # << >>
           /\ \A w \in Elements(d) : w.op \notin {"Variable", "Store"}
<1>1. PICK y, z : y = Instr("Return", 0, << >>) /\ z = Instr("FunctionEnd", 0, << >>)
  OBVIOUS
<1>2. y.op = "Return" /\ z.op = "FunctionEnd"
  BY <1>1 DEF Instr
<1>3. CASE hasRet
  <2>1. d = << z >>
    <3>1. d = << >> \o << z >>
      BY <1>1, <1>3 DEF Epilogue
    <3>2. << z >> \in Seq({z})
      OBVIOUS
    <3>3. QED
      BY <3>1, <3>2, ConcatEmptySeq
  <2>2. /\ \A x, w : ~Adjacent(d, x, w)
        /\ \A x : (Ends(d, x) <=> x = z) /\ (Starts(d, x) <=> x = z)
    BY <2>1, AdjacentOne
  <2>3. d # << >> /\ \A w \in Elements(d) : w = z
    BY <2>1 DEF Elements
  <2>4. QED
    BY <1>2, <1>3, <2>2, <2>3
<1>4. CASE ~hasRet
  <2>1. d = << y >> \o << z >>
    BY <1>1, <1>4 DEF Epilogue
  <2>2. PICK s, t : s = << y >> /\ t = << z >>
    OBVIOUS
  <2>3. PICK S : s \in Seq(S) /\ t \in Seq(S)
    <3>1. s \in Seq({y, z}) /\ t \in Seq({y, z})
      BY <2>2
    <3>2. QED
      BY <3>1
  <2>12. d = s \o t
    BY <2>1, <2>2
  <2>13. ~Empty(s) /\ ~Empty(t)
    BY <2>2 DEF Empty
  <2>4. /\ \A x, w : ~Adjacent(s, x, w)
        /\ \A x : (Ends(s, x) <=> x = y) /\ (Starts(s, x) <=> x = y)
    BY <2>2, AdjacentOne
  <2>5. /\ \A x, w : ~Adjacent(t, x, w)
        /\ \A x : (Ends(t, x) <=> x = z) /\ (Starts(t, x) <=> x = z)
    BY <2>2, AdjacentOne
  <2>6. /\ \A x, w : Adjacent(d, x, w) => Adjacent(s, x, w) \/ Adjacent(t, x, w) \/ (Ends(s, x) /\ Starts(t, w))
        /\ \A x : Ends(d, x) => Ends(t, x) \/ (Empty(t) /\ Ends(s, x))
        /\ \A x : Starts(d, x) => Starts(s, x) \/ (Empty(s) /\ Starts(t, x))
    <3>1. Joined(s, t, d)
      BY <2>3, <2>12, AdjacentConcat
    <3>2. QED
      BY <3>1 DEF Joined
  <2>7. /\ \A x, w : Adjacent(d, x, w) => x = y /\ w = z
        /\ \A x : (Ends(d, x) => x = z) /\ (Starts(d, x) => x = y)
    BY <2>4, <2>5, <2>6, <2>13
  <2>8. Elements(s) = {y} /\ Elements(t) = {z}
    <3>1. DOMAIN s = {1} /\ s[1] = y /\ DOMAIN t = {1} /\ t[1] = z
      BY <2>2
    <3>2. QED
      BY <3>1 DEF Elements
  <2>9. Elements(d) = {y, z}
    BY <2>3, <2>8, <2>12, ElementsConcat
  <2>10. d # << >>
    BY <2>9 DEF Elements
  <2>11. QED
    BY <1>2, <1>4, <2>7, <2>9, <2>10
<1>5. QED
  BY <1>3, <1>4

\* A function is finished.
LEMMA Finishes ==
    ASSUME NEW a \in Seq(Instruction), NEW b \in Seq(Instruction), Settled(a), Within(a, b, hasRet),
           NEW d, d = Epilogue, NEW c, c = b \o d, NEW a2, a2 = a \o c
    PROVE  Settled(a2) /\ Between(a2, << >>)
<1>1. d \in Seq(Instruction)
  BY EpilogueIs
<1>2. PICK p : Opens(a, p) /\ \A y \in Elements(b) : y.op = "Store" => StoredIn(a, p, y)
  BY DEF Within
<1>3. /\ \A y \in Elements(b) : y.op \in BodyOps
      /\ Linked(b)
      /\ hasRet <=> \E y \in Elements(b) : y.op = "Return"
  BY DEF Within
<1> HIDE DEF Instruction
<1>4. /\ \A x, w : Adjacent(d, x, w) => x.op = "Return" /\ w.op = "FunctionEnd"
      /\ \A w : Starts(d, w) => w.op = IF hasRet THEN "FunctionEnd" ELSE "Return"
      /\ \A w : Ends(d, w) => w.op = "FunctionEnd"
      /\ d # << >>
      /\ \A w \in Elements(d) : w.op \notin {"Variable", "Store"}
  BY EpilogueOrder
<1>5. c \in Seq(Instruction)
  BY <1>1, ElementsConcat
<1>6. /\ \A x, w : Adjacent(b, x, w) => Adjacent(c, x, w)
      /\ \A x, w : Adjacent(c, x, w) => Adjacent(b, x, w) \/ Adjacent(d, x, w) \/ (Ends(b, x) /\ Starts(d, w))
      /\ \A x : Ends(c, x) => Ends(d, x) \/ (Empty(d) /\ Ends(b, x))
      /\ \A x : Starts(c, x) => Starts(b, x) \/ (Empty(b) /\ Starts(d, x))
  BY <1>1, AdjacentConcat DEF Joined
<1>7. /\ \A x, w : Adjacent(c, x, w) => Adjacent(a2, x, w)
      /\ \A x : Ends(a2, x) => Ends(c, x) \/ (Empty(c) /\ Ends(a, x))
  BY <1>5, AdjacentConcat DEF Joined
<1>8. /\ \A x, w : Adjacent(b, x, w) => x \in Elements(b) /\ w \in Elements(b)
      /\ \A x : Ends(b, x) \/ Starts(b, x) => x \in Elements(b)
  BY AdjacentIn
<1>9. DeclaresAll(a2)
  <2>1. PICK ab : ab = a \o b
    OBVIOUS
  <2>2. DeclaresAll(ab)
    BY <1>2, <1>3, <2>1, BodyDeclares DEF Settled
  <2>3. ab \in Seq(Instruction)
    BY <2>1, ElementsConcat
  <2>4. a2 = ab \o d
    BY <1>1, <2>1, ConcatAssociative
  <2>5. QED
    BY <1>1, <1>4, <2>2, <2>3, <2>4, DeclaresPlain
<1>10. \A x : Ends(a, x) => x.op \notin Terminators
  BY <1>2, OpensEnds DEF Terminators
<1>11. \A w : Starts(c, w) => w.op \notin {"Label", "FunctionEnd"}
  <2>1. ASSUME NEW w, Starts(b, w) PROVE w.op \notin {"Label", "FunctionEnd"}
    BY <1>3, <1>8, <2>1 DEF BodyOps, Linked
  <2>2. ASSUME NEW w, b = << >>, Starts(d, w) PROVE w.op = "Return"
    <3>1. Elements(b) = {}
      BY <2>2 DEF Elements
    <3>2. ~hasRet
      BY <1>3, <3>1
    <3>3. QED
      BY <1>4, <2>2, <3>2
  <2>3. QED
    BY <1>6, <2>1, <2>2 DEF Empty
<1>12. ASSUME ReturnsLast(a2) PROVE Closed(c)
  <2>1. a2 \in Seq(Instruction)
    BY <1>5, ElementsConcat
  <2>2. \A x, y : Adjacent(a2, x, y) /\ x.op = "Return" => y.op = "FunctionEnd"
    BY <1>12, <2>1, ReturnsLastIs
  <2>3. ASSUME NEW x, NEW w, Adjacent(b, x, w)
        PROVE  x.op # "Return"
    <3>1. Adjacent(a2, x, w) /\ w.op \in BodyOps
      BY <1>3, <1>6, <1>7, <1>8, <2>3
    <3>2. w.op # "FunctionEnd"
      BY <3>1 DEF BodyOps
    <3>3. QED
      BY <2>2, <3>1, <3>2
  <2>4. ASSUME NEW x, NEW w, Adjacent(b, x, w)
        PROVE  x.op \in Terminators <=> w.op \in {"Label", "FunctionEnd"} /\ x.op # "Function"
    <3>1. x.op \in BodyOps /\ w.op \in BodyOps /\ x.op # "Return" /\ (x.op = "Branch" <=> w.op = "Label")
      BY <1>3, <1>8, <2>3, <2>4 DEF Linked
    <3>2. QED
      BY <3>1 DEF BodyOps, Terminators
  <2>5. ASSUME NEW x, NEW w, Adjacent(d, x, w)
        PROVE  x.op \in Terminators <=> w.op \in {"Label", "FunctionEnd"} /\ x.op # "Function"
    BY <1>4, <2>5 DEF Terminators
  <2>6. ASSUME NEW x, NEW w, Ends(b, x), Starts(d, w)
        PROVE  x.op \in Terminators <=> w.op \in {"Label", "FunctionEnd"} /\ x.op # "Function"
    <3>1. x \in Elements(b) /\ x.op \in BodyOps /\ x.op # "Branch"
      BY <1>3, <1>8, <2>6 DEF Linked
    <3>2. x.op # "Function"
      BY <3>1 DEF BodyOps
    <3>3. CASE hasRet
      <4>1. w.op = "FunctionEnd"
        BY <1>4, <2>6, <3>3
      <4>2. PICK u \in Elements(b) : u.op = "Return"
        BY <1>3, <3>3
      <4>3. Ends(b, u)
        BY <2>3, <4>2, EndsOrNot
      <4>4. x = u
        BY <2>6, <4>3 DEF Ends
      <4>5. QED
        BY <3>2, <4>1, <4>2, <4>4 DEF Terminators
    <3>4. CASE ~hasRet
      <4>1. w.op = "Return"
        BY <1>4, <2>6, <3>4
      <4>2. x.op # "Return"
        BY <1>3, <3>1, <3>4
      <4>3. QED
        BY <3>1, <4>1, <4>2 DEF Terminators
    <3>5. QED
      BY <3>3, <3>4
  <2>7. QED
    BY <1>6, <2>4, <2>5, <2>6 DEF Closed
<1>13. ClosedIfLast(a2)
  BY <1>5, <1>10, <1>11, <1>12, ClosedConcat DEF Settled
<1>14. Between(a2, << >>)
  <2>1. c # << >>
    <3>1. PICK w \in Elements(d) : TRUE
      <4>1. Len(d) \in Nat \ {0}
        BY <1>1, <1>4, EmptySeq
      <4>2. 1 \in DOMAIN d
        BY <1>1, <4>1
      <4>3. QED
        BY <4>2 DEF Elements
    <3>2. Elements(c) = Elements(b) \cup Elements(d)
      BY <1>1, ElementsConcat
    <3>3. Elements(<< >>) = {}
      BY DEF Elements
    <3>4. QED
      BY <3>1, <3>2, <3>3
  <2>2. QED
    BY <1>4, <1>6, <1>7, <2>1 DEF Between, Empty
<1>15. QED
  BY <1>9, <1>13, <1>14 DEF Settled
------------------------------------------------------------------------------
(***************************************************************************)
(* The labels of the table and the branches to them.                       *)
(***************************************************************************)
\* Section b branches to labels of function f that are in the table s; of
\* those that were visited, v, it has the label.
TargetsAt(f, s, b, v, w) ==
    /\ \A y \in Elements(b) : y.op = "Branch" =>
          \E i \in 1..Len(s) : IsLabel(f, s, i) /\ s[i].key \in v \cup w /\ y.args = << s[i].id >>
    /\ \A i \in 1..Len(s) : IsLabel(f, s, i) /\ s[i].key \in v =>
          \E y \in Elements(b) : y.op = "Label" /\ y.id = s[i].id
    /\ \A c \in v : c.kind = "label" => \E i \in 1..Len(s) : IsLabel(f, s, i) /\ s[i].key = c

SameLabel(s, u, j) == u[j].key = s[j].key /\ u[j].id = s[j].id

\* No label of s moves or changes its id, and only slot i can become one.
LabelsStay(f, s, u, c, i) ==
    /\ \A j \in 1..Len(s) : IsLabel(f, s, j) => j \in 1..Len(u) /\ SameLabel(s, u, j)
    /\ \A j \in 1..Len(u) : IsLabel(f, u, j) => \/ j \in 1..Len(s) /\ SameLabel(s, u, j)
                                                \/ c.kind = "label" /\ j = i

Keeps(m, c, a) == ~m.new /\ c.kind = "label" => a = m.slots[m.idx].id

InWindow(f, s, n) == \A j \in 1..Len(s) : IsLabel(f, s, j) => j <= n

\* Slot i of u is that of cursor c and has the id a; the other labels of s stay.
LookedAt(f, s, u, c, i, a) ==
    /\ LabelsStay(f, s, u, c, i)
    /\ i \in 1..Len(u) /\ u[i].key = c /\ u[i].id = a

LEMMA LabelsLooked ==
    ASSUME NEW s \in Seq(Slot), NEW n \in Nat, NEW f, InWindow(f, s, n), NEW T, NEW s0, Tells(s, s0, T),
           NEW c \in CursorT, NEW m, m = MkIn(s0, n, c), NEW u, NEW a, Put(u, m.slots, m.idx, a), Keeps(m, c, a)
    PROVE  LookedAt(f, s, u, c, m.idx, a)
<1>1. s0 \in Seq(Slot)
  BY DEF Tells
<1>2. PICK t, k, i : t = m.slots /\ k = m.num /\ i = m.idx
  OBVIOUS
<1>3. t \in Seq(Slot) /\ k \in Nat /\ n <= k /\ i \in 1..Len(t)
  BY <1>1, <1>2, MkInOK
<1>4. PICK p \in Nat : p = Len(t) /\ p = Len(u)
  BY <1>2, <1>3 DEF Put
<1>5. /\ \A j \in 1..p : j # i => u[j] = t[j]
      /\ u[i].key = t[i].key /\ u[i].id = a
  BY <1>2, <1>4 DEF Put
<1>6. PICK q \in Nat : q = Len(s) /\ q = Len(s0)
  BY DEF Tells
<1>7. \A j \in 1..q : s0[j].key = s[j].key /\ s0[j].id = s[j].id
  BY <1>6 DEF Tells
<1>8. \A j \in 1..q : IsLabel(f, s, j) => j <= n
  BY <1>6 DEF InWindow
<1>9. \/ m.new /\ Added(s0, n, t, k, c, i)
      \/ ~m.new /\ Found(s0, n, t, k, c, i)
  BY <1>1, <1>2, MkInIs
<1>10. CASE Added(s0, n, t, k, c, i)
  <2>1. /\ i = n + 1 /\ q <= p /\ t[i].key = c
        /\ \A j \in 1..p : j # i => t[j] = IF j <= q THEN s0[j] ELSE EmptySlot
    BY <1>4, <1>6, <1>10 DEF Added
  <2>2. ASSUME NEW j \in 1..q, IsLabel(f, s, j)
        PROVE  j \in 1..p /\ SameLabel(s, u, j)
    <3>1. j # i /\ j \in 1..p /\ j <= q
      BY <1>8, <2>1, <2>2
    <3>2. u[j] = s0[j]
      BY <1>5, <2>1, <3>1
    <3>3. QED
      BY <1>7, <3>1, <3>2 DEF SameLabel
  <2>3. ASSUME NEW j \in 1..p, IsLabel(f, u, j)
        PROVE  (j \in 1..q /\ SameLabel(s, u, j)) \/ (c.kind = "label" /\ j = i)
    <3>1. CASE j = i
      BY <1>5, <2>1, <2>3, <3>1 DEF IsLabel
    <3>2. CASE j # i /\ j <= q
      <4>1. u[j] = s0[j] /\ j \in 1..q
        BY <1>5, <2>1, <3>2
      <4>2. QED
        BY <1>7, <4>1 DEF SameLabel
    <3>3. CASE j # i /\ ~(j <= q)
      <4>1. u[j] = EmptySlot
        BY <1>5, <2>1, <3>3
      <4>2. QED
        BY <2>3, <4>1, SlotIs DEF IsLabel
    <3>4. QED
      BY <3>1, <3>2, <3>3
  <2>4. LabelsStay(f, s, u, c, i)
    BY <1>4, <1>6, <2>2, <2>3 DEF LabelsStay
  <2>5. QED
    BY <1>2, <1>3, <1>4, <1>5, <2>1, <2>4 DEF LookedAt
<1>11. CASE ~m.new /\ Found(s0, n, t, k, c, i)
  <2>1. t = s0 /\ i \in 1..q /\ s0[i].key = c /\ p = q
    BY <1>3, <1>4, <1>6, <1>11 DEF Found
  <2>2. u[i].key = c /\ u[i].id = a
    BY <1>5, <2>1
  <2>3. ASSUME NEW j \in 1..q, j # i
        PROVE  SameLabel(s, u, j)
    <3>1. u[j] = s0[j]
      BY <1>5, <2>1, <2>3
    <3>2. QED
      BY <1>7, <3>1 DEF SameLabel
  <2>4. c.kind = "label" => SameLabel(s, u, i)
    <3>1. c.kind = "label" => a = s0[i].id
      BY <1>2, <1>11, <2>1 DEF Keeps
    <3>2. QED
      BY <1>7, <2>1, <2>2, <3>1 DEF SameLabel
  <2>5. IsLabel(f, s, i) => c.kind = "label"
    BY <1>7, <2>1 DEF IsLabel
  <2>6. IsLabel(f, u, i) => c.kind = "label"
    BY <2>2 DEF IsLabel
  <2>7. LabelsStay(f, s, u, c, i)
    BY <1>4, <1>6, <2>1, <2>3, <2>4, <2>5, <2>6 DEF LabelsStay
  <2>8. QED
    BY <1>2, <1>3, <1>4, <2>2, <2>7 DEF LookedAt
<1>12. QED
  BY <1>9, <1>10, <1>11

\* What the code e that a statement adds to the body says of slot i, the one
\* it gave to cursor c.
BranchesTo(f, u, e, i, z) ==
    \A y \in Elements(e) : y.op = "Branch" =>
        i \in 1..Len(u) /\ IsLabel(f, u, i) /\ u[i].key \in z /\ y.args = << u[i].id >>

Labelled(f, u, e, c, i) ==
    /\ i \in 1..Len(u) /\ IsLabel(f, u, i) /\ u[i].key = c
    /\ \E y \in Elements(e) : y.op = "Label" /\ y.id = u[i].id

OneSlot(f, u, c, i) ==
    /\ i \in 1..Len(u) => u[i].key = c
    /\ \A j \in 1..Len(u) : IsLabel(f, u, j) /\ u[j].key = c => j = i

NewlySeen(c, v, v2) == c.kind = "label" /\ c \in v2 /\ c \notin v

LEMMA TargetsMove ==
    ASSUME NEW f, NEW s, NEW b \in Seq(Instruction), NEW v, NEW w, TargetsAt(f, s, b, v, w),
           NEW u, NEW c, NEW i, LabelsStay(f, s, u, c, i), OneSlot(f, u, c, i),
           NEW e \in Seq(Instruction), NEW b2, b2 = b \o e,
           NEW v2, v \subseteq v2, v2 \subseteq v \cup {c}, NEW w2, w \subseteq w2,
           BranchesTo(f, u, e, i, v2 \cup w2), NewlySeen(c, v, v2) => Labelled(f, u, e, c, i)
    PROVE  TargetsAt(f, u, b2, v2, w2)
<1>1. Elements(b2) = Elements(b) \cup Elements(e)
  BY ElementsConcat
<1>2. ASSUME NEW j \in 1..Len(s), IsLabel(f, s, j)
      PROVE  j \in 1..Len(u) /\ IsLabel(f, u, j) /\ u[j].key = s[j].key /\ u[j].id = s[j].id
  BY <1>2 DEF LabelsStay, SameLabel, IsLabel
<1>3. ASSUME NEW y \in Elements(b2), y.op = "Branch"
      PROVE  \E j \in 1..Len(u) : IsLabel(f, u, j) /\ u[j].key \in v2 \cup w2 /\ y.args = << u[j].id >>
  <2>1. CASE y \in Elements(b)
    <3>1. PICK j \in 1..Len(s) : IsLabel(f, s, j) /\ s[j].key \in v \cup w /\ y.args = << s[j].id >>
      BY <1>3, <2>1 DEF TargetsAt
    <3>2. QED
      BY <1>2, <3>1
  <2>2. CASE y \in Elements(e)
    BY <1>3, <2>2 DEF BranchesTo
  <2>3. QED
    BY <1>1, <2>1, <2>2
<1>4. ASSUME NEW j \in 1..Len(s), IsLabel(f, s, j), s[j].key \in v
      PROVE  \E y \in Elements(b2) : y.op = "Label" /\ y.id = s[j].id
  BY <1>1, <1>4 DEF TargetsAt
<1>5. ASSUME NEW j \in 1..Len(u), IsLabel(f, u, j), u[j].key \in v2
      PROVE  \E y \in Elements(b2) : y.op = "Label" /\ y.id = u[j].id
  <2>1. CASE NewlySeen(c, v, v2) /\ u[j].key = c
    <3>1. j = i
      BY <1>5, <2>1 DEF OneSlot
    <3>2. QED
      BY <1>1, <2>1, <3>1 DEF Labelled
  <2>2. CASE u[j].key \in v /\ u[j].key = c
    <3>1. c.kind = "label"
      BY <1>5, <2>2 DEF IsLabel
    <3>2. PICK g \in 1..Len(s) : IsLabel(f, s, g) /\ s[g].key = c
      BY <2>2, <3>1 DEF TargetsAt
    <3>3. g \in 1..Len(u) /\ IsLabel(f, u, g) /\ u[g].key = c /\ u[g].id = s[g].id
      BY <1>2, <3>2
    <3>4. g = i /\ j = i
      BY <1>5, <2>2, <3>3 DEF OneSlot
    <3>5. QED
      BY <1>4, <2>2, <3>2, <3>3, <3>4
  <2>3. CASE u[j].key \in v /\ u[j].key # c
    <3>1. j # i
      BY <1>5, <2>3 DEF OneSlot
    <3>2. j \in 1..Len(s) /\ u[j].key = s[j].key /\ u[j].id = s[j].id
      BY <1>5, <3>1 DEF LabelsStay, SameLabel
    <3>3. IsLabel(f, s, j)
      BY <1>5, <3>2 DEF IsLabel
    <3>4. QED
      BY <1>4, <2>3, <3>2, <3>3
  <2>4. QED
    BY <1>5, <2>1, <2>2, <2>3 DEF NewlySeen, IsLabel
<1>6. ASSUME NEW x \in v2, x.kind = "label"
      PROVE  \E j \in 1..Len(u) : IsLabel(f, u, j) /\ u[j].key = x
  <2>1. CASE x \in v
    <3>1. PICK j \in 1..Len(s) : IsLabel(f, s, j) /\ s[j].key = x
      BY <1>6, <2>1 DEF TargetsAt
    <3>2. QED
      BY <1>2, <3>1
  <2>2. CASE x \notin v
    BY <1>6, <2>2 DEF NewlySeen, Labelled
  <2>3. QED
    BY <2>1, <2>2
<1>7. QED
  BY <1>3, <1>5, <1>6 DEF TargetsAt
------------------------------------------------------------------------------
(***************************************************************************)
(* The order of the code and the targets of its branches, as an invariant  *)
(* that rests on the one of the table.                                     *)
(***************************************************************************)
Layout ==
    Whole => /\ Settled(fndef)
             /\ pc = "body" => Within(fndef, fnimpl, hasRet)
             /\ pc # "body" => Between(fndef, fnimpl)

Meets == pc = "body" /\ ~lost => TargetsAt(fn, slots, fnimpl, seen, jumps)

Order == Layout /\ Meets

LEMMA GivenUp ==
    ASSUME lost'
    PROVE  Order'
BY DEF Order, Layout, Meets, Whole

LEMMA LayoutStep ==
    ASSUME IInv, Layout, pc = "body", pc' = "body", Later(lost, lost'), NEW d, NEW e, Piece(d, e),
           fndef' = fndef \o d, fnimpl' = fnimpl \o e, Returns(hasRet, hasRet', e)
    PROVE  Layout'
<1>1. SUFFICES ASSUME Whole' PROVE Settled(fndef') /\ Within(fndef', fnimpl', hasRet')
  BY DEF Layout
<1>2. Whole
  BY <1>1 DEF Whole, Later, IInv, Scope
<1>3. Settled(fndef) /\ Within(fndef, fnimpl, hasRet)
  BY <1>2 DEF Layout
<1>4. fndef \in Seq(Instruction) /\ fnimpl \in Seq(Instruction)
  BY DEF IInv, Table, SectionsOK
<1>5. PICK a2, b2, r2 : a2 = fndef' /\ b2 = fnimpl' /\ r2 = hasRet'
  OBVIOUS
<1>6. Returns(hasRet, r2, e)
  BY <1>5
<1>7. Settled(a2) /\ Within(a2, b2, r2)
  BY <1>3, <1>4, <1>5, <1>6, Continues
<1>8. QED
  BY <1>5, <1>7

\* Slot i is the one of cursor c.
Holds(u, c, i) ==
    /\ i \in 1..Len(u) => u[i].key = c
    /\ c.kind = "label" => i \in 1..Len(u)

LEMMA MeetsStep ==
    ASSUME IInv, Meets, IInv', pc = "body", pc' = "body", fn' = fn, Later(lost, lost'), NEW e \in Seq(Instruction),
           fnimpl' = fnimpl \o e, NEW c, NEW i, LabelsStay(fn, slots, slots', c, i), Holds(slots', c, i),
           seen \subseteq seen', seen' \subseteq seen \cup {c}, jumps \subseteq jumps',
           BranchesTo(fn, slots', e, i, seen' \cup jumps'),
           NewlySeen(c, seen, seen') => Labelled(fn, slots', e, c, i)
    PROVE  Meets'
<1>1. SUFFICES ASSUME ~lost' PROVE TargetsAt(fn', slots', fnimpl', seen', jumps')
  BY DEF Meets
<1>2. ~lost
  BY <1>1 DEF Later
<1>3. TargetsAt(fn, slots, fnimpl, seen, jumps)
  BY <1>2 DEF Meets
<1>4. fnimpl \in Seq(Instruction)
  BY DEF IInv, Table, SectionsOK
<1>5. PICK u, b2, v2, w2 : u = slots' /\ b2 = fnimpl' /\ v2 = seen' /\ w2 = jumps'
  OBVIOUS
<1>6. fn # 0 /\ \A j, g \in 1..Len(u) : u[j].key.fn = fn /\ u[j].key = u[g].key => j = g
  <2>1. KeysAt(fn', pc' = "enter", slots', num') /\ fn' # 0
    BY DEF IInv, Table, TableOK, Scope
  <2>2. QED
    BY <1>5, <2>1 DEF KeysAt
<1>7. OneSlot(fn, u, c, i)
  <2>1. i \in 1..Len(u) => u[i].key = c
    BY <1>5 DEF Holds
  <2>2. ASSUME NEW j \in 1..Len(u), IsLabel(fn, u, j), u[j].key = c PROVE j = i
    <3>1. i \in 1..Len(u)
      BY <1>5, <2>2 DEF Holds, IsLabel
    <3>2. QED
      BY <1>6, <2>1, <2>2, <3>1 DEF IsLabel
  <2>3. QED
    BY <2>1, <2>2 DEF OneSlot
<1>8. /\ LabelsStay(fn, slots, u, c, i) /\ b2 = fnimpl \o e /\ seen \subseteq v2 /\ v2 \subseteq seen \cup {c}
      /\ jumps \subseteq w2 /\ BranchesTo(fn, u, e, i, v2 \cup w2)
  BY <1>5
<1>9. NewlySeen(c, seen, v2) => Labelled(fn, u, e, c, i)
  BY <1>5
<1>10. TargetsAt(fn, u, b2, v2, w2)
  BY <1>3, <1>4, <1>7, <1>8, <1>9, TargetsMove
<1>11. QED
  BY <1>5, <1>10

\* A statement that neither branches nor stores, and looks up no label.
LEMMA PlainStep ==
    ASSUME IInv, Order, IInv', pc = "body", Completes, Later(lost, lost'), NEW e \in Seq(Instruction),
           \A y \in Elements(e) : y.op \in {"Op", "Load", "Return"},
           fndef' = fndef, fnimpl' = fnimpl \o e, Returns(hasRet, hasRet', e),
           NEW c, c.kind # "label", NEW i, LabelsStay(fn, slots, slots', c, i), Holds(slots', c, i),
           seen \subseteq seen', seen' \subseteq seen \cup {c}, jumps' = jumps
    PROVE  Order'
<1>1. pc' = "body" /\ fn' = fn
  BY DEF Completes
<1>2. << >> \in Seq(Instruction) /\ Elements(<< >>) = {}
  BY NoneEmitted
<1>3. Piece(<< >>, e)
  <2>1. Linked(e)
    BY LinkedPlain
  <2>2. \A y \in Elements(e) : y.op \in BodyOps /\ y.op # "Store"
    BY DEF BodyOps
  <2>3. QED
    BY <1>2, <2>1, <2>2 DEF Piece
<1>4. fndef' = fndef \o << >>
  <2>1. fndef \in Seq(Instruction)
    BY DEF IInv, Table, SectionsOK
  <2>2. QED
    BY <2>1, ConcatEmptySeq
<1>5. Layout'
  BY <1>1, <1>3, <1>4, LayoutStep DEF Order
<1>6. BranchesTo(fn, slots', e, i, seen' \cup jumps') /\ ~NewlySeen(c, seen, seen')
  BY DEF BranchesTo, NewlySeen
<1>7. Meets'
  BY <1>1, <1>6, MeetsStep DEF Order
<1>8. QED
  BY <1>5, <1>7 DEF Order

\* The table stays as it is.
LEMMA LabelsSame ==
    ASSUME NEW f, NEW s
    PROVE  NoCursor.kind # "label" /\ LabelsStay(f, s, s, NoCursor, 0) /\ Holds(s, NoCursor, 0)
BY DEF NoCursor, Cursor, LabelsStay, SameLabel, Holds

LEMMA ReturnStmtOrder ==
    ASSUME IInv, Order, IInv', ReturnStmt
    PROVE  Order'
<1>1. pc = "body"
  BY DEF ReturnStmt, Visits
<1>2. PICK y : y = Instr("Return", 0, << >>)
  OBVIOUS
<1>3. y \in Instruction /\ y.op = "Return"
  <2>1. "Return" \in Ops /\ 0 \in Nat
    BY DEF Ops
  <2>2. InstrIs(y, "Return", 0, << >>)
    BY <1>2, <2>1, PlainInstr
  <2>3. QED
    BY <2>2 DEF InstrIs
<1>4. PICK e : e = << y >>
  OBVIOUS
<1>5. e \in Seq(Instruction) /\ Elements(e) = {y}
  BY <1>3, <1>4, OneEmitted
<1>6. fnimpl' = fnimpl \o e
  <2>1. fnimpl \in Seq(Instruction)
    BY DEF IInv, Table, SectionsOK
  <2>2. QED
    BY <1>2, <1>3, <1>4, <2>1, AppendIsConcat DEF ReturnStmt
<1>7. /\ slots' = slots /\ fndef' = fndef /\ seen' = seen /\ jumps' = jumps /\ Later(lost, lost') /\ Completes
      /\ hasRet' = TRUE
  BY DEF ReturnStmt, table, Later
<1>8. Returns(hasRet, hasRet', e)
  BY <1>3, <1>5, <1>7 DEF Returns
<1>9. \A x \in Elements(e) : x.op \in {"Op", "Load", "Return"}
  BY <1>3, <1>5
<1>10. PICK c : c.kind # "label" /\ LabelsStay(fn, slots, slots', c, 0) /\ Holds(slots', c, 0)
  BY <1>7, LabelsSame
<1>11. QED
  BY <1>1, <1>5, <1>6, <1>7, <1>8, <1>9, <1>10, PlainStep

LEMMA OtherStmtOrder ==
    ASSUME IInv, Order, IInv', OtherStmt
    PROVE  Order'
<1>1. pc = "body" /\ lost' \in {lost, TRUE}
  BY DEF OtherStmt, Visits
<1>2. CASE lost' = TRUE
  BY <1>2, GivenUp
<1>3. CASE lost' = lost
  <2>1. << >> \in Seq(Instruction) /\ Elements(<< >>) = {}
    BY NoneEmitted
  <2>2. fnimpl' = fnimpl \o << >>
    <3>1. fnimpl \in Seq(Instruction)
      BY DEF IInv, Table, SectionsOK
    <3>2. QED
      BY <3>1, ConcatEmptySeq DEF OtherStmt
  <2>3. /\ slots' = slots /\ fndef' = fndef /\ seen' = seen /\ jumps' = jumps /\ Later(lost, lost') /\ Completes
        /\ hasRet' = hasRet
    BY <1>3 DEF OtherStmt, table, Later
  <2>4. Returns(hasRet, hasRet', << >>)
    BY <2>1, <2>3 DEF Returns, IInv, Small
  <2>5. \A x \in Elements(<< >>) : x.op \in {"Op", "Load", "Return"}
    BY <2>1
  <2>6. PICK c : c.kind # "label" /\ LabelsStay(fn, slots, slots', c, 0) /\ Holds(slots', c, 0)
    BY <2>3, LabelsSame
  <2>7. QED
    BY <1>1, <2>1, <2>2, <2>3, <2>4, <2>5, <2>6, PlainStep
<1>4. QED
  BY <1>1, <1>2, <1>3

\* A cursor of the kernel was looked up and its slot received the id a.
LEMMA LookedUp ==
    ASSUME IInv, pc = "body", NEW kind \in Kind, NEW b \in Names, NEW T, NEW s0, Tells(slots, s0, T),
           NEW c, c = Cursor(fn, kind, b), NEW m, m = MkIn(s0, num, c), NEW a, Wrote(slots', m.slots, m.idx, a),
           Keeps(m, c, a)
    PROVE  /\ LabelsStay(fn, slots, slots', c, m.idx) /\ Holds(slots', c, m.idx)
           /\ m.idx \in 1..Len(slots') /\ slots'[m.idx].key = c /\ slots'[m.idx].id = a
           /\ c.fn = fn /\ c.kind = kind
<1>1. c \in CursorT /\ c.fn = fn /\ c.kind = kind
  BY Looked
<1>2. slots \in Seq(Slot) /\ num \in Nat
  BY DEF IInv, Table
<1>3. InWindow(fn, slots, num)
  <2>1. KeysAt(fn, pc = "enter", slots, num) /\ fn # 0
    BY DEF IInv, Table, TableOK, Scope
  <2>2. QED
    BY <2>1 DEF KeysAt, InWindow, IsLabel
<1>4. PICK u : u = slots'
  OBVIOUS
<1>5. Put(u, m.slots, m.idx, a)
  BY <1>4 DEF Wrote
<1>6. LookedAt(fn, slots, u, c, m.idx, a)
  BY <1>1, <1>2, <1>3, <1>5, LabelsLooked
<1>7. QED
  BY <1>1, <1>4, <1>6 DEF Holds, LookedAt

\* A cursor other than a label's was looked up, and an expression compiled.
LEMMA CompiledOrder ==
    ASSUME IInv, Order, IInv', pc = "body", NEW s \in Seq(Slot), NEW n, NEW q \in CursorT, NEW r \in Nat,
           Translates(s, n, q, r) \/ GivesUp(s, n, q, r),
           fndef' = fndef, hasRet' = hasRet, jumps' = jumps,
           NEW c, c.kind # "label", NEW i, LabelsStay(fn, slots, slots', c, i), Holds(slots', c, i),
           seen' = seen \cup {c}
    PROVE  Order'
<1>1. CASE GivesUp(s, n, q, r)
  BY <1>1, GivenUp, GivesUpIs
<1>2. CASE Translates(s, n, q, r)
  <2>1. PICK e : Belongs(e, q, r, nextId') /\ fnimpl' = fnimpl \o e
    BY <1>2, TranslatesIs
  <2>2. Completes /\ lost' = lost
    BY <1>2, TranslatesIs
  <2>3. e \in Seq(Instruction) /\ \A y \in Elements(e) : y.op \in {"Op", "Load", "Return"} /\ y.op # "Return"
    BY <2>1 DEF Belongs
  <2>4. Returns(hasRet, hasRet', e)
    BY <2>3 DEF Returns, IInv, Small
  <2>5. Later(lost, lost') /\ seen \subseteq seen' /\ seen' \subseteq seen \cup {c}
    BY <2>2 DEF Later
  <2>6. QED
    BY <2>1, <2>2, <2>3, <2>4, <2>5, PlainStep
<1>3. QED
  BY <1>1, <1>2

LEMMA VarDeclOrder ==
    ASSUME IInv, Order, IInv', NEW b \in Names, NEW number \in BOOLEAN, NEW init \in BOOLEAN, VarDecl(b, number, init)
    PROVE  Order'
<1>1. PICK c : c = Cursor(fn, "var", b)
  OBVIOUS
<1>2. PICK m : m = MkIn(slots, num, c)
  OBVIOUS
<1>3. PICK r : r = nextId + 1
  OBVIOUS
<1>4. /\ slots' = [m.slots EXCEPT ![m.idx].id = nextId,
                                  ![m.idx].number = number,
                                  ![m.idx].init = IF init THEN nextId + 1 ELSE @]
      /\ seen' = seen \cup {c}
      /\ UNCHANGED << fndef, hasRet, jumps >>
  BY <1>1, <1>2, SMTT(30) DEF VarDecl, Mk
<1>5. \/ Completes /\ lost' = lost /\ fnimpl' = fnimpl
      \/ Translates(slots', m.num, c, r) \/ GivesUp(slots', m.num, c, r)
  BY <1>1, <1>2, <1>3, <1>4 DEF VarDecl, Mk
<1>6. pc = "body"
  BY DEF VarDecl, VisitsNew, Visits
<1>7. slots \in Seq(Slot) /\ nextId \in Nat /\ r \in Nat /\ fnimpl \in Seq(Instruction)
  BY <1>3 DEF IInv, Table, SectionsOK
<1>8. Tells(slots, slots, {}) /\ "var" \in Kind
  BY <1>7, TellsNone DEF Kind
<1>9. c \in CursorT /\ c.kind = "var" /\ m.slots \in Seq(Slot) /\ m.idx \in 1..Len(m.slots)
  BY <1>1, <1>2, <1>6, <1>8, Looked, SMTT(30)
<1>10. Wrote(slots', m.slots, m.idx, nextId)
  BY <1>4, <1>7, <1>9, VarWritten
<1>11. Keeps(m, c, nextId)
  BY <1>9 DEF Keeps
<1>12. LabelsStay(fn, slots, slots', c, m.idx) /\ Holds(slots', c, m.idx) /\ c.kind # "label"
  BY <1>1, <1>2, <1>6, <1>8, <1>9, <1>10, <1>11, LookedUp
<1>13. CASE Completes /\ lost' = lost /\ fnimpl' = fnimpl
  <2>1. << >> \in Seq(Instruction) /\ Elements(<< >>) = {}
    BY NoneEmitted
  <2>2. fnimpl' = fnimpl \o << >>
    BY <1>7, <1>13, ConcatEmptySeq
  <2>3. Returns(hasRet, hasRet', << >>)
    BY <1>4, <2>1 DEF Returns, IInv, Small
  <2>4. \A y \in Elements(<< >>) : y.op \in {"Op", "Load", "Return"}
    BY <2>1
  <2>5. /\ fndef' = fndef /\ Later(lost, lost') /\ seen \subseteq seen' /\ seen' \subseteq seen \cup {c}
        /\ jumps' = jumps
    BY <1>4, <1>13 DEF Later
  <2>6. QED
    BY <1>6, <1>12, <1>13, <2>1, <2>2, <2>3, <2>4, <2>5, PlainStep
<1>14. CASE Translates(slots', m.num, c, r) \/ GivesUp(slots', m.num, c, r)
  <2>1. slots' \in Seq(Slot)
    BY <1>9, <1>10 DEF Wrote, Put
  <2>2. fndef' = fndef /\ hasRet' = hasRet /\ jumps' = jumps /\ seen' = seen \cup {c}
    BY <1>4
  <2>3. QED
    BY <1>6, <1>7, <1>9, <1>12, <1>14, <2>1, <2>2, CompiledOrder
<1>15. QED
  BY <1>5, <1>13, <1>14

LEMMA ExprStmtOrder ==
    ASSUME IInv, Order, IInv', NEW b \in Names, ExprStmt(b)
    PROVE  Order'
<1>1. PICK c : c = Cursor(fn, "expr", b)
  OBVIOUS
<1>2. PICK m : m = MkIn(slots, num, c)
  OBVIOUS
<1>3. /\ slots' = m.slots /\ seen' = seen \cup {c}
      /\ Translates(m.slots, m.num, c, nextId) \/ GivesUp(m.slots, m.num, c, nextId)
      /\ fndef' = fndef /\ hasRet' = hasRet /\ jumps' = jumps
  BY <1>1, <1>2 DEF ExprStmt, Mk
<1>4. pc = "body"
  BY DEF ExprStmt, VisitsNew, Visits
<1>5. slots \in Seq(Slot) /\ nextId \in Nat
  BY DEF IInv, Table
<1>6. Tells(slots, slots, {}) /\ "expr" \in Kind
  BY <1>5, TellsNone DEF Kind
<1>7. c \in CursorT /\ c.kind = "expr" /\ m.slots \in Seq(Slot) /\ m.idx \in 1..Len(m.slots)
  BY <1>1, <1>2, <1>4, <1>6, Looked, SMTT(30)
<1>8. PICK a : a = m.slots[m.idx].id
  OBVIOUS
<1>9. Wrote(slots', m.slots, m.idx, a) /\ Keeps(m, c, a)
  BY <1>3, <1>7, <1>8, NotWritten DEF Keeps
<1>10. LabelsStay(fn, slots, slots', c, m.idx) /\ Holds(slots', c, m.idx) /\ c.kind # "label"
  BY <1>1, <1>2, <1>4, <1>6, <1>7, <1>9, LookedUp
<1>11. QED
  BY <1>3, <1>4, <1>5, <1>7, <1>10, CompiledOrder

\* A block is closed by a branch and the next one opened, after stores into
\* variables that are declared at the same time.
StoresInto(d, e) ==
    /\ \A w \in Elements(d) : w.op = "Variable"
    /\ \A w \in Elements(e) : w.op = "Store" /\ \E x \in Elements(d) : x.id = w.args[1]

Block(g, y, z) == y.op = "Branch" /\ z.op = "Label" /\ g = << y, z >>

\* Section k is what a statement adds: e, then the branch y and the label z.
BlockAdded(d, e, k, y, z) == Piece(d, k) /\ Elements(k) = Elements(e) \cup {y, z}

LEMMA BlockPiece ==
    ASSUME NEW d \in Seq(Instruction), NEW e \in Seq(Instruction), StoresInto(d, e),
           NEW y \in Instruction, NEW z \in Instruction, NEW g, Block(g, y, z), NEW k, k = e \o g
    PROVE  BlockAdded(d, e, k, y, z)
<1>1. g \in Seq(Instruction) /\ Elements(g) = {y, z}
  <2> HIDE DEF Instruction
  <2>1. g \in Seq(Instruction) /\ DOMAIN g = {1, 2} /\ g[1] = y /\ g[2] = z
    BY DEF Block
  <2>2. QED
    BY <2>1 DEF Elements
<1>2. k \in Seq(Instruction) /\ Elements(k) = Elements(e) \cup {y, z}
  BY <1>1, ElementsConcat
<1>3. Linked(g)
  <2>1. /\ \A x, w : Adjacent(g, x, w) => x = y /\ w = z
        /\ \A x : (Ends(g, x) => x = z) /\ (Starts(g, x) => x = y)
    BY AdjacentTwo DEF Block
  <2>2. QED
    BY <2>1 DEF Linked, Block
<1>4. Linked(e)
  <2>1. \A w \in Elements(e) : w.op \notin {"Branch", "Label"}
    BY DEF StoresInto
  <2>2. QED
    BY <2>1, LinkedPlain
<1>5. Linked(k)
  BY <1>1, <1>3, <1>4, LinkedConcat
<1>6. \A w \in Elements(k) : w.op \in BodyOps /\ (w.op = "Store" => \E x \in Elements(d) : x.id = w.args[1])
  BY <1>2 DEF BodyOps, StoresInto, Block
<1>7. QED
  BY <1>2, <1>5, <1>6 DEF Piece, StoresInto, BlockAdded

LEMMA GotoStmtOrder ==
    ASSUME IInv, Order, IInv', NEW b \in Names, GotoStmt(b)
    PROVE  Order'
<1>1. PICK c : c = Cursor(fn, "label", b)
  OBVIOUS
<1>2. PICK m : m = MkIn(slots, num, c)
  OBVIOUS
<1>3. PICK id : id = IF m.new THEN nextId ELSE m.slots[m.idx].id
  OBVIOUS
<1>4. PICK after : after = IF m.new THEN nextId + 1 ELSE nextId
  OBVIOUS
<1>5. /\ Visits(jumps \cup {c}, seen)
      /\ slots' = [m.slots EXCEPT ![m.idx].id = id]
      /\ fnimpl' = fnimpl \o << Instr("Branch", 0, << id >>), Instr("Label", after, << >>) >>
      /\ jumps' = jumps \cup {c}
      /\ Completes
      /\ UNCHANGED << fndef, hasRet, seen, lost >>
  BY <1>1, <1>2, <1>3, <1>4 DEF GotoStmt, Mk
<1>6. pc = "body" /\ pc' = "body" /\ fn' = fn
  BY <1>5 DEF Visits, Completes
<1>7. slots \in Seq(Slot) /\ num \in Nat /\ nextId \in Nat /\ fndef \in Seq(Instruction) /\ fnimpl \in Seq(Instruction)
  BY DEF IInv, Table, SectionsOK
<1>8. Tells(slots, slots, {}) /\ "label" \in Kind
  BY <1>7, TellsNone DEF Kind
<1>9. /\ c.fn = fn /\ c.kind = "label"
      /\ m.slots \in Seq(Slot) /\ m.idx \in 1..Len(m.slots) /\ m.slots[m.idx].id \in Nat
  BY <1>1, <1>2, <1>6, <1>8, Looked, SMTT(30)
<1>10. id \in Nat /\ after \in Nat
  BY <1>3, <1>4, <1>7, <1>9
<1>11. Wrote(slots', m.slots, m.idx, id)
  BY <1>5, <1>9, <1>10, IdWritten
<1>12. Keeps(m, c, id)
  BY <1>3 DEF Keeps
<1>13. PICK i : i = m.idx
  OBVIOUS
<1>14. /\ LabelsStay(fn, slots, slots', c, i) /\ Holds(slots', c, i)
       /\ i \in 1..Len(slots') /\ slots'[i].key = c /\ slots'[i].id = id
  BY <1>1, <1>2, <1>6, <1>8, <1>11, <1>12, <1>13, LookedUp
<1>15. PICK y, z : y = Instr("Branch", 0, << id >>) /\ z = Instr("Label", after, << >>)
  OBVIOUS
<1>16. /\ y \in Instruction /\ y.op = "Branch" /\ y.args = << id >>
       /\ z \in Instruction /\ z.op = "Label"
  BY <1>10, <1>15, BranchAndLabel
<1>17. PICK d : d = << >>
  OBVIOUS
<1>18. d \in Seq(Instruction) /\ Elements(d) = {} /\ StoresInto(d, d)
  BY <1>17, NoneEmitted DEF StoresInto
<1>19. PICK g, k : g = << y, z >> /\ k = d \o g
  OBVIOUS
<1>20. Piece(d, k) /\ Elements(k) = {y, z}
  <2> HIDE DEF Instruction
  <2>1. BlockAdded(d, d, k, y, z)
    <3>1. y \in Instruction /\ z \in Instruction /\ Block(g, y, z) /\ k = d \o g
      BY <1>16, <1>19 DEF Block
    <3>2. QED
      BY <1>18, <3>1, BlockPiece
  <2>2. QED
    BY <1>18, <2>1 DEF BlockAdded
<1>21. k \in Seq(Instruction)
  BY <1>20 DEF Piece
<1>22. fndef' = fndef \o d /\ fnimpl' = fnimpl \o k
  <2>1. g \in Seq(Instruction)
    <3> HIDE DEF Instruction
    <3>1. QED
      BY <1>16, <1>19
  <2>2. k = g
    BY <1>17, <1>19, <2>1, ConcatEmptySeq
  <2>3. QED
    BY <1>5, <1>7, <1>15, <1>17, <1>19, <2>2, ConcatEmptySeq
<1>23. Returns(hasRet, hasRet', k)
  BY <1>5, <1>16, <1>20 DEF Returns, IInv, Small
<1>24. Later(lost, lost')
  BY <1>5 DEF Later
<1>25. Layout'
  BY <1>6, <1>20, <1>22, <1>23, <1>24, LayoutStep DEF Order
<1>26. IsLabel(fn, slots', i)
  BY <1>9, <1>14 DEF IsLabel
<1>27. BranchesTo(fn, slots', k, i, seen' \cup jumps')
  BY <1>5, <1>14, <1>16, <1>20, <1>26 DEF BranchesTo
<1>28. ~NewlySeen(c, seen, seen')
  BY <1>5 DEF NewlySeen
<1>29. Meets'
  BY <1>5, <1>6, <1>14, <1>21, <1>22, <1>24, <1>27, <1>28, MeetsStep DEF Order
<1>30. QED
  BY <1>25, <1>29 DEF Order

LEMMA LabelStmtOrder ==
    ASSUME IInv, Order, IInv', NEW b \in Names, LabelStmt(b)
    PROVE  Order'
<1>1. PICK c : c = Cursor(fn, "label", b)
  OBVIOUS
<1>2. PICK T, s0 : T = Pending /\ s0 = Told(T)
  OBVIOUS
<1>3. PICK m : m = MkIn(s0, num, c)
  OBVIOUS
<1>4. PICK id : id = IF m.new THEN nextId ELSE m.slots[m.idx].id
  OBVIOUS
<1>5. /\ c \notin seen /\ Visits(jumps, seen \cup {c})
      /\ slots' = [m.slots EXCEPT ![m.idx].id = id]
      /\ fndef' = fndef \o Variables(T)
      /\ fnimpl' = fnimpl \o Stores(T) \o << Instr("Branch", 0, << id >>), Instr("Label", id, << >>) >>
      /\ seen' = seen \cup {c}
      /\ Completes
      /\ UNCHANGED << hasRet, jumps, lost >>
  BY <1>1, <1>2, <1>3, <1>4 DEF LabelStmt, VisitsNew
<1>6. pc = "body" /\ pc' = "body" /\ fn' = fn
  BY <1>5 DEF Visits, Completes
<1>7. slots \in Seq(Slot) /\ num \in Nat /\ nextId \in Nat /\ fndef \in Seq(Instruction) /\ fnimpl \in Seq(Instruction)
  BY DEF IInv, Table, SectionsOK
<1>8. Tells(slots, s0, T) /\ T \in SUBSET Pending /\ "label" \in Kind
  BY <1>2, ToldIs DEF Kind
<1>9. /\ c.fn = fn /\ c.kind = "label"
      /\ m.slots \in Seq(Slot) /\ m.idx \in 1..Len(m.slots) /\ m.slots[m.idx].id \in Nat
  BY <1>1, <1>3, <1>6, <1>8, Looked, SMTT(30)
<1>10. id \in Nat
  BY <1>4, <1>7, <1>9
<1>11. Wrote(slots', m.slots, m.idx, id)
  BY <1>5, <1>9, <1>10, IdWritten
<1>12. Keeps(m, c, id)
  BY <1>4 DEF Keeps
<1>13. PICK i : i = m.idx
  OBVIOUS
<1>14. /\ LabelsStay(fn, slots, slots', c, i) /\ Holds(slots', c, i)
       /\ i \in 1..Len(slots') /\ slots'[i].key = c /\ slots'[i].id = id
  BY <1>1, <1>3, <1>6, <1>8, <1>11, <1>12, <1>13, LookedUp
<1>15. PICK y, z : y = Instr("Branch", 0, << id >>) /\ z = Instr("Label", id, << >>)
  OBVIOUS
<1>16. /\ y \in Instruction /\ y.op = "Branch" /\ y.args = << id >>
       /\ z \in Instruction /\ z.op = "Label" /\ z.id = id
  BY <1>10, <1>15, BranchAndLabel
<1>17. PICK d, e : d = Variables(T) /\ e = Stores(T)
  OBVIOUS
<1>18. /\ d \in Seq(Instruction)
       /\ \A w : w \in Elements(d) <=> \E j \in T : w = Variable(j)
       /\ \A j \in T : InstrIs(Variable(j), "Variable", slots[j].id, << >>)
  BY <1>6, <1>8, <1>17, VariablesIs DEF Later
<1>19. /\ e \in Seq(Instruction)
       /\ \A w \in Elements(e) : \E j \in T : w.op = "Store" /\ w.args[1] = slots[j].id
  BY <1>8, <1>17, StoresIs
<1>20. \A w \in Elements(d) : w.op = "Variable"
  BY <1>18 DEF InstrIs
<1>21. \A w \in Elements(e) : w.op = "Store" /\ \E x \in Elements(d) : x.id = w.args[1]
  <2>1. SUFFICES ASSUME NEW w \in Elements(e)
                 PROVE  w.op = "Store" /\ \E x \in Elements(d) : x.id = w.args[1]
    OBVIOUS
  <2>2. PICK j \in T : w.op = "Store" /\ w.args[1] = slots[j].id
    BY <1>19
  <2>3. Variable(j) \in Elements(d) /\ Variable(j).id = slots[j].id
    BY <1>18 DEF InstrIs
  <2>4. QED
    BY <2>2, <2>3
<1>22. PICK g, k : g = << y, z >> /\ k = e \o g
  OBVIOUS
<1>23. Piece(d, k) /\ Elements(k) = Elements(e) \cup {y, z}
  <2>1. StoresInto(d, e)
    BY <1>20, <1>21 DEF StoresInto
  <2>2. d \in Seq(Instruction) /\ e \in Seq(Instruction)
    BY <1>18, <1>19
  <2> HIDE DEF Instruction
  <2>3. y \in Instruction /\ z \in Instruction /\ Block(g, y, z) /\ k = e \o g
    BY <1>16, <1>22 DEF Block
  <2>4. BlockAdded(d, e, k, y, z)
    BY <2>1, <2>2, <2>3, BlockPiece
  <2>5. QED
    BY <2>4 DEF BlockAdded
<1>24. k \in Seq(Instruction)
  BY <1>23 DEF Piece
<1>25. fndef' = fndef \o d /\ fnimpl' = fnimpl \o k
  <2>1. g \in Seq(Instruction)
    <3> HIDE DEF Instruction
    <3>1. QED
      BY <1>16, <1>22
  <2>2. (fnimpl \o e) \o g = fnimpl \o (e \o g)
    BY <1>7, <1>19, <2>1, ConcatAssociative, SMTT(30)
  <2>3. QED
    BY <1>5, <1>15, <1>17, <1>22, <2>2
<1>26. Returns(hasRet, hasRet', k)
  BY <1>5, <1>16, <1>21, <1>23 DEF Returns, IInv, Small
<1>27. Later(lost, lost')
  BY <1>5 DEF Later
<1>28. Layout'
  BY <1>6, <1>23, <1>25, <1>26, <1>27, LayoutStep DEF Order
<1>29. IsLabel(fn, slots', i)
  BY <1>9, <1>14 DEF IsLabel
<1>30. BranchesTo(fn, slots', k, i, seen' \cup jumps')
  BY <1>5, <1>14, <1>16, <1>21, <1>23, <1>29 DEF BranchesTo
<1>31. Labelled(fn, slots', k, c, i)
  BY <1>14, <1>16, <1>23, <1>29 DEF Labelled
<1>32. Meets'
  BY <1>5, <1>6, <1>14, <1>24, <1>25, <1>27, <1>30, <1>31, MeetsStep DEF Order
<1>33. QED
  BY <1>28, <1>32 DEF Order

LEMMA EnterOrder ==
    ASSUME IInv, Order, Enter
    PROVE  Order'
<1>1. /\ pc = "enter" /\ pc' = "body"
      /\ fndef' = fndef \o Prologue /\ fnimpl' = << >>
      /\ hasRet' = FALSE /\ seen' = {} /\ lost' = lost
  BY DEF Enter
<1>2. Layout'
  <2>1. SUFFICES ASSUME Whole' PROVE Settled(fndef') /\ Within(fndef', fnimpl', hasRet')
    BY <1>1 DEF Layout
  <2>2. Whole
    BY <1>1, <2>1 DEF Whole, IInv, Scope
  <2>3. Settled(fndef) /\ Between(fndef, fnimpl)
    BY <1>1, <2>2 DEF Order, Layout
  <2>4. PICK a2 : a2 = fndef'
    OBVIOUS
  <2>5. Settled(a2) /\ Within(a2, << >>, FALSE)
    BY <1>1, <2>3, <2>4, Begins
  <2>6. QED
    BY <1>1, <2>4, <2>5
<1>3. Meets'
  <2>1. PICK u : u = slots'
    OBVIOUS
  <2>2. Elements(fnimpl') = {}
    BY <1>1, NoneEmitted
  <2>3. TargetsAt(fn', u, fnimpl', seen', jumps')
    BY <1>1, <2>2 DEF TargetsAt
  <2>4. QED
    BY <2>1, <2>3 DEF Meets
<1>4. QED
  BY <1>2, <1>3 DEF Order

LEMMA LeaveOrder ==
    ASSUME IInv, Order, Leave
    PROVE  Order'
<1>1. /\ BodyEnds /\ fndef' = fndef \o fnimpl \o Epilogue /\ fnimpl' = << >>
      /\ pc' # "body" /\ lost' = lost /\ err' = err
  BY DEF Leave
<1>2. Layout'
  <2>1. SUFFICES ASSUME Whole' PROVE Settled(fndef') /\ Between(fndef', << >>)
    BY <1>1 DEF Layout
  <2>2. Whole
    BY <1>1, <2>1 DEF Whole
  <2>3. pc = "body"
    BY <1>1, <2>2 DEF BodyEnds, Whole, IInv, Scope
  <2>4. Settled(fndef) /\ Within(fndef, fnimpl, hasRet)
    BY <2>2, <2>3 DEF Order, Layout
  <2>5. fndef \in Seq(Instruction) /\ fnimpl \in Seq(Instruction)
    BY DEF IInv, Table, SectionsOK
  <2>6. PICK d : d = Epilogue
    OBVIOUS
  <2>7. d \in Seq(Instruction)
    BY <2>6, EpilogueIs
  <2>8. PICK c, a2 : c = fnimpl \o d /\ a2 = fndef \o c
    OBVIOUS
  <2>9. a2 = fndef'
    <3> HIDE DEF Instruction
    <3>1. (fndef \o fnimpl) \o d = fndef \o c
      BY <2>5, <2>7, <2>8, ConcatAssociative
    <3>2. QED
      BY <1>1, <2>6, <2>8, <3>1
  <2>10. Settled(a2) /\ Between(a2, << >>)
    <3> HIDE DEF Instruction
    <3>1. QED
      BY <2>4, <2>5, <2>6, <2>8, Finishes
  <2>11. QED
    BY <2>9, <2>10
<1>3. QED
  BY <1>1, <1>2 DEF Order, Meets

\* The compilation ends with an error.
LEMMA ErrorOrder ==
    ASSUME err' # OK, pc' # "body"
    PROVE  Order'
BY DEF Order, Layout, Meets, Whole

LEMMA InitOrder == Init => Order
<1>1. SUFFICES ASSUME Init PROVE Order
  OBVIOUS
<1>2. fndef = << >> /\ fnimpl = << >> /\ pc = "enter"
  BY <1>1 DEF Init
<1>3. \A x, y : ~Adjacent(<< >>, x, y) /\ ~Ends(<< >>, x)
  BY AdjacentNone
<1>4. DeclaresAll(<< >>)
  BY DEF DeclaresAll
<1>5. Closed(<< >>) /\ Between(<< >>, << >>)
  BY <1>3 DEF Closed, Between
<1>6. Settled(fndef) /\ Between(fndef, fnimpl)
  BY <1>2, <1>4, <1>5 DEF Settled, ClosedIfLast
<1>7. QED
  BY <1>2, <1>6 DEF Order, Layout, Meets

LEMMA NextOrder ==
    ASSUME IInv, Order, IInv', [Next]_vars
    PROVE  Order'
<1>1. CASE UNCHANGED vars
  BY <1>1 DEF vars, Order, Layout, Meets, Whole
<1>2. CASE Enter
  BY <1>2, EnterOrder
<1>3. CASE EnterFails
  <2>1. err' = ALLOC_FAILED /\ pc' = "done"
    BY <1>3 DEF EnterFails
  <2>2. QED
    BY <2>1, ErrorOrder DEF OK, ALLOC_FAILED
<1>4. CASE Leave
  BY <1>4, LeaveOrder
<1>5. CASE LeaveFails
  <2>1. err' = ALLOC_FAILED /\ pc' = "done"
    BY <1>5 DEF LeaveFails
  <2>2. QED
    BY <2>1, ErrorOrder DEF OK, ALLOC_FAILED
<1>6. CASE Abort
  <2>1. err' # OK /\ pc' = "done"
    BY <1>6 DEF Abort
  <2>2. QED
    BY <2>1, ErrorOrder
<1>7. CASE Finished
  BY <1>1, <1>7 DEF Finished
<1>8. CASE ReturnStmt
  BY <1>8, ReturnStmtOrder
<1>9. CASE ReturnStmtFails
  BY <1>9, GivenUp DEF ReturnStmtFails, Breaks
<1>10. CASE OtherStmt
  BY <1>10, OtherStmtOrder
<1>11. ASSUME NEW n \in Names, \E number, init \in BOOLEAN : VarDecl(n, number, init)
       PROVE  Order'
  BY <1>11, VarDeclOrder
<1>12. ASSUME NEW n \in Names, VarDeclUnknown(n) \/ VarDeclFails(n)
       PROVE  Order'
  <2>1. lost'
    BY <1>12 DEF VarDeclUnknown, VarDeclFails, MkFails, Breaks
  <2>2. QED
    BY <2>1, GivenUp
<1>13. ASSUME NEW n \in Names, LabelStmt(n)
       PROVE  Order'
  BY <1>13, LabelStmtOrder
<1>14. ASSUME NEW n \in Names, LabelStmtGivenUp(n) \/ LabelStmtFails(n)
       PROVE  Order'
  <2>1. lost'
    BY <1>14 DEF LabelStmtGivenUp, LabelStmtFails, Breaks
  <2>2. QED
    BY <2>1, GivenUp
<1>15. ASSUME NEW n \in Names, GotoStmt(n)
       PROVE  Order'
  BY <1>15, GotoStmtOrder
<1>16. ASSUME NEW n \in Names, GotoStmtFails(n) \/ ExprStmtFails(n)
       PROVE  Order'
  <2>1. lost'
    BY <1>16 DEF GotoStmtFails, ExprStmtFails, MkFails, Breaks
  <2>2. QED
    BY <2>1, GivenUp
<1>17. ASSUME NEW n \in Names, ExprStmt(n)
       PROVE  Order'
  BY <1>17, ExprStmtOrder
<1>18. QED
  BY <1>1, <1>2, <1>3, <1>4, <1>5, <1>6, <1>7, <1>8, <1>9, <1>10, <1>11, <1>12, <1>13, <1>14, <1>15, <1>16, <1>17
     DEF Next

\* Finished functions stay whole while the next body grows behind them, and
\* every branch of the current body goes to a label of the table that was
\* visited or that a goto still waits for.
THEOREM Ordered == Spec => []Order
<1>1. Init => Order
  BY InitOrder
<1>2. IInv /\ IInv' /\ Order /\ [Next]_vars => Order'
  BY NextOrder
<1>3. QED
  BY <1>1, <1>2, Inductive, PTL DEF Spec

\* A goto finds its label whichever of the two comes first: at the end of a
\* body that was translated without a loss, each branch goes to exactly one
\* label of that body.
THEOREM BranchesFindLabels == Spec => []BranchTargetsDefined
<1>1. ASSUME IInv, Order PROVE BranchTargetsDefined
  <2>1. SUFFICES ASSUME pc = "body", ~lost, jumps \subseteq seen, NEW i \in 1..Len(fnimpl), fnimpl[i].op = "Branch"
                 PROVE  Cardinality({ j \in 1..Len(fnimpl) :
                            fnimpl[j].op = "Label" /\ fnimpl[j].id = fnimpl[i].args[1] }) = 1
    BY DEF BranchTargetsDefined, Whole, BodyEnds
  <2>2. PICK n \in Nat : n = Len(fnimpl) /\ DOMAIN fnimpl = 1..n
    <3>1. fnimpl \in Seq(Instruction)
      BY <1>1 DEF IInv, Table, SectionsOK
    <3> HIDE DEF Instruction
    <3>2. QED
      BY <3>1
  <2>3. fnimpl[i] \in Elements(fnimpl)
    BY <2>2 DEF Elements
  <2>4. TargetsAt(fn, slots, fnimpl, seen, jumps)
    BY <1>1, <2>1 DEF Order, Meets
  <2>5. PICK k \in 1..Len(slots) : /\ IsLabel(fn, slots, k) /\ slots[k].key \in seen
                                   /\ fnimpl[i].args = << slots[k].id >>
    BY <2>1, <2>3, <2>4 DEF TargetsAt
  <2>6. PICK id : id = slots[k].id
    OBVIOUS
  <2>7. fnimpl[i].args[1] = id
    BY <2>5, <2>6
  <2>8. PICK g \in 1..n : fnimpl[g].op = "Label" /\ fnimpl[g].id = id
    <3>1. PICK y \in Elements(fnimpl) : y.op = "Label" /\ y.id = id
      BY <2>4, <2>5, <2>6 DEF TargetsAt
    <3>2. QED
      BY <2>2, <3>1 DEF Elements
  <2>9. id # 0
    <3>1. LabelsAt(fn, slots, CodeOf(fndef, fnimpl), lost, seen)
      BY <1>1, <2>1, InBody DEF State, Before, TableOK
    <3>2. id >= FirstId /\ FirstId \in Nat /\ 0 < FirstId
      BY <2>5, <2>6, <3>1, IdsAre DEF LabelsAt
    <3>3. QED
      BY <3>2
  <2>10. Uniq(lost, fnimpl)
    BY <1>1 DEF IInv, Table, SectionsOK
  <2>11. ASSUME NEW j \in 1..n, fnimpl[j].op = "Label", fnimpl[j].id = id PROVE j = g
    <3>1. Hit(lost, fnimpl[j], fnimpl[g])
      BY <2>1, <2>8, <2>9, <2>11 DEF Hit
    <3>2. QED
      BY <2>2, <2>10, <3>1 DEF Uniq
  <2>12. { j \in 1..Len(fnimpl) : fnimpl[j].op = "Label" /\ fnimpl[j].id = fnimpl[i].args[1] } = {g}
    BY <2>2, <2>7, <2>8, <2>11
  <2>13. QED
    BY <2>12, FS_Singleton
<1>2. QED
  BY <1>1, Inductive, Ordered, PTL

\* util_tell_cursor_lbl puts a late declaration where SPIR-V wants it: behind
\* the first label of its function, before the stores into it.
THEOREM DeclaredInPlace == Spec => []VariablesDeclared
<1>1. ASSUME IInv, Order PROVE VariablesDeclared
  <2>1. SUFFICES ASSUME Whole PROVE DeclaresAll(Code)
    BY DEF VariablesDeclared, DeclaresAll, DeclaredAt, VarAt, StoreAt
  <2>2. fndef \in Seq(Instruction) /\ fnimpl \in Seq(Instruction)
    BY <1>1 DEF IInv, Table, SectionsOK
  <2>3. PICK c : c = fndef \o fnimpl
    OBVIOUS
  <2>4. Settled(fndef)
    BY <1>1, <2>1 DEF Order, Layout
  <2>5. CASE pc = "body"
    <3>1. Within(fndef, fnimpl, hasRet)
      BY <1>1, <2>1, <2>5 DEF Order, Layout
    <3>2. PICK p : Opens(fndef, p) /\ \A y \in Elements(fnimpl) : y.op = "Store" => StoredIn(fndef, p, y)
      BY <3>1 DEF Within
    <3>3. \A y \in Elements(fnimpl) : y.op \in BodyOps /\ (y.op = "Store" => StoredIn(fndef, p, y))
      BY <3>1, <3>2 DEF Within
    <3>4. DeclaresAll(c)
      <4> HIDE DEF Instruction
      <4>1. QED
        BY <2>2, <2>3, <2>4, <3>2, <3>3, BodyDeclares DEF Settled
    <3>5. QED
      BY <2>3, <3>4 DEF Code
  <2>6. CASE pc # "body"
    <3>1. fnimpl = << >>
      BY <1>1, <2>1, <2>6 DEF Order, Layout, Between
    <3>2. c = fndef
      <4> HIDE DEF Instruction
      <4>1. QED
        BY <2>2, <2>3, <3>1, ConcatEmptySeq
    <3>3. QED
      BY <2>3, <2>4, <3>2 DEF Settled, Code
  <2>7. QED
    BY <2>5, <2>6
<1>2. QED
  BY <1>1, Inductive, Ordered, PTL

\* Between the labels and the branches of gotos, of labels and of the epilogue
\* no block of the finished functions is left open or closed twice.
THEOREM BlocksAreClosed == Spec => []BlocksClosed
<1>1. ASSUME IInv, Order PROVE BlocksClosed
  <2>1. SUFFICES ASSUME Whole, ReturnsLast(fndef), NEW i \in 1..(Len(fndef) - 1)
                 PROVE  Closes(fndef, i) <=> /\ fndef[i+1].op \in {"Label", "FunctionEnd"}
                                             /\ fndef[i].op # "Function"
    BY DEF BlocksClosed
  <2>2. Closed(fndef)
    BY <1>1, <2>1 DEF Order, Layout, Settled, ClosedIfLast
  <2>3. Adjacent(fndef, fndef[i], fndef[i+1])
    BY DEF Adjacent
  <2>4. QED
    BY <2>2, <2>3 DEF Closed, Closes
<1>2. QED
  BY <1>1, Inductive, Ordered, PTL
=============================================================================
