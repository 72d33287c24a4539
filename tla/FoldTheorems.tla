---------------------------- MODULE FoldTheorems ----------------------------
(***************************************************************************)
(* Lemmas that the proofs about sequences of records need: induction over  *)
(* Nat for sets, functions defined by recursion, FoldLeft as a run of      *)
(* states, SelectInSeq and SetToSeq.  An operator to be folded is the      *)
(* CONSTANT Op, so that a proof takes an instance of this module for it.   *)
(***************************************************************************)
EXTENDS Integers, SequencesExt, FiniteSetTheorems, TLAPS

CONSTANT Op(_, _)

\* A set of natural numbers has a least member.
LEMMA LeastNat ==
  ASSUME NEW T \in SUBSET Nat, T # {}
  PROVE  \E n \in T : \A m \in T : n <= m
<1> SUFFICES ASSUME \A n \in T : \E m \in T : m < n PROVE FALSE
  OBVIOUS
<1>1. PICK k \in T : TRUE
  OBVIOUS
<1> DEFINE U == {i \in 0..k : \A m \in T : i < m}
           f == [i \in U |-> i + 1]
<1>2. \A i \in U : i + 1 \in U
  <2> SUFFICES ASSUME NEW i \in U PROVE i + 1 \in U
    OBVIOUS
  <2>1. i + 1 \notin T
    OBVIOUS
  <2>2. \A m \in T : i + 1 <= m
    OBVIOUS
  <2> QED
    BY <1>1, <2>1, <2>2
<1>3. 0 \in U
  <2>1. 0 \notin T
    OBVIOUS
  <2> QED
    BY <2>1
<1>4. IsFiniteSet(U)
  <2>1. IsFiniteSet(0..k)
    BY FS_Interval
  <2> QED
    BY <2>1, FS_Subset
<1>5. f \in [U -> U \ {0}]
  BY <1>2
<1> HIDE DEF U, f
<1>6. IsFiniteSet(U \ {0}) /\ Cardinality(U \ {0}) < Cardinality(U)
  <2>1. /\ IsFiniteSet(U \ {0})
        /\ Cardinality(U \ {0}) = Cardinality(U) - 1
    BY <1>3, <1>4, FS_RemoveElement
  <2> QED
    BY <2>1, <1>4, FS_CardinalityType
<1>7. \E x, y \in U : x # y /\ f[x] = f[y]
  BY <1>4, <1>5, <1>6, FS_PigeonHole
<1> QED
  BY <1>7 DEF U, f

\* Induction: a set that has 0, and with a number its successor, has them all.
LEMMA NatInduct ==
  ASSUME NEW T, 0 \in T, \A n \in Nat : n \in T => n + 1 \in T
  PROVE  \A n \in Nat : n \in T
<1> SUFFICES ASSUME Nat \ T # {} PROVE FALSE
  OBVIOUS
<1>1. PICK n \in Nat \ T : \A m \in Nat \ T : n <= m
  BY LeastNat
<1>2. n # 0 /\ n - 1 \in Nat /\ n - 1 \in T
  BY <1>1
<1> QED
  BY <1>1, <1>2

\* Min and Max of sets that have them.
LEMMA MinOfSet ==
  ASSUME NEW T \in SUBSET Nat, T # {}
  PROVE  Min(T) \in T /\ \A m \in T : Min(T) <= m
BY LeastNat DEF Min

LEMMA MaxOfSet ==
  ASSUME NEW T \in SUBSET Int, NEW n \in T, \A m \in T : n >= m
  PROVE  Max(T) = n
<1> DEFINE m == CHOOSE x \in T : \A y \in T : x >= y
<1>1. m \in T /\ \A y \in T : m >= y
  OBVIOUS
<1>2. Max(T) = m
  BY DEF Max
<1> HIDE DEF m
<1> QED
  BY <1>1, <1>2

LEMMA MaxOfPlaces ==
  ASSUME NEW n \in Nat, NEW T \in SUBSET (0..n), T # {}
  PROVE  Max(T) \in T /\ \A m \in T : Max(T) >= m
<1> DEFINE U == {n - m : m \in T}
<1>1. U \in SUBSET Nat /\ U # {}
  <2>1. \A m \in T : n - m \in Nat
    OBVIOUS
  <2>2. PICK m \in T : TRUE
    OBVIOUS
  <2>3. n - m \in U
    OBVIOUS
  <2> QED
    BY <2>1, <2>3
<1>2. PICK u \in U : \A v \in U : u <= v
  BY <1>1, LeastNat
<1>3. PICK x \in T : u = n - x
  BY <1>2
<1>4. \A m \in T : x >= m
  <2> SUFFICES ASSUME NEW m \in T PROVE x >= m
    OBVIOUS
  <2>1. n - x <= n - m
    BY <1>2, <1>3
  <2> QED
    BY <2>1
<1>5. T \in SUBSET Int
  OBVIOUS
<1>6. Max(T) = x
  BY <1>3, <1>4, <1>5, MaxOfSet
<1> QED
  BY <1>4, <1>6

\* A function on Nat that is defined by recursion exists: Op gives its next value.
LEMMA RunExists ==
  ASSUME NEW b
  PROVE  \E run : run = [n \in Nat |-> IF n = 0 THEN b ELSE Op(run[n - 1], n)]
<1> DEFINE Upto(n, g) == \A k \in 0..n : g[k] = IF k = 0 THEN b ELSE Op(g[k - 1], k)
           T == {n \in Nat : \E g : Upto(n, g)}
<1>1. 0 \in T
  <2>1. Upto(0, [k \in {0} |-> b])
    OBVIOUS
  <2> QED
    BY <2>1
<1>2. ASSUME NEW n \in Nat, n \in T PROVE n + 1 \in T
  <2>1. PICK g : Upto(n, g)
    BY <1>2
  <2> DEFINE h == [k \in 0..(n + 1) |-> IF k = n + 1 THEN Op(g[n], n + 1) ELSE g[k]]
  <2>2. Upto(n + 1, h)
    BY <2>1
  <2> HIDE DEF h
  <2> QED
    BY <2>2
<1>3. \A n \in Nat : n \in T
  <2> HIDE DEF T
  <2> QED
    BY <1>1, <1>2, NatInduct
<1> DEFINE at(n) == CHOOSE g : Upto(n, g)
           run == [n \in Nat |-> at(n)[n]]
<1>4. \A n \in Nat : Upto(n, at(n))
  BY <1>3
<1>5. \A n, m \in Nat : n <= m => at(n)[n] = at(m)[n]
  <2> DEFINE S == {n \in Nat : \A m \in Nat : n <= m => at(n)[n] = at(m)[n]}
  <2> HIDE DEF at
  <2>1. 0 \in S
    BY <1>4
  <2>2. ASSUME NEW n \in Nat, n \in S PROVE n + 1 \in S
    <3> SUFFICES ASSUME NEW m \in Nat, n + 1 <= m PROVE at(n + 1)[n + 1] = at(m)[n + 1]
      OBVIOUS
    <3>1. at(n)[n] = at(m)[n] /\ at(n)[n] = at(n + 1)[n]
      BY <2>2
    <3>2. /\ at(m)[n + 1] = Op(at(m)[n], n + 1)
          /\ at(n + 1)[n + 1] = Op(at(n + 1)[n], n + 1)
      <4>1. n + 1 \in Nat /\ n + 1 \in 0..m /\ n + 1 \in 0..(n + 1) /\ n + 1 # 0 /\ (n + 1) - 1 = n
        OBVIOUS
      <4> QED
        BY <1>4, <4>1
    <3> QED
      BY <3>1, <3>2
  <2> HIDE DEF S
  <2>3. \A n \in Nat : n \in S
    BY <2>1, <2>2, NatInduct
  <2> QED
    BY <2>3 DEF S
<1>6. \A n \in Nat : run[n] = IF n = 0 THEN b ELSE Op(run[n - 1], n)
  <2> HIDE DEF at
  <2> SUFFICES ASSUME NEW n \in Nat PROVE run[n] = IF n = 0 THEN b ELSE Op(run[n - 1], n)
    OBVIOUS
  <2>1. n \in 0..n
    OBVIOUS
  <2>2. at(n)[n] = IF n = 0 THEN b ELSE Op(at(n)[n - 1], n)
    BY <1>4, <2>1
  <2>3. n # 0 => n - 1 \in Nat /\ at(n - 1)[n - 1] = at(n)[n - 1]
    BY <1>5
  <2> QED
    BY <2>2, <2>3
<1> HIDE DEF at
<1>7. run = [n \in Nat |-> IF n = 0 THEN b ELSE Op(run[n - 1], n)]
  <2>1. [n \in Nat |-> at(n)[n]] = [n \in Nat |-> IF n = 0 THEN b ELSE Op(run[n - 1], n)]
    BY <1>6
  <2> QED
    BY <2>1
<1> QED
  BY <1>7

\* FoldLeft as a run: a value before the first element and one after each of them.
Fold(b, s) == FoldLeft(Op, b, s)

FoldStep(b, s, t, g) == IF t = {} THEN b ELSE Op(g[t \ {Max(t)}], s[Max(t)])

IsFoldRun(run, b, n, s) ==
  run[0] = b /\ run[n] = Fold(b, s) /\ \A i \in 1..n : run[i] = Op(run[i - 1], s[i])

LEMMA FoldRun ==
  ASSUME NEW b, NEW n \in Nat, NEW s, DOMAIN s = 1..n
  PROVE  \E run : IsFoldRun(run, b, n, s)
<1> DEFINE Upto(k, g) == \A t \in SUBSET (1..k) : g[t] = FoldStep(b, s, t, g)
           T == {k \in Nat : \E g : Upto(k, g)}
<1>1. 0 \in T
  <2>1. Upto(0, [t \in {{}} |-> b])
    BY DEF FoldStep
  <2> QED
    BY <2>1
<1>2. ASSUME NEW k \in Nat, k \in T PROVE k + 1 \in T
  <2>1. PICK g : Upto(k, g)
    BY <1>2
  <2> DEFINE h == [t \in SUBSET (1..(k + 1)) |->
                     IF k + 1 \in t THEN Op(g[t \ {k + 1}], s[k + 1]) ELSE g[t]]
  <2>2. \A t \in SUBSET (1..k) : t \in SUBSET (1..(k + 1)) /\ k + 1 \notin t /\ h[t] = g[t]
    OBVIOUS
  <2>3. ASSUME NEW t \in SUBSET (1..(k + 1)), k + 1 \in t PROVE h[t] = FoldStep(b, s, t, h)
    <3>1. Max(t) = k + 1
      <4>1. t \in SUBSET Int /\ k + 1 \in t /\ \A m \in t : k + 1 >= m
        BY <2>3
      <4> QED
        BY <4>1, MaxOfSet
    <3>2. t \ {k + 1} \in SUBSET (1..k) /\ t # {}
      BY <2>3
    <3>3. h[t] = Op(g[t \ {k + 1}], s[k + 1])
      BY <2>3
    <3>4. h[t \ {k + 1}] = g[t \ {k + 1}]
      BY <2>2, <3>2
    <3> HIDE DEF h
    <3>5. h[t] = Op(h[t \ {Max(t)}], s[Max(t)])
      BY <3>1, <3>3, <3>4
    <3> QED
      BY <3>2, <3>5 DEF FoldStep
  <2>4. ASSUME NEW t \in SUBSET (1..(k + 1)), k + 1 \notin t PROVE h[t] = FoldStep(b, s, t, h)
    <3>1. t \in SUBSET (1..k) /\ t \ {Max(t)} \in SUBSET (1..k)
      <4>1. \A x \in t : x \in 1..(k + 1) /\ x # k + 1
        BY <2>4
      <4>2. \A x \in t : x \in 1..k
        BY <4>1
      <4> QED
        BY <4>2
    <3>2. h[t] = g[t] /\ h[t \ {Max(t)}] = g[t \ {Max(t)}]
      BY <2>2, <3>1
    <3> HIDE DEF h
    <3> QED
      BY <2>1, <3>1, <3>2 DEF FoldStep
  <2> HIDE DEF h
  <2>5. Upto(k + 1, h)
    BY <2>3, <2>4
  <2> QED
    BY <2>5
<1>3. n \in T
  <2> HIDE DEF T
  <2> QED
    BY <1>1, <1>2, NatInduct
<1>4. PICK g : Upto(n, g)
  BY <1>3
<1> DEFINE iter == CHOOSE iter : iter = [t \in SUBSET (DOMAIN s) |-> FoldStep(b, s, t, iter)]
<1>5. iter = [t \in SUBSET (DOMAIN s) |-> FoldStep(b, s, t, iter)]
  <2> DEFINE f == [t \in SUBSET (1..n) |-> g[t]]
  <2>1. \A t \in SUBSET (1..n) : FoldStep(b, s, t, f) = FoldStep(b, s, t, g)
    <3>1. \A t \in SUBSET (1..n) : t \ {Max(t)} \in SUBSET (1..n)
      OBVIOUS
    <3> QED
      BY <3>1 DEF FoldStep
  <2>2. f = [t \in SUBSET (1..n) |-> FoldStep(b, s, t, f)]
    BY <1>4, <2>1
  <2> HIDE DEF f
  <2> QED
    BY <2>2
<1>6. Fold(b, s) = iter[DOMAIN s]
  BY DEF Fold, FoldLeft, MapThenFoldSet, FoldStep
<1> HIDE DEF iter
<1> DEFINE run == [i \in 0..n |-> iter[1..i]]
<1>7. run[0] = b
  <2>1. 1..0 = {} /\ 0 \in 0..n
    OBVIOUS
  <2> QED
    BY <1>5, <2>1 DEF FoldStep
<1>8. run[n] = Fold(b, s)
  BY <1>6
<1>9. ASSUME NEW i \in 1..n PROVE run[i] = Op(run[i - 1], s[i])
  <2>1. Max(1..i) = i
    <3>1. 1..i \in SUBSET Int /\ i \in 1..i /\ \A m \in 1..i : i >= m
      OBVIOUS
    <3> QED
      BY <3>1, MaxOfSet
  <2>2. i \in Nat /\ i # 0 /\ i - 1 \in 0..n /\ i \in 0..n
    OBVIOUS
  <2>3. (1..i) \ {i} = 1..(i - 1)
    OBVIOUS
  <2>4. 1..i # {} /\ 1..i \in SUBSET (DOMAIN s)
    OBVIOUS
  <2>5. iter[1..i] = FoldStep(b, s, 1..i, iter)
    BY <1>5, <2>4
  <2>6. iter[1..i] = Op(iter[1..(i - 1)], s[i])
    BY <2>1, <2>3, <2>4, <2>5 DEF FoldStep
  <2> QED
    BY <2>2, <2>6
<1> HIDE DEF run
<1> QED
  BY <1>7, <1>8, <1>9 DEF IsFoldRun

\* What holds before the first element, and is kept by each of them, holds at the end.
LEMMA FoldStays ==
  ASSUME NEW b, NEW n \in Nat, NEW s, DOMAIN s = 1..n, NEW I,
         b \in I[0], \A i \in 1..n : \A x \in I[i - 1] : Op(x, s[i]) \in I[i]
  PROVE  Fold(b, s) \in I[n]
<1>1. PICK run : run[0] = b /\ run[n] = Fold(b, s) /\ \A i \in 1..n : run[i] = Op(run[i - 1], s[i])
  BY FoldRun DEF IsFoldRun
<1> DEFINE T == {i \in Nat : i \in 0..n => run[i] \in I[i]}
<1>2. 0 \in T
  BY <1>1
<1>3. ASSUME NEW i \in Nat, i \in T PROVE i + 1 \in T
  <2>1. i + 1 \in 0..n => i \in 0..n /\ i + 1 \in 1..n /\ (i + 1) - 1 = i
    OBVIOUS
  <2> QED
    BY <1>1, <1>3, <2>1
<1> HIDE DEF T
<1>4. n \in T
  BY <1>2, <1>3, NatInduct
<1> QED
  BY <1>1, <1>4 DEF T

\* The places a[k], b[k] that the members of a flattened sequence come from.
FlattenedUpto(n, s, all, a, b) ==
  /\ \A k \in DOMAIN all : a[k] \in 1..n /\ b[k] \in DOMAIN s[a[k]] /\ all[k] = s[a[k]][b[k]]
  /\ \A i \in 1..n : \A j \in DOMAIN s[i] : \E k \in DOMAIN all : a[k] = i /\ b[k] = j
  /\ \A k, l \in DOMAIN all : a[k] = a[l] /\ b[k] = b[l] => k = l

Flattened(s, all, a, b) == FlattenedUpto(Len(s), s, all, a, b)

\* The members of a flattened sequence are those of the sequences, each once.
LEMMA FlattenSeqPlaces ==
  ASSUME NEW S, NEW s \in Seq(Seq(S))
  PROVE  /\ FlattenSeq(s) \in Seq(S)
         /\ \E a, b : Flattened(s, FlattenSeq(s), a, b)
<1>1. CASE Len(s) = 0
  <2>1. s = <<>> /\ FlattenSeq(s) = <<>>
    BY <1>1 DEF FlattenSeq
  <2>2. DOMAIN s = {} /\ 1..Len(s) = {} /\ FlattenSeq(s) \in Seq(S)
    <3>1. DOMAIN s = 1..Len(s) /\ 1..0 = {} /\ <<>> \in Seq(S)
      OBVIOUS
    <3> QED
      BY <1>1, <2>1, <3>1
  <2>3. Flattened(s, FlattenSeq(s), <<>>, <<>>)
    BY <2>1, <2>2 DEF Flattened, FlattenedUpto
  <2> QED
    BY <2>2, <2>3
<1>2. CASE Len(s) # 0
  <2> DEFINE n == Len(s)
             Def(g, i) == IF i = 1 THEN s[i] ELSE g[i - 1] \o s[i]
             T == {k \in Nat : \E g : \A i \in 1..k : g[i] = Def(g, i)}
  <2>1. n \in Nat /\ n >= 1 /\ \A i \in 1..n : s[i] \in Seq(S)
    BY <1>2
  <2>2. 0 \in T
    OBVIOUS
  <2>3. ASSUME NEW k \in Nat, k \in T PROVE k + 1 \in T
    <3>1. PICK g : \A i \in 1..k : g[i] = Def(g, i)
      BY <2>3
    <3> DEFINE h == [i \in 1..(k + 1) |-> IF i = k + 1 THEN Def(g, i) ELSE g[i]]
    <3>2. \A i \in 1..(k + 1) : h[i] = Def(h, i)
      BY <3>1
    <3> HIDE DEF h
    <3> QED
      BY <3>2
  <2>4. n \in T
    <3> HIDE DEF T
    <3> QED
      BY <2>1, <2>2, <2>3, NatInduct
  <2>5. PICK g : \A i \in 1..n : g[i] = Def(g, i)
    BY <2>4
  <2> DEFINE flatten == CHOOSE f : f = [i \in 1..n |-> Def(f, i)]
  <2>6. flatten = [i \in 1..n |-> Def(flatten, i)]
    <3> DEFINE f == [i \in 1..n |-> g[i]]
    <3>1. \A i \in 1..n : f[i] = Def(f, i)
      BY <2>5
    <3>2. f = [i \in 1..n |-> Def(f, i)]
      BY <3>1
    <3> HIDE DEF f
    <3> QED
      BY <3>2
  <2>7. FlattenSeq(s) = flatten[n]
    BY <1>2 DEF FlattenSeq
  <2> HIDE DEF flatten
  <2> DEFINE U == {k \in Nat : k + 1 <= n => /\ flatten[k + 1] \in Seq(S)
                                            /\ \E a, b : FlattenedUpto(k + 1, s, flatten[k + 1], a, b)}
  <2>8. 0 \in U
    <3>1. flatten[1] = s[1] /\ s[1] \in Seq(S)
      BY <2>1, <2>6
    <3> DEFINE a == [k \in DOMAIN s[1] |-> 1]
               b == [k \in DOMAIN s[1] |-> k]
    <3>2. FlattenedUpto(1, s, s[1], a, b)
      BY <2>1 DEF FlattenedUpto
    <3> HIDE DEF a, b
    <3> QED
      BY <3>1, <3>2
  <2>9. ASSUME NEW k \in Nat, k \in U PROVE k + 1 \in U
    <3> SUFFICES ASSUME k + 2 <= n
                 PROVE  /\ flatten[k + 2] \in Seq(S)
                        /\ \E a, b : FlattenedUpto(k + 2, s, flatten[k + 2], a, b)
      OBVIOUS
    <3> DEFINE x == flatten[k + 1]
               y == s[k + 2]
    <3>1. x \in Seq(S) /\ \E a, b : FlattenedUpto(k + 1, s, x, a, b)
      BY <2>9, <2>1
    <3>2. flatten[k + 2] = x \o y /\ y \in Seq(S)
      <4>1. k + 2 \in 1..n /\ k + 2 # 1 /\ (k + 2) - 1 = k + 1
        BY <2>1
      <4>2. flatten[k + 2] = Def(flatten, k + 2)
        BY <2>6, <4>1
      <4> QED
        BY <2>1, <4>1, <4>2
    <3>3. PICK a, b : FlattenedUpto(k + 1, s, x, a, b)
      BY <3>1
    <3> HIDE DEF x, y
    <3> DEFINE a2 == [i \in 1..(Len(x) + Len(y)) |-> IF i <= Len(x) THEN a[i] ELSE k + 2]
               b2 == [i \in 1..(Len(x) + Len(y)) |-> IF i <= Len(x) THEN b[i] ELSE i - Len(x)]
    <3>4. /\ x \o y \in Seq(S) /\ DOMAIN (x \o y) = 1..(Len(x) + Len(y))
          /\ Len(x) \in Nat /\ Len(y) \in Nat /\ DOMAIN x = 1..Len(x) /\ DOMAIN y = 1..Len(y)
          /\ \A i \in 1..(Len(x) + Len(y)) : (x \o y)[i] = IF i <= Len(x) THEN x[i] ELSE y[i - Len(x)]
      BY <3>1, <3>2
    <3>5. ASSUME NEW i \in DOMAIN (x \o y)
          PROVE  a2[i] \in 1..(k + 2) /\ b2[i] \in DOMAIN s[a2[i]] /\ (x \o y)[i] = s[a2[i]][b2[i]]
      <4>1. CASE i <= Len(x)
        <5>1. i \in DOMAIN x /\ a2[i] = a[i] /\ b2[i] = b[i] /\ (x \o y)[i] = x[i]
          BY <3>4, <4>1
        <5> QED
          BY <3>3, <5>1 DEF FlattenedUpto
      <4>2. CASE ~(i <= Len(x))
        <5>1. i - Len(x) \in DOMAIN y /\ a2[i] = k + 2 /\ b2[i] = i - Len(x) /\ (x \o y)[i] = y[i - Len(x)]
          BY <3>4, <4>2
        <5> QED
          BY <5>1 DEF y
      <4> QED
        BY <4>1, <4>2
    <3>6. ASSUME NEW i \in 1..(k + 2), NEW j \in DOMAIN s[i]
          PROVE  \E l \in DOMAIN (x \o y) : a2[l] = i /\ b2[l] = j
      <4>1. CASE i = k + 2
        <5>1. j \in 1..Len(y)
          BY <3>4, <4>1 DEF y
        <5>2. Len(x) + j \in DOMAIN (x \o y) /\ a2[Len(x) + j] = i /\ b2[Len(x) + j] = j
          BY <3>4, <4>1, <5>1
        <5> QED
          BY <5>2
      <4>2. CASE i # k + 2
        <5>1. PICK l \in DOMAIN x : a[l] = i /\ b[l] = j
          BY <3>3, <4>2 DEF FlattenedUpto
        <5>2. l \in DOMAIN (x \o y) /\ a2[l] = i /\ b2[l] = j
          BY <3>4, <5>1
        <5> QED
          BY <5>2
      <4> QED
        BY <4>1, <4>2
    <3>7. ASSUME NEW i \in DOMAIN (x \o y), NEW j \in DOMAIN (x \o y), a2[i] = a2[j], b2[i] = b2[j]
          PROVE  i = j
      <4>1. \A l \in DOMAIN x : a[l] \in 1..(k + 1)
        BY <3>3 DEF FlattenedUpto
      <4>2. CASE i <= Len(x)
        <5>1. i \in DOMAIN x /\ a2[i] = a[i] /\ b2[i] = b[i] /\ a[i] # k + 2
          BY <3>4, <4>1, <4>2
        <5>2. j <= Len(x)
          BY <3>4, <3>7, <5>1
        <5>3. j \in DOMAIN x /\ a2[j] = a[j] /\ b2[j] = b[j]
          BY <3>4, <5>2
        <5> QED
          BY <3>3, <3>7, <5>1, <5>3 DEF FlattenedUpto
      <4>3. CASE ~(i <= Len(x))
        <5>1. a2[i] = k + 2 /\ b2[i] = i - Len(x)
          BY <3>4, <4>3
        <5>2. ~(j <= Len(x))
          <6> SUFFICES ASSUME j <= Len(x) PROVE FALSE
            OBVIOUS
          <6>1. j \in DOMAIN x /\ a2[j] = a[j]
            BY <3>4
          <6> QED
            BY <3>7, <4>1, <5>1, <6>1
        <5>3. b2[j] = j - Len(x)
          BY <3>4, <5>2
        <5> QED
          BY <3>4, <3>7, <5>1, <5>3
      <4> QED
        BY <4>2, <4>3
    <3> HIDE DEF a2, b2
    <3>8. FlattenedUpto(k + 2, s, x \o y, a2, b2)
      BY <3>5, <3>6, <3>7 DEF FlattenedUpto
    <3> QED
      BY <3>2, <3>4, <3>8
  <2>10. \A k \in Nat : k \in U
    <3> HIDE DEF U
    <3> QED
      BY <2>8, <2>9, NatInduct
  <2>11. n - 1 \in Nat /\ n - 1 \in U /\ (n - 1) + 1 = n
    <3>1. n - 1 \in Nat /\ (n - 1) + 1 = n
      BY <2>1
    <3> HIDE DEF U, n
    <3> QED
      BY <2>10, <3>1
  <2> QED
    BY <2>7, <2>11 DEF Flattened
<1> QED
  BY <1>1, <1>2

\* A finite set as a sequence has its members, each once.
LEMMA SetToSeqMembers ==
  ASSUME NEW S, IsFiniteSet(S)
  PROVE  /\ SetToSeq(S) \in Seq(S)
         /\ \A x \in S : \E i \in DOMAIN SetToSeq(S) : SetToSeq(S)[i] = x
<1> DEFINE n == Cardinality(S)
           f == SetToSeq(S)
<1>1. n \in Nat /\ ExistsBijection(1..n, S)
  BY FS_CardinalityType
<1>2. f \in [1..n -> S] /\ IsInjective(f)
  <2>1. \E g \in [1..n -> S] : IsInjective(g)
    BY <1>1 DEF ExistsBijection, Bijection, Injection
  <2> QED
    BY <2>1 DEF SetToSeq
<1> HIDE DEF f
<1>3. f \in Injection(1..n, S)
  BY <1>2 DEF Injection
<1>4. IsFiniteSet(1..n) /\ Cardinality(1..n) = n
  BY <1>1, FS_Interval
<1>5. f \in Surjection(1..n, S)
  <2> HIDE DEF n
  <2>1. Cardinality(1..n) = Cardinality(S)
    BY <1>4 DEF n
  <2> QED
    BY <1>3, <2>1, FS_Injection
<1>6. f \in Seq(S)
  <2>1. f \in UNION {[1..k -> S] : k \in Nat}
    BY <1>1, <1>2
  <2> QED
    BY <1>1, <1>2
<1> QED
  BY <1>2, <1>5, <1>6 DEF Surjection, f
=============================================================================
