-------------------------- MODULE NaturalRecursion --------------------------
(***************************************************************************)
(* Induction over the natural numbers, and recursive definitions, stated   *)
(* with sets and functions: the provers cannot be given the operators that *)
(* the theorems of NaturalsInduction take.                                 *)
(***************************************************************************)
EXTENDS Integers, TLAPS, WellFoundedInduction

\* A set of natural numbers that is not empty has a least element.
LEMMA Least ==
    ASSUME NEW S \in SUBSET Nat, S # {}
    PROVE  \E x \in S : \A y \in S : x <= y
<1> DEFINE Less == {p \in Nat \X Nat : p[1] < p[2]}
<1>1. OpToRel(<, Nat) = Less
  BY DEF OpToRel
<1>2. IsWellFoundedOn(Less, Nat)
  BY <1>1, NatLessThanWellFounded
<1>3. \A x, y \in Nat : y < x => <<y, x>> \in Less
  OBVIOUS
<1> HIDE DEF Less
<1>4. PICK x \in S : \A y \in S : ~(<<y, x>> \in Less)
  BY <1>2, WFMin
<1>5. ASSUME NEW y \in S PROVE x <= y
  <2>1. x \in Nat /\ y \in Nat /\ ~(y < x)
    BY <1>3, <1>4
  <2> QED
    BY <2>1
<1> QED
  BY <1>5

\* Induction, with a set for what is to be shown.
LEMMA Induction ==
    ASSUME NEW S \in SUBSET Nat, 0 \in S, \A n \in S : n + 1 \in S
    PROVE  S = Nat
<1>1. SUFFICES ASSUME Nat \ S # {} PROVE FALSE
  OBVIOUS
<1>2. PICK x \in Nat \ S : \A y \in Nat \ S : x <= y
  BY <1>1, Least
<1>3. x # 0 /\ x - 1 \in Nat
  BY <1>2
<1>4. x - 1 \in S
  BY <1>2, <1>3
<1> QED
  BY <1>2, <1>3, <1>4

\* Induction over the indices of a sequence.
LEMMA IndexInduction ==
    ASSUME NEW n \in Nat, NEW S \in SUBSET (1 .. n),
           \A i \in 1 .. n : (i # 1 => i - 1 \in S) => i \in S
    PROVE  S = 1 .. n
<1>1. SUFFICES ASSUME (1 .. n) \ S # {} PROVE FALSE
  OBVIOUS
<1>2. PICK x \in (1 .. n) \ S : \A y \in (1 .. n) \ S : x <= y
  <2>1. (1 .. n) \ S \in SUBSET Nat
    OBVIOUS
  <2> QED
    BY <1>1, <2>1, Least
<1>3. x # 1 => x - 1 \in 1 .. n /\ ~(x <= x - 1)
  BY <1>2
<1> QED
  BY <1>2, <1>3

\* Induction over any set, by the size of its elements.
LEMMA SizeInduction ==
    ASSUME NEW D, NEW size \in [D -> Nat], NEW S \in SUBSET D,
           \A d \in D : (\A e \in D : size[e] < size[d] => e \in S) => d \in S
    PROVE  S = D
<1> DEFINE Below == {n \in Nat : \A d \in D : size[d] < n => d \in S}
<1>1. 0 \in Below
  <2>1. \A d \in D : size[d] \in Nat
    OBVIOUS
  <2> QED
    BY <2>1
<1>2. ASSUME NEW n \in Below PROVE n + 1 \in Below
  <2>1. SUFFICES ASSUME NEW d \in D, size[d] < n + 1 PROVE d \in S
    OBVIOUS
  <2>2. ASSUME NEW e \in D, size[e] < size[d] PROVE e \in S
    <3>1. n \in Nat /\ size[d] \in Nat /\ size[e] \in Nat
      OBVIOUS
    <3>2. size[e] < n
      BY <2>1, <2>2, <3>1
    <3> QED
      BY <3>2
  <2> QED
    BY <2>2
<1>3. Below \subseteq Nat
  OBVIOUS
<1>4. Below = Nat
  <2> HIDE DEF Below
  <2> QED
    BY <1>1, <1>2, <1>3, Induction
<1>5. ASSUME NEW d \in D PROVE d \in S
  <2>1. size[d] \in Nat /\ size[d] + 1 \in Nat /\ size[d] < size[d] + 1
    OBVIOUS
  <2>2. size[d] + 1 \in Below
    BY <1>4, <2>1
  <2> QED
    BY <2>1, <2>2
<1> QED
  BY <1>5

\* The parts of a recursive definition on D with values in X: what it is at the
\* elements of stop, the one element it goes on with elsewhere, which is of smaller
\* size, and what it makes of the value there.
Descends(D, X, size, stop, next, base, step) ==
    /\ size \in [D -> Nat] /\ next \in [D -> D]
    /\ base \in [D -> X] /\ step \in [D \X X -> X]
    /\ \A d \in D \ stop : size[next[d]] < size[d]

Solves(f, D, X, stop, next, base, step) ==
    /\ f \in [D -> X]
    /\ \A d \in D : f[d] = IF d \in stop THEN base[d] ELSE step[<<d, f[next[d]]>>]

\* There is a function for such a definition.
LEMMA Recursion ==
    ASSUME NEW D, NEW X, NEW size, NEW stop, NEW next, NEW base, NEW step,
           Descends(D, X, size, stop, next, base, step)
    PROVE  \E f : Solves(f, D, X, stop, next, base, step)
<1> USE DEF Descends
<1> DEFINE Below(n) == {d \in D : size[d] < n}
           Eq(f, d) == f[d] = IF d \in stop THEN base[d] ELSE step[<<d, f[next[d]]>>]
           Approx(f, n) == f \in [Below(n) -> X] /\ \A d \in Below(n) : Eq(f, d)
           Has == {n \in Nat : \E f : Approx(f, n)}
<1>1. 0 \in Has
  <2>1. Approx([d \in {} |-> base[d]], 0)
    OBVIOUS
  <2> QED
    BY <2>1
<1>2. ASSUME NEW n \in Has PROVE n + 1 \in Has
  <2>1. n \in Nat
    OBVIOUS
  <2>2. PICK f : Approx(f, n)
    OBVIOUS
  <2> DEFINE g == [d \in Below(n + 1) |->
                      IF d \in stop THEN base[d] ELSE step[<<d, f[next[d]]>>]]
  <2>3. ASSUME NEW d \in Below(n + 1), d \notin stop
        PROVE  next[d] \in Below(n) /\ next[d] \in Below(n + 1) /\ f[next[d]] \in X
    <3>1. /\ d \in D /\ next[d] \in D /\ size[next[d]] \in Nat /\ size[d] \in Nat
          /\ size[d] < n + 1 /\ size[next[d]] < size[d]
      BY <2>3
    <3>2. next[d] \in Below(n) /\ next[d] \in Below(n + 1)
      BY <2>1, <3>1
    <3> QED
      BY <2>2, <3>2
  <2>4. g \in [Below(n + 1) -> X]
    BY <2>3
  <2>5. ASSUME NEW d \in Below(n) PROVE g[d] = f[d]
    <3>1. d \in Below(n + 1)
      BY <2>1
    <3> QED
      BY <2>2, <3>1
  <2>6. ASSUME NEW d \in Below(n + 1) PROVE Eq(g, d)
    <3>1. CASE d \in stop
      BY <3>1
    <3>2. CASE d \notin stop
      <4>1. g[next[d]] = f[next[d]]
        BY <2>3, <2>5, <3>2
      <4> QED
        BY <3>2, <4>1
    <3> QED
      BY <3>1, <3>2
  <2>7. Approx(g, n + 1)
    BY <2>4, <2>6
  <2> HIDE DEF Approx, g
  <2> QED
    BY <2>1, <2>7
<1>3. Has = Nat
  <2> HIDE DEF Has
  <2>1. Has \subseteq Nat
    BY DEF Has
  <2> QED
    BY <1>1, <1>2, <2>1, Induction
<1>4. ASSUME NEW m \in Nat, NEW n \in Nat, NEW f, NEW g, Approx(f, m), Approx(g, n),
             NEW d \in D, size[d] < m, size[d] < n
      PROVE  f[d] = g[d]
  <2> DEFINE Same == {k \in Nat : \A e \in D : size[e] < k /\ size[e] < m /\ size[e] < n => f[e] = g[e]}
  <2>1. 0 \in Same
    <3>1. ASSUME NEW e \in D PROVE ~(size[e] < 0)
      <4>1. size[e] \in Nat
        OBVIOUS
      <4> HIDE DEF Same
      <4> QED
        BY <4>1
    <3> QED
      BY <3>1
  <2>2. ASSUME NEW k \in Same PROVE k + 1 \in Same
    <3>1. SUFFICES ASSUME NEW e \in D, size[e] < k + 1, size[e] < m, size[e] < n
                   PROVE  f[e] = g[e]
      OBVIOUS
    <3>2. Eq(f, e) /\ Eq(g, e)
      BY <1>4, <3>1
    <3>3. CASE e \in stop
      BY <3>2, <3>3
    <3>4. CASE e \notin stop
      <4>1. /\ next[e] \in D /\ size[next[e]] \in Nat /\ size[e] \in Nat /\ k \in Nat
            /\ size[next[e]] < size[e]
        BY <3>4
      <4>2. size[next[e]] < k /\ size[next[e]] < m /\ size[next[e]] < n
        BY <3>1, <4>1
      <4>3. f[next[e]] = g[next[e]]
        BY <4>1, <4>2
      <4> QED
        BY <3>2, <3>4, <4>3
    <3> QED
      BY <3>3, <3>4
  <2>3. Same = Nat
    <3> HIDE DEF Same
    <3>1. Same \subseteq Nat
      BY DEF Same
    <3> QED
      BY <2>1, <2>2, <3>1, Induction
  <2>4. size[d] + 1 \in Same /\ size[d] < size[d] + 1
    <3>1. size[d] + 1 \in Nat /\ size[d] < size[d] + 1
      OBVIOUS
    <3> HIDE DEF Same
    <3> QED
      BY <2>3, <3>1
  <2> QED
    BY <1>4, <2>4
<1> DEFINE near == [d \in D |-> CHOOSE f : Approx(f, size[d] + 1)]
           h == [d \in D |-> near[d][d]]
<1>5. ASSUME NEW d \in D PROVE Approx(near[d], size[d] + 1) /\ d \in Below(size[d] + 1)
  <2>1. size[d] \in Nat /\ size[d] + 1 \in Nat /\ size[d] < size[d] + 1
    OBVIOUS
  <2>2. \E f : Approx(f, size[d] + 1)
    BY <1>3, <2>1
  <2>3. Approx(CHOOSE f : Approx(f, size[d] + 1), size[d] + 1)
    <3> HIDE DEF Approx
    <3> QED
      BY <2>2
  <2> HIDE DEF Approx
  <2> QED
    BY <2>1, <2>3
<1>6. h \in [D -> X]
  <2>1. ASSUME NEW d \in D PROVE near[d][d] \in X
    <3> HIDE DEF near, Below
    <3> QED
      BY <1>5
  <2> HIDE DEF near
  <2> QED
    BY <2>1
<1>7. ASSUME NEW d \in D PROVE Eq(h, d)
  <2>1. Eq(near[d], d)
    <3> HIDE DEF near, Below, Eq
    <3> QED
      BY <1>5
  <2>2. CASE d \in stop
    <3> HIDE DEF near
    <3> QED
      BY <2>1, <2>2
  <2>3. CASE d \notin stop
    <3> DEFINE e == next[d]
    <3>1. e \in D /\ size[e] \in Nat /\ size[d] \in Nat /\ size[e] < size[d]
      BY <2>3
    <3>2. near[d][e] = near[e][e]
      <4>1. Approx(near[d], size[d] + 1) /\ Approx(near[e], size[e] + 1)
        BY <1>5, <3>1
      <4>2. /\ size[d] + 1 \in Nat /\ size[e] + 1 \in Nat
            /\ size[e] < size[d] + 1 /\ size[e] < size[e] + 1
        BY <3>1
      <4> HIDE DEF near, Approx, e
      <4> QED
        BY <1>4, <3>1, <4>1, <4>2
    <3>3. h[e] = near[e][e] /\ h[d] = near[d][d]
      BY <3>1
    <3> HIDE DEF near, h
    <3> QED
      BY <2>1, <2>3, <3>2, <3>3
  <2> QED
    BY <2>2, <2>3
<1> HIDE DEF h
<1> QED
  BY <1>6, <1>7 DEF Solves

=============================================================================
