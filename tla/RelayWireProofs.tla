-------------------------- MODULE RelayWireProofs --------------------------
(***************************************************************************)
(* What RelayCodec reads of the bytes it wrote, for bytes and words of any *)
(* width: varints, fields, and the messages that are made field by field.  *)
(* Every piece of an encoding is looked at twice, as data that has all of  *)
(* it and as data that ends in it.                                         *)
(***************************************************************************)
EXTENDS RelayCodec, NaturalRecursion, SequenceTheorems

-----------------------------------------------------------------------------
(* Powers of two                                                           *)

\* The function that TwoTo chooses exists.
LEMMA TwoToDef == \A n \in Nat : TwoTo[n] = IF n = 0 THEN 1 ELSE 2 * TwoTo[n - 1]
<1> DEFINE Def(f) == f = [n \in Nat |-> IF n = 0 THEN 1 ELSE 2 * f[n - 1]]
           size == [n \in Nat |-> n]
           next == [n \in Nat |-> IF n = 0 THEN 0 ELSE n - 1]
           base == [n \in Nat |-> 1]
           step == [p \in Nat \X Nat |-> 2 * p[2]]
           stop == {0}
<1>1. Descends(Nat, Nat, size, stop, next, base, step)
  BY DEF Descends
<1>2. PICK f : Solves(f, Nat, Nat, stop, next, base, step)
  BY <1>1, Recursion
<1>3. f \in [Nat -> Nat] /\ \A n \in Nat : f[n] = IF n = 0 THEN 1 ELSE 2 * f[n - 1]
  <2>1. f \in [Nat -> Nat]
    BY <1>2 DEF Solves
  <2>2. ASSUME NEW n \in Nat PROVE f[n] = IF n = 0 THEN 1 ELSE 2 * f[n - 1]
    <3>1. f[n] = IF n = 0 THEN 1 ELSE step[<<n, f[next[n]]>>]
      BY <1>2 DEF Solves
    <3>2. n # 0 => next[n] = n - 1 /\ f[n - 1] \in Nat
      BY <2>1
    <3> QED
      BY <3>1, <3>2
  <2> QED
    BY <2>1, <2>2
<1>4. Def(f)
  BY <1>3
<1>5. TwoTo = CHOOSE g : Def(g)
  BY Zenon DEF TwoTo
<1> HIDE DEF Def
<1>6. Def(TwoTo)
  BY <1>4, <1>5
<1> QED
  BY <1>6 DEF Def

\* Powers of two are positive.
LEMMA TwoToType == \A n \in Nat : TwoTo[n] \in Nat /\ TwoTo[n] > 0
<1> DEFINE S == {n \in Nat : TwoTo[n] \in Nat /\ TwoTo[n] > 0}
<1>1. 0 \in S
  BY TwoToDef
<1>2. ASSUME NEW n \in S PROVE n + 1 \in S
  <2>1. TwoTo[n + 1] = 2 * TwoTo[n]
    BY TwoToDef
  <2> QED
    BY <2>1
<1>3. S \subseteq Nat
  OBVIOUS
<1>4. S = Nat
  <2> HIDE DEF S
  <2> QED
    BY <1>1, <1>2, <1>3, Induction
<1> QED
  BY <1>4

\* Exponents add up.
LEMMA TwoToSum ==
    ASSUME NEW m \in Nat
    PROVE  \A n \in Nat : TwoTo[m + n] = TwoTo[m] * TwoTo[n]
<1> DEFINE S == {n \in Nat : TwoTo[m + n] = TwoTo[m] * TwoTo[n]}
<1>1. 0 \in S
  BY TwoToDef, TwoToType
<1>2. ASSUME NEW n \in S PROVE n + 1 \in S
  <2>1. TwoTo[n + 1] = 2 * TwoTo[n] /\ TwoTo[m + (n + 1)] = 2 * TwoTo[m + n]
    BY TwoToDef
  <2>2. TwoTo[m] \in Nat /\ TwoTo[n] \in Nat
    BY TwoToType
  <2>3. TwoTo[m + n] = TwoTo[m] * TwoTo[n]
    OBVIOUS
  <2>4. \A a, b \in Nat : 2 * (a * b) = a * (2 * b)
    OBVIOUS
  <2> HIDE DEF S
  <2>5. TwoTo[m + (n + 1)] = TwoTo[m] * TwoTo[n + 1]
    BY <2>1, <2>2, <2>3, <2>4
  <2> QED
    BY <2>5 DEF S
<1>3. S \subseteq Nat
  OBVIOUS
<1>4. S = Nat
  <2> HIDE DEF S
  <2> QED
    BY <1>1, <1>2, <1>3, Induction
<1> QED
  BY <1>4

\* Powers of two grow with their exponent.
LEMMA TwoToGrows == ASSUME NEW m \in Nat, NEW n \in Nat, m <= n PROVE TwoTo[m] <= TwoTo[n]
<1>1. TwoTo[m + (n - m)] = TwoTo[m] * TwoTo[n - m] /\ m + (n - m) = n
  BY TwoToSum
<1>2. TwoTo[m] \in Nat /\ TwoTo[n - m] \in Nat /\ TwoTo[n - m] >= 1
  BY TwoToType
<1>3. \A a, b \in Nat : b >= 1 => a <= a * b
  OBVIOUS
<1> QED
  BY <1>1, <1>2, <1>3

\* The sizes of bytes and words, from WidthAssumption.
LEMMA Widths ==
    /\ Group \in Nat /\ Group >= 4
    /\ Word \in Nat /\ Word >= 128 /\ Word = 2 * (Word \div 2)
    /\ MaxBytes \in Nat /\ MaxBytes >= 2 /\ WordBits <= MaxBytes * GroupBits
<1>1. TwoTo[2] = 4
  BY TwoToDef
<1>2. TwoTo[7] = 128
  <2>1. TwoTo[3] = 8 /\ TwoTo[4] = 16
    BY <1>1, TwoToDef
  <2> QED
    BY <2>1, TwoToDef
<1>3. Group \in Nat /\ Group >= 4
  BY <1>1, TwoToGrows, TwoToType, WidthAssumption DEF Group
<1>4. Word \in Nat /\ Word >= 128
  BY <1>2, TwoToGrows, TwoToType, WidthAssumption DEF Word
<1>5. Word = 2 * TwoTo[WordBits - 1] /\ TwoTo[WordBits - 1] \in Nat
  BY TwoToDef, TwoToType, WidthAssumption DEF Word
<1>6. \A h \in Nat : (2 * h) \div 2 = h
  OBVIOUS
<1>7. Word = 2 * (Word \div 2)
  BY <1>5, <1>6
<1>8. MaxBytes \in Nat /\ WordBits <= MaxBytes * GroupBits /\ MaxBytes >= 2
  <2>1. ASSUME NEW w \in Nat, NEW g \in Nat, g >= 2, w > g
        PROVE  LET q == (w + g - 1) \div g IN q \in Nat /\ w <= q * g /\ q >= 2
    <3> DEFINE q == (w + g - 1) \div g
               r == (w + g - 1) % g
    <3>1. q \in Int /\ r \in 0 .. g - 1 /\ w + g - 1 = (g * q) + r
      BY <2>1
    <3>2. w <= g * q
      <4> HIDE DEF q, r
      <4> QED
        BY <2>1, <3>1
    <3>3. q >= 2
      <4> HIDE DEF q, r
      <4>1. q <= 1 => g * q <= g
        BY <2>1, <3>1
      <4> QED
        BY <2>1, <3>1, <3>2, <4>1
    <3>4. q * g = g * q
      <4> HIDE DEF q, r
      <4> QED
        BY <3>1
    <3> QED
      BY <3>1, <3>2, <3>3, <3>4
  <2> QED
    BY <2>1, WidthAssumption DEF MaxBytes
<1> QED
  BY <1>3, <1>4, <1>7, <1>8

-----------------------------------------------------------------------------
(* Pieces of the data                                                      *)

\* The data has s at the offset.
Holds(data, at, s) ==
    /\ at + Len(s) <= Len(data)
    /\ \A i \in 1 .. Len(s) : data[at + i] = s[i]

\* The data ends inside s, which starts at the offset.
Cut(data, at, s) ==
    /\ at <= Len(data) /\ Len(data) < at + Len(s)
    /\ \A i \in 1 .. Len(data) - at : data[at + i] = s[i]

\* Data that has two pieces in a row has each of them.
LEMMA HoldsConcat ==
    ASSUME NEW data \in Seq(Byte), NEW at \in Nat, NEW s \in Seq(Byte), NEW t \in Seq(Byte),
           Holds(data, at, s \o t)
    PROVE  Holds(data, at, s) /\ Holds(data, at + Len(s), t)
<1>1. /\ Len(s \o t) = Len(s) + Len(t) /\ Len(s) \in Nat /\ Len(t) \in Nat /\ Len(data) \in Nat
      /\ at + Len(s) + Len(t) <= Len(data)
  BY DEF Holds
<1>2. ASSUME NEW i \in 1 .. Len(s) PROVE data[at + i] = s[i]
  <2>1. i \in 1 .. Len(s \o t) /\ (s \o t)[i] = s[i]
    BY <1>1
  <2> QED
    BY <2>1 DEF Holds
<1>3. ASSUME NEW i \in 1 .. Len(t) PROVE data[at + Len(s) + i] = t[i]
  <2>1. Len(s) + i \in 1 .. Len(s \o t) /\ (s \o t)[Len(s) + i] = t[i]
    BY <1>1
  <2>2. at + Len(s) + i = at + (Len(s) + i)
    BY <1>1
  <2> QED
    BY <2>1, <2>2 DEF Holds
<1> QED
  BY <1>1, <1>2, <1>3 DEF Holds

\* Data that ends in two pieces ends in the first, or has it and ends in the second.
LEMMA CutConcat ==
    ASSUME NEW data \in Seq(Byte), NEW at \in Nat, NEW s \in Seq(Byte), NEW t \in Seq(Byte),
           Cut(data, at, s \o t)
    PROVE  Cut(data, at, s) \/ (Holds(data, at, s) /\ Cut(data, at + Len(s), t))
<1>1. /\ Len(s \o t) = Len(s) + Len(t) /\ Len(s) \in Nat /\ Len(t) \in Nat /\ Len(data) \in Nat
      /\ at <= Len(data) /\ Len(data) < at + Len(s) + Len(t)
  BY DEF Cut
<1>2. ASSUME NEW i \in 1 .. Len(s), i <= Len(data) - at PROVE data[at + i] = s[i]
  <2>1. i \in 1 .. Len(data) - at /\ (s \o t)[i] = s[i]
    BY <1>1, <1>2
  <2> QED
    BY <2>1 DEF Cut
<1>3. ASSUME NEW i \in 1 .. Len(data) - (at + Len(s)) PROVE data[at + Len(s) + i] = t[i]
  <2>1. Len(s) + i \in 1 .. Len(data) - at /\ (s \o t)[Len(s) + i] = t[i]
    BY <1>1
  <2>2. at + Len(s) + i = at + (Len(s) + i)
    BY <1>1
  <2> QED
    BY <2>1, <2>2 DEF Cut
<1>4. CASE Len(data) < at + Len(s)
  BY <1>1, <1>2, <1>4 DEF Cut
<1>5. CASE ~(Len(data) < at + Len(s))
  <2>1. at + Len(s) <= Len(data) /\ \A i \in 1 .. Len(s) : i <= Len(data) - at
    BY <1>1, <1>5
  <2>2. Holds(data, at, s)
    BY <1>2, <2>1 DEF Holds
  <2>3. Cut(data, at + Len(s), t)
    BY <1>1, <1>3, <2>1 DEF Cut
  <2> QED
    BY <2>2, <2>3
<1> QED
  BY <1>4, <1>5

\* The bytes that a field has are the ones between its ends.
LEMMA HoldsSlice ==
    ASSUME NEW data \in Seq(Byte), NEW at \in Nat, NEW s \in Seq(Byte), Holds(data, at, s)
    PROVE  SubSeq(data, at + 1, at + Len(s)) = s
<1>1. Len(s) \in Nat /\ Len(data) \in Nat /\ at + Len(s) <= Len(data)
  BY DEF Holds
<1> DEFINE p == SubSeq(data, at + 1, at + Len(s))
<1>2. /\ p \in Seq(Byte) /\ Len(p) = Len(s)
      /\ \A i \in 1 .. Len(s) : p[i] = data[at + i]
  BY <1>1
<1>3. \A i \in 1 .. Len(s) : p[i] = s[i]
  BY <1>2 DEF Holds
<1> HIDE DEF p
<1> QED
  BY <1>2, <1>3, SeqEqual DEF p

\* Of bytes that were cut, as many as there are.
LEMMA CutSlice ==
    ASSUME NEW data \in Seq(Byte), NEW at \in Nat, NEW s \in Seq(Byte), Cut(data, at, s)
    PROVE  SubSeq(data, at + 1, Len(data)) = SubSeq(s, 1, Len(data) - at)
<1>1. Len(s) \in Nat /\ Len(data) \in Nat /\ at <= Len(data) /\ Len(data) < at + Len(s)
  BY DEF Cut
<1> DEFINE p == SubSeq(data, at + 1, Len(data))
           q == SubSeq(s, 1, Len(data) - at)
<1>2. /\ p \in Seq(Byte) /\ Len(p) = Len(data) - at
      /\ \A i \in 1 .. Len(data) - at : p[i] = data[at + i]
  BY <1>1
<1>3. /\ q \in Seq(Byte) /\ Len(q) = Len(data) - at
      /\ \A i \in 1 .. Len(data) - at : q[i] = s[i]
  BY <1>1
<1>4. \A i \in 1 .. Len(data) - at : p[i] = q[i]
  BY <1>2, <1>3 DEF Cut
<1> HIDE DEF p, q
<1> QED
  BY <1>2, <1>3, <1>4, SeqEqual DEF p, q

\* A piece is in itself.
LEMMA HoldsItself == ASSUME NEW s \in Seq(Byte) PROVE Holds(s, 0, s)
BY DEF Holds

\* A proper prefix of a piece ends in it.
LEMMA PrefixCut ==
    ASSUME NEW s \in Seq(Byte), NEW n \in 0 .. Len(s), n # Len(s)
    PROVE  SubSeq(s, 1, n) \in Seq(Byte) /\ Cut(SubSeq(s, 1, n), 0, s)
<1> DEFINE p == SubSeq(s, 1, n)
<1>1. p \in Seq(Byte) /\ Len(p) = n /\ \A i \in 1 .. n : p[i] = s[i]
  OBVIOUS
<1> HIDE DEF p
<1>2. Cut(p, 0, s)
  BY <1>1 DEF Cut
<1> QED
  BY <1>1, <1>2 DEF p

-----------------------------------------------------------------------------
(* Varints                                                                 *)

\* A number is its lowest group and the groups above it.
LEMMA Groups ==
    ASSUME NEW n \in Nat
    PROVE  /\ n \div Group \in Nat /\ n % Group \in 0 .. Group - 1
           /\ n = (n % Group) + Group * (n \div Group)
           /\ n >= Group => n \div Group < n
<1> DEFINE q == n \div Group
           r == n % Group
<1>1. Group \in Nat /\ Group >= 4
  BY Widths
<1>2. q \in Int /\ r \in 0 .. Group - 1 /\ n = (Group * q) + r
  BY <1>1
<1> HIDE DEF q, r
<1>3. q >= 0
  <2>1. q <= -1 => Group * q <= -Group
    BY <1>1, <1>2
  <2> QED
    BY <1>1, <1>2, <2>1
<1>4. q <= Group * q /\ (q >= 1 => q < Group * q)
  BY <1>1, <1>2, <1>3
<1>5. n >= Group => q < n
  BY <1>1, <1>2, <1>3, <1>4
<1>6. q \in Nat /\ r \in 0 .. Group - 1 /\ n = r + Group * q /\ (n >= Group => q < n)
  BY <1>1, <1>2, <1>3, <1>5
<1> QED
  BY <1>6 DEF q, r

\* A group is a byte, with and without the mark.
LEMMA GroupBytes == ASSUME NEW r \in 0 .. Group - 1 PROVE r \in Byte /\ Group + r \in Byte
BY Widths DEF Byte

\* A byte before others.
LEMMA ByteAndMore ==
    ASSUME NEW b \in Byte, NEW s \in Seq(Byte)
    PROVE  /\ <<b>> \in Seq(Byte) /\ Len(<<b>>) = 1 /\ <<b>>[1] = b
           /\ <<b>> \o s \in Seq(Byte) /\ Len(<<b>> \o s) = 1 + Len(s)
OBVIOUS

\* The function that Varint chooses exists.
LEMMA VarintDef ==
    /\ Varint \in [Nat -> Seq(Byte)]
    /\ \A n \in Nat : Varint[n] = IF n < Group THEN <<n>>
                                  ELSE <<Group + (n % Group)>> \o Varint[n \div Group]
<1> DEFINE Def(f) == f = [n \in Nat |-> IF n < Group THEN <<n>>
                                        ELSE <<Group + (n % Group)>> \o f[n \div Group]]
           size == [n \in Nat |-> n]
           stop == {n \in Nat : n < Group}
           next == [n \in Nat |-> n \div Group]
           base == [n \in Nat |-> IF n < Group THEN <<n>> ELSE <<>>]
           step == [p \in Nat \X Seq(Byte) |-> <<Group + (p[1] % Group)>> \o p[2]]
<1>1. Descends(Nat, Seq(Byte), size, stop, next, base, step)
  <2>1. size \in [Nat -> Nat] /\ next \in [Nat -> Nat]
    BY Groups
  <2>2. base \in [Nat -> Seq(Byte)]
    <3>1. ASSUME NEW n \in Nat, n < Group PROVE <<n>> \in Seq(Byte)
      <4>1. n \in Byte
        BY <3>1, Widths DEF Byte
      <4> QED
        BY <4>1
    <3> QED
      BY <3>1
  <2>3. step \in [Nat \X Seq(Byte) -> Seq(Byte)]
    <3>1. ASSUME NEW n \in Nat, NEW s \in Seq(Byte)
          PROVE  <<Group + (n % Group)>> \o s \in Seq(Byte)
      <4>1. Group + (n % Group) \in Byte
        BY Groups, GroupBytes
      <4> QED
        BY <4>1
    <3> QED
      BY <3>1
  <2>4. \A n \in Nat \ stop : size[next[n]] < size[n]
    <3> SUFFICES ASSUME NEW n \in Nat, n >= Group PROVE n \div Group \in Nat /\ n \div Group < n
      BY Widths
    <3> QED
      BY Groups
  <2> HIDE DEF size, stop, next, base, step
  <2> QED
    BY <2>1, <2>2, <2>3, <2>4 DEF Descends
<1>2. PICK f : Solves(f, Nat, Seq(Byte), stop, next, base, step)
  <2> HIDE DEF size, stop, next, base, step
  <2> QED
    BY <1>1, Recursion
<1>3. f \in [Nat -> Seq(Byte)]
  BY <1>2 DEF Solves
<1>4. ASSUME NEW n \in Nat
      PROVE  f[n] = IF n < Group THEN <<n>> ELSE <<Group + (n % Group)>> \o f[n \div Group]
  <2>1. f[n] = IF n \in stop THEN base[n] ELSE step[<<n, f[next[n]]>>]
    <3> HIDE DEF stop, next, base, step
    <3> QED
      BY <1>2 DEF Solves
  <2>2. next[n] = n \div Group /\ f[n \div Group] \in Seq(Byte)
    BY <1>3, Groups
  <2>3. step[<<n, f[n \div Group]>>] = <<Group + (n % Group)>> \o f[n \div Group]
    BY <2>2
  <2>4. n \in stop <=> n < Group
    OBVIOUS
  <2>5. n < Group => base[n] = <<n>>
    OBVIOUS
  <2> HIDE DEF stop, next, base, step
  <2> QED
    BY <2>1, <2>2, <2>3, <2>4, <2>5
<1>5. Def(f)
  <2> HIDE DEF stop, next, base, step
  <2> QED
    BY <1>3, <1>4
<1>6. Varint = CHOOSE g : Def(g)
  BY Zenon DEF Varint
<1>7. Def(Varint)
  <2> HIDE DEF Def
  <2> QED
    BY <1>5, <1>6
<1>8. {n \in Nat : Varint[n] \in Seq(Byte)} = Nat
  <2> DEFINE S == {n \in Nat : Varint[n] \in Seq(Byte)}
  <2>1. ASSUME NEW n \in Nat, \A k \in Nat : size[k] < size[n] => k \in S PROVE n \in S
    <3>1. Varint[n] = IF n < Group THEN <<n>> ELSE <<Group + (n % Group)>> \o Varint[n \div Group]
      BY <1>7
    <3>2. CASE n < Group
      <4>1. n \in Byte
        BY <3>2, GroupBytes, Widths
      <4>2. Varint[n] = <<n>>
        BY <3>1, <3>2
      <4>3. <<n>> \in Seq(Byte)
        BY <4>1, ByteAndMore
      <4> QED
        BY Zenon, <4>2, <4>3
    <3>3. CASE n >= Group
      <4>1. n \div Group \in S
        BY <2>1, <3>3, Groups
      <4>2. Group + (n % Group) \in Byte
        BY Groups, GroupBytes
      <4>3. Varint[n] = <<Group + (n % Group)>> \o Varint[n \div Group]
        BY <3>1, <3>3, Widths
      <4>4. Varint[n \div Group] \in Seq(Byte)
        BY <4>1
      <4>5. <<Group + (n % Group)>> \o Varint[n \div Group] \in Seq(Byte)
        BY <4>2, <4>4, ByteAndMore
      <4> QED
        BY Zenon, <4>3, <4>5
    <3> QED
      BY <3>2, <3>3, Widths
  <2>2. size \in [Nat -> Nat]
    OBVIOUS
  <2> HIDE DEF S, size
  <2>3. S \subseteq Nat
    BY DEF S
  <2>4. S = Nat
    BY <2>1, <2>2, <2>3, SizeInduction
  <2> QED
    BY <2>4 DEF S
<1> QED
  BY <1>7, <1>8

\* The length of a varint is what the number needs.
LEMMA VarintLength ==
    \A k \in Nat : \A v \in Nat :
        v < TwoTo[(k + 1) * GroupBits] => Len(Varint[v]) \in 1 .. k + 1
<1> DEFINE bound(k) == TwoTo[(k + 1) * GroupBits]
           S == {k \in Nat : \A v \in Nat : v < bound(k) => Len(Varint[v]) \in 1 .. k + 1}
<1>1. ASSUME NEW v \in Nat, v < Group PROVE Len(Varint[v]) = 1
  <2>1. Varint[v] = <<v>>
    BY <1>1, VarintDef
  <2> QED
    BY <2>1
<1>2. bound(0) = Group
  <2>1. (0 + 1) * GroupBits = GroupBits
    BY WidthAssumption
  <2> QED
    BY <2>1 DEF Group
<1>3. ASSUME NEW k \in Nat PROVE bound(k + 1) = bound(k) * Group /\ bound(k) \in Nat
  <2>1. /\ (k + 1) * GroupBits \in Nat /\ GroupBits \in Nat
        /\ ((k + 1) + 1) * GroupBits = (k + 1) * GroupBits + GroupBits
    BY WidthAssumption
  <2> QED
    BY <2>1, TwoToSum, TwoToType DEF Group
<1> HIDE DEF bound
<1>4. 0 \in S
  <2>1. ASSUME NEW v \in Nat, v < bound(0) PROVE Len(Varint[v]) \in 1 .. 0 + 1
    <3>1. v < Group
      BY <1>2, <2>1
    <3>2. Len(Varint[v]) = 1
      BY <1>1, <3>1
    <3> QED
      BY <3>2
  <2> QED
    BY <2>1
<1>5. ASSUME NEW k \in S PROVE k + 1 \in S
  <2>1. SUFFICES ASSUME NEW v \in Nat, v < bound(k + 1)
                 PROVE  Len(Varint[v]) \in 1 .. (k + 1) + 1
    OBVIOUS
  <2>2. CASE v < Group
    <3>1. Len(Varint[v]) = 1
      BY <1>1, <2>2
    <3>2. k \in Nat
      OBVIOUS
    <3> HIDE DEF S
    <3> QED
      BY <3>1, <3>2
  <2>3. CASE v >= Group
    <3> DEFINE q == v \div Group
    <3>1. q \in Nat /\ Group * q <= v /\ v % Group \in 0 .. Group - 1
      <4>1. \A r \in Nat, p \in Nat : v = r + p => p <= v
        OBVIOUS
      <4>2. q \in Nat /\ v % Group \in 0 .. Group - 1 /\ v = (v % Group) + Group * q
        BY Groups
      <4>3. Group * q \in Nat /\ v % Group \in Nat
        BY <4>2, Widths
      <4> HIDE DEF q
      <4> QED
        BY <4>1, <4>2, <4>3
    <3>2. bound(k + 1) = bound(k) * Group /\ bound(k) \in Nat
      BY <1>3
    <3>3. q < bound(k)
      <4>1. ASSUME NEW a \in Nat, NEW b \in Nat, NEW c \in Nat, a >= b PROVE b * c <= c * a
        BY <4>1
      <4>2. Group \in Nat
        BY Widths
      <4>3. q >= bound(k) => bound(k) * Group <= Group * q
        BY <3>1, <3>2, <4>1, <4>2
      <4>4. bound(k) * Group \in Nat /\ Group * q \in Nat
        BY <3>1, <3>2, <4>2
      <4> HIDE DEF q
      <4> QED
        BY <2>1, <3>1, <3>2, <4>3, <4>4
    <3>4. Len(Varint[q]) \in 1 .. k + 1
      BY <3>1, <3>3
    <3>5. Varint[v] = <<Group + (v % Group)>> \o Varint[q]
      <4>1. ~(v < Group)
        BY <2>3, Widths
      <4> QED
        BY <4>1, VarintDef
    <3>6. Len(Varint[v]) = 1 + Len(Varint[q])
      <4>1. Group + (v % Group) \in Byte /\ Varint[q] \in Seq(Byte)
        BY <3>1, GroupBytes, VarintDef
      <4> HIDE DEF q
      <4> QED
        BY <3>5, <4>1, ByteAndMore
    <3> HIDE DEF q
    <3> QED
      BY <3>4, <3>6
  <2> QED
    BY <2>2, <2>3, Widths
<1>6. S \subseteq Nat
  OBVIOUS
<1>7. S = Nat
  <2> HIDE DEF S
  <2> QED
    BY <1>4, <1>5, <1>6, Induction
<1> QED
  BY <1>7 DEF bound

\* The varint of a word has at most MaxBytes bytes.
LEMMA VarintFits ==
    ASSUME NEW v \in Nat, v < Word
    PROVE  Varint[v] \in Seq(Byte) /\ Len(Varint[v]) \in 1 .. MaxBytes
<1>1. MaxBytes - 1 \in Nat /\ (MaxBytes - 1) + 1 = MaxBytes
  BY Widths
<1>2. Word <= TwoTo[MaxBytes * GroupBits] /\ TwoTo[MaxBytes * GroupBits] \in Nat
  <2>1. MaxBytes * GroupBits \in Nat
    BY Widths, WidthAssumption
  <2> QED
    BY <2>1, TwoToGrows, TwoToType, Widths, WidthAssumption DEF Word
<1>3. v < TwoTo[((MaxBytes - 1) + 1) * GroupBits]
  BY <1>1, <1>2, Widths
<1>4. Len(Varint[v]) \in 1 .. (MaxBytes - 1) + 1
  BY <1>1, <1>3, VarintLength
<1> QED
  BY <1>1, <1>4, VarintDef

\* What reading a number can give: it reads at least one byte.
Numbers(at) == {Refused} \cup {r \in [ok : {TRUE}, value : Nat, next : Nat] : r.next > at}

\* What a byte and the rest make.
Prepend(byte, next, more) ==
    IF byte < Group THEN [ok |-> TRUE, value |-> byte, next |-> next]
    ELSE IF more.ok THEN [more EXCEPT !.value = (byte - Group) + Group * @]
    ELSE Refused

\* A byte and the rest are a number again.
LEMMA PrependType ==
    ASSUME NEW at \in Nat, NEW byte \in Byte, NEW next \in Nat, next > at,
           NEW more \in Numbers(at)
    PROVE  Prepend(byte, next, more) \in Numbers(at)
<1>1. byte \in Nat /\ Group \in Nat
  BY Widths DEF Byte
<1>2. CASE byte < Group
  BY <1>1, <1>2 DEF Prepend, Numbers
<1>3. CASE ~(byte < Group) /\ ~more.ok
  BY <1>3 DEF Prepend, Numbers
<1>4. CASE ~(byte < Group) /\ more.ok
  <2>1. more \in [ok : {TRUE}, value : Nat, next : Nat] /\ more.next > at
    <3>1. more # Refused
      BY <1>4 DEF Refused
    <3> QED
      BY <3>1 DEF Numbers
  <2>2. (byte - Group) + Group * more.value \in Nat
    <3>1. \A a, b, c \in Nat : (a + b * c) \in Nat
      OBVIOUS
    <3>2. byte - Group \in Nat
      BY <1>1, <1>4
    <3> QED
      BY <1>1, <2>1, <3>1, <3>2
  <2>3. [more EXCEPT !.value = (byte - Group) + Group * @]
          = [more EXCEPT !.value = (byte - Group) + Group * more.value]
    BY <2>1
  <2> QED
    BY <1>4, <2>1, <2>2, <2>3 DEF Prepend, Numbers
<1> QED
  BY <1>2, <1>3, <1>4

\* The function that VarintFrom chooses exists.
LEMMA VarintFromDef ==
    ASSUME NEW data \in Seq(Byte), NEW at \in Nat
    PROVE  \A i \in Nat :
              /\ VarintFrom(data, at)[i] \in Numbers(at)
              /\ VarintFrom(data, at)[i] =
                    IF i >= MaxBytes \/ at + i >= Len(data) THEN Refused
                    ELSE Prepend(data[at + i + 1], at + i + 1, VarintFrom(data, at)[i + 1])
<1> DEFINE ends(i) == i >= MaxBytes \/ at + i >= Len(data)
           Def(f) == f = [i \in Nat |->
                            IF i >= MaxBytes \/ at + i >= Len(data) THEN Refused
                            ELSE LET byte == data[at + i + 1]
                                     more == f[i + 1]
                                 IN  IF byte < Group
                                     THEN [ok |-> TRUE, value |-> byte, next |-> at + i + 1]
                                     ELSE IF more.ok
                                     THEN [more EXCEPT !.value = (byte - Group) + Group * @]
                                     ELSE Refused]
           Eq(f, i) == f[i] = IF ends(i) THEN Refused
                              ELSE Prepend(data[at + i + 1], at + i + 1, f[i + 1])
           size == [i \in Nat |-> IF i < MaxBytes THEN MaxBytes - i ELSE 0]
           stop == {i \in Nat : ends(i)}
           next == [i \in Nat |-> i + 1]
           base == [i \in Nat |-> Refused]
           step == [p \in Nat \X Numbers(at) |->
                      IF ends(p[1]) THEN Refused
                      ELSE Prepend(data[at + p[1] + 1], at + p[1] + 1, p[2])]
<1>1. Len(data) \in Nat /\ MaxBytes \in Nat
  BY Widths
<1>2. ASSUME NEW i \in Nat, ~ends(i), NEW more \in Numbers(at)
      PROVE  Prepend(data[at + i + 1], at + i + 1, more) \in Numbers(at)
  <2>1. at + i + 1 \in 1 .. Len(data) /\ at + i + 1 > at
    BY <1>1, <1>2
  <2>2. data[at + i + 1] \in Byte /\ at + i + 1 \in Nat
    BY <2>1
  <2> QED
    BY <2>1, <2>2, PrependType
<1>3. Refused \in Numbers(at)
  BY DEF Numbers
<1>4. Descends(Nat, Numbers(at), size, stop, next, base, step)
  <2>1. size \in [Nat -> Nat] /\ next \in [Nat -> Nat]
    BY <1>1
  <2>2. base \in [Nat -> Numbers(at)]
    BY <1>3
  <2>3. step \in [Nat \X Numbers(at) -> Numbers(at)]
    <3> HIDE DEF ends
    <3> QED
      BY <1>2, <1>3
  <2>4. \A i \in Nat \ stop : size[next[i]] < size[i]
    <3>1. ASSUME NEW i \in Nat \ stop PROVE size[next[i]] < size[i]
      <4>1. i \in Nat /\ i < MaxBytes
        BY <1>1
      <4>2. size[i] = MaxBytes - i /\ next[i] = i + 1
        BY <4>1
      <4>3. size[i + 1] = IF i + 1 < MaxBytes THEN MaxBytes - (i + 1) ELSE 0
        BY <4>1
      <4> HIDE DEF size, next, stop
      <4> QED
        BY <1>1, <4>1, <4>2, <4>3
    <3> QED
      BY <3>1
  <2> HIDE DEF size, stop, next, base, step
  <2> QED
    BY <2>1, <2>2, <2>3, <2>4 DEF Descends
<1>5. PICK f : Solves(f, Nat, Numbers(at), stop, next, base, step)
  <2> HIDE DEF size, stop, next, base, step
  <2> QED
    BY <1>4, Recursion
<1>6. f \in [Nat -> Numbers(at)]
  BY <1>5 DEF Solves
<1>7. ASSUME NEW i \in Nat PROVE Eq(f, i)
  <2>1. f[i] = IF i \in stop THEN base[i] ELSE step[<<i, f[next[i]]>>]
    <3> HIDE DEF stop, next, base, step
    <3> QED
      BY <1>5 DEF Solves
  <2>2. next[i] = i + 1 /\ f[i + 1] \in Numbers(at) /\ base[i] = Refused
    BY <1>6
  <2>3. step[<<i, f[i + 1]>>] =
          IF ends(i) THEN Refused ELSE Prepend(data[at + i + 1], at + i + 1, f[i + 1])
    <3> HIDE DEF ends
    <3> QED
      BY <2>2
  <2>4. i \in stop <=> ends(i)
    OBVIOUS
  <2> HIDE DEF stop, next, base, step, ends
  <2> QED
    BY <2>1, <2>2, <2>3, <2>4
<1>8. Def(f)
  <2>1. f = [i \in Nat |-> f[i]]
    BY <1>6
  <2>2. \A i \in Nat : Eq(f, i)
    BY <1>7
  <2> HIDE DEF stop, next, base, step
  <2> QED
    BY <2>1, <2>2 DEF Prepend
<1>9. VarintFrom(data, at) = CHOOSE g : Def(g)
  BY Zenon DEF VarintFrom
<1> DEFINE g == VarintFrom(data, at)
<1>10. Def(g)
  <2> HIDE DEF Def
  <2> QED
    BY <1>8, <1>9
<1>11. \A i \in Nat : Eq(g, i)
  <2> HIDE DEF g
  <2> QED
    BY <1>10 DEF Prepend
<1> HIDE DEF g, Def
<1>12. {i \in Nat : g[i] \in Numbers(at)} = Nat
  <2> DEFINE S == {i \in Nat : g[i] \in Numbers(at)}
  <2>1. ASSUME NEW i \in Nat, \A k \in Nat : size[k] < size[i] => k \in S PROVE i \in S
    <3>1. CASE ends(i)
      BY <1>3, <1>11, <3>1
    <3>2. CASE ~ends(i)
      <4>1. size[next[i]] < size[i] /\ next[i] = i + 1
        BY <1>4, <3>2 DEF Descends
      <4>2. g[i + 1] \in Numbers(at)
        BY <2>1, <4>1
      <4> HIDE DEF ends
      <4> QED
        BY <1>2, <1>11, <3>2, <4>2
    <3> QED
      BY <3>1, <3>2
  <2>2. size \in [Nat -> Nat]
    BY <1>1
  <2> HIDE DEF S, size
  <2>3. S \subseteq Nat
    BY DEF S
  <2>4. S = Nat
    BY <2>1, <2>2, <2>3, SizeInduction
  <2> QED
    BY <2>4 DEF S
<1> QED
  BY <1>11, <1>12 DEF g

\* The varint of a number that fits a byte.
LEMMA ShortVarint ==
    ASSUME NEW v \in Nat, v < Group
    PROVE  Varint[v] = <<v>> /\ v \in Byte /\ Len(Varint[v]) = 1
<1>1. Varint[v] = <<v>>
  BY VarintDef
<1>2. v \in 0 .. Group - 1
  BY Widths
<1>3. v \in Byte
  BY <1>2, GroupBytes
<1> QED
  BY <1>1, <1>3

\* The varint of any other number: a byte with the mark, and the varint of the rest.
LEMMA LongVarint ==
    ASSUME NEW v \in Nat, ~(v < Group)
    PROVE  LET b == Group + (v % Group)
               q == v \div Group
           IN  /\ q \in Nat /\ q < v /\ b \in Byte /\ b \in Nat /\ ~(b < Group)
               /\ Varint[v] = <<b>> \o Varint[q] /\ <<b>> \in Seq(Byte) /\ Len(<<b>>) = 1
               /\ Varint[q] \in Seq(Byte)
               /\ Len(Varint[v]) = 1 + Len(Varint[q])
               /\ (b - Group) + Group * q = v
<1> DEFINE r == v % Group
           q == v \div Group
<1>1. q \in Nat /\ r \in 0 .. Group - 1 /\ v = r + Group * q /\ q < v
  BY Groups, Widths
<1>2. Group + r \in Byte /\ Varint[q] \in Seq(Byte)
  BY <1>1, GroupBytes, VarintDef
<1>3. Varint[v] = <<Group + r>> \o Varint[q]
  BY VarintDef
<1>4. Group + r \in Nat /\ ~(Group + r < Group) /\ (Group + r) - Group = r
  <2> HIDE DEF r
  <2> QED
    BY <1>1, Widths
<1> HIDE DEF q, r
<1>5. <<Group + r>> \in Seq(Byte) /\ Len(<<Group + r>>) = 1 /\ Len(Varint[v]) = 1 + Len(Varint[q])
  BY <1>2, <1>3, ByteAndMore
<1>6. ((Group + r) - Group) + Group * q = v
  BY <1>1, <1>4
<1> QED
  BY <1>1, <1>2, <1>3, <1>4, <1>5, <1>6 DEF q, r

\* A varint that is in the data is read as its number.
LEMMA VarintRead ==
    ASSUME NEW data \in Seq(Byte), NEW at \in Nat, NEW v \in Nat, v < Word,
           Holds(data, at, Varint[v])
    PROVE  DecodeVarint(data, at) = [ok |-> TRUE, value |-> v, next |-> at + Len(Varint[v])]
<1> DEFINE g == VarintFrom(data, at)
           Read(w, i) == i + Len(Varint[w]) <= MaxBytes /\ Holds(data, at + i, Varint[w])
                           => g[i] = [ok |-> TRUE, value |-> w, next |-> at + i + Len(Varint[w])]
           S == {w \in Nat : \A i \in Nat : Read(w, i)}
           size == [w \in Nat |-> w]
<1>1. \A i \in Nat : g[i] = IF i >= MaxBytes \/ at + i >= Len(data) THEN Refused
                            ELSE Prepend(data[at + i + 1], at + i + 1, g[i + 1])
  BY VarintFromDef
<1> HIDE DEF g
<1>2. ASSUME NEW w \in Nat, \A k \in Nat : size[k] < size[w] => k \in S, NEW i \in Nat,
             i + Len(Varint[w]) <= MaxBytes, Holds(data, at + i, Varint[w])
      PROVE  g[i] = [ok |-> TRUE, value |-> w, next |-> at + i + Len(Varint[w])]
  <2> DEFINE n == Len(Varint[w])
  <2>1. n \in Nat /\ Len(data) \in Nat /\ MaxBytes \in Nat
    <3>1. Varint[w] \in Seq(Byte)
      BY VarintDef
    <3> HIDE DEF Read, S, size
    <3> QED
      BY <3>1, Widths
  <2>2. at + i + n <= Len(data) /\ i + n <= MaxBytes
    BY <1>2 DEF Holds
  <2> HIDE DEF n
  <2>3. CASE w < Group
    <3>1. Varint[w] = <<w>> /\ w \in Byte /\ n = 1
      BY <2>3, ShortVarint DEF n
    <3>2. ~(i >= MaxBytes \/ at + i >= Len(data))
      BY <2>1, <2>2, <3>1
    <3>3. data[at + i + 1] = w
      BY <1>2, <3>1 DEF Holds
    <3>4. g[i] = Prepend(w, at + i + 1, g[i + 1])
      BY <1>1, <3>2, <3>3
    <3>5. g[i] = [ok |-> TRUE, value |-> w, next |-> at + i + 1]
      BY <2>3, <3>4 DEF Prepend
    <3> QED
      BY Zenon, <3>1, <3>5 DEF n
  <2>4. CASE ~(w < Group)
    <3> DEFINE b == Group + (w % Group)
               q == w \div Group
               m == Len(Varint[q])
    <3>1. /\ q \in Nat /\ q < w /\ b \in Byte /\ b \in Nat /\ ~(b < Group)
          /\ Varint[w] = <<b>> \o Varint[q] /\ <<b>> \in Seq(Byte) /\ Len(<<b>>) = 1
          /\ Varint[q] \in Seq(Byte)
          /\ n = 1 + m
          /\ (b - Group) + Group * q = w
      BY <2>4, LongVarint DEF n
    <3>2. \A k \in Nat : Read(q, k)
      BY <1>2, <3>1
    <3>3. m \in Nat
      BY <3>1
    <3> HIDE DEF b, q, m, Read, S
    <3>4. ~(i >= MaxBytes \/ at + i >= Len(data))
      BY <2>1, <2>2, <3>1, <3>3
    <3>5. at + i \in Nat /\ i + 1 \in Nat
      OBVIOUS
    <3>6. Holds(data, at + i, <<b>>) /\ Holds(data, at + i + Len(<<b>>), Varint[q])
      BY <1>2, <3>1, <3>5, HoldsConcat
    <3>7. data[at + i + 1] = b
      BY <3>1, <3>6 DEF Holds
    <3>8. Holds(data, at + (i + 1), Varint[q])
      <4>1. at + (i + 1) = at + i + Len(<<b>>)
        BY <3>1
      <4> QED
        BY <3>6, <4>1
    <3>9. (i + 1) + m <= MaxBytes
      BY <2>1, <2>2, <3>1, <3>3
    <3>10. g[i + 1] = [ok |-> TRUE, value |-> q, next |-> at + (i + 1) + m]
      BY <3>2, <3>5, <3>8, <3>9 DEF Read, m
    <3>11. g[i] = Prepend(b, at + i + 1, g[i + 1])
      BY <1>1, <3>4, <3>7
    <3>12. Prepend(b, at + i + 1, [ok |-> TRUE, value |-> q, next |-> at + (i + 1) + m])
             = [ok |-> TRUE, value |-> (b - Group) + Group * q, next |-> at + (i + 1) + m]
      <4> DEFINE x == at + (i + 1) + m
      <4> HIDE DEF x
      <4> QED
        BY <3>1 DEF Prepend
    <3>13. g[i] = [ok |-> TRUE, value |-> (b - Group) + Group * q, next |-> at + (i + 1) + m]
      BY Zenon, <3>10, <3>11, <3>12
    <3>14. at + (i + 1) + m = at + i + n
      BY <3>1, <3>3
    <3> QED
      BY <3>1, <3>13, <3>14 DEF n
  <2> QED
    BY <2>3, <2>4
<1>3. S = Nat
  <2>1. size \in [Nat -> Nat]
    OBVIOUS
  <2>2. S \subseteq Nat
    OBVIOUS
  <2>3. ASSUME NEW w \in Nat, \A k \in Nat : size[k] < size[w] => k \in S PROVE w \in S
    <3>1. \A i \in Nat : Read(w, i)
      BY <1>2, <2>3
    <3> HIDE DEF Read
    <3> QED
      BY <3>1
  <2> HIDE DEF S, size
  <2> QED
    BY <2>1, <2>2, <2>3, SizeInduction
<1>4. Len(Varint[v]) \in Nat /\ Len(Varint[v]) <= MaxBytes
  BY VarintFits, Widths
<1>5. Read(v, 0)
  <2> HIDE DEF Read
  <2> QED
    BY <1>3
<1>6. 0 + Len(Varint[v]) <= MaxBytes /\ at + 0 = at
  BY <1>4
<1>7. g[0] = [ok |-> TRUE, value |-> v, next |-> at + Len(Varint[v])]
  BY <1>4, <1>5, <1>6
<1> QED
  BY <1>7 DEF DecodeVarint, g

\* A varint in which the data ends is refused.
LEMMA VarintCut ==
    ASSUME NEW data \in Seq(Byte), NEW at \in Nat, NEW v \in Nat, Cut(data, at, Varint[v])
    PROVE  DecodeVarint(data, at) = Refused
<1> DEFINE g == VarintFrom(data, at)
           Ends(w, i) == Cut(data, at + i, Varint[w]) => g[i] = Refused
           S == {w \in Nat : \A i \in Nat : Ends(w, i)}
           size == [w \in Nat |-> w]
<1>1. \A i \in Nat : g[i] = IF i >= MaxBytes \/ at + i >= Len(data) THEN Refused
                            ELSE Prepend(data[at + i + 1], at + i + 1, g[i + 1])
  BY VarintFromDef
<1> HIDE DEF g
<1>2. ASSUME NEW w \in Nat, \A k \in Nat : size[k] < size[w] => k \in S, NEW i \in Nat,
             Cut(data, at + i, Varint[w])
      PROVE  g[i] = Refused
  <2>1. Varint[w] \in Seq(Byte) /\ Len(data) \in Nat /\ at + i \in Nat
    BY VarintDef
  <2>2. CASE i >= MaxBytes \/ at + i >= Len(data)
    BY <1>1, <2>2
  <2>3. CASE ~(i >= MaxBytes \/ at + i >= Len(data))
    <3> DEFINE b == Group + (w % Group)
               q == w \div Group
    <3>1. at + i < Len(data)
      BY <2>1, <2>3
    <3>2. ~(w < Group)
      <4>1. SUFFICES ASSUME w < Group PROVE FALSE
        OBVIOUS
      <4>2. Len(Varint[w]) = 1
        BY <4>1, ShortVarint
      <4>3. Len(data) < at + i + Len(Varint[w])
        BY <1>2 DEF Cut
      <4>4. Len(data) < at + i + 1
        BY <4>2, <4>3
      <4> HIDE DEF S, Ends
      <4> QED
        BY <2>1, <3>1, <4>4
    <3>3. /\ q \in Nat /\ q < w /\ b \in Byte /\ ~(b < Group)
          /\ Varint[w] = <<b>> \o Varint[q] /\ <<b>> \in Seq(Byte) /\ Len(<<b>>) = 1
          /\ Varint[q] \in Seq(Byte)
      BY <3>2, LongVarint
    <3>4. \A k \in Nat : Ends(q, k)
      BY <1>2, <3>3
    <3> HIDE DEF b, q, S, Ends
    <3>5. Cut(data, at + i, <<b>>) \/ (Holds(data, at + i, <<b>>) /\ Cut(data, at + i + Len(<<b>>), Varint[q]))
      BY <1>2, <2>1, <3>3, CutConcat
    <3>6. ~Cut(data, at + i, <<b>>)
      BY <2>1, <3>1, <3>3 DEF Cut
    <3>7. at + (i + 1) = at + i + Len(<<b>>)
      BY <3>3
    <3>8. data[at + i + 1] = b
      BY <3>3, <3>5, <3>6 DEF Holds
    <3>9. g[i + 1] = Refused
      <4>1. Ends(q, i + 1)
        BY <3>4
      <4> QED
        BY <3>5, <3>6, <3>7, <4>1 DEF Ends
    <3>10. g[i] = Prepend(b, at + i + 1, Refused)
      BY <1>1, <2>3, <3>8, <3>9
    <3> QED
      BY <3>3, <3>10 DEF Prepend, Refused
  <2> QED
    BY <2>2, <2>3
<1>3. S = Nat
  <2>1. size \in [Nat -> Nat]
    OBVIOUS
  <2>2. S \subseteq Nat
    OBVIOUS
  <2>3. ASSUME NEW w \in Nat, \A k \in Nat : size[k] < size[w] => k \in S PROVE w \in S
    <3>1. \A i \in Nat : Ends(w, i)
      BY <1>2, <2>3
    <3> HIDE DEF Ends
    <3> QED
      BY <3>1
  <2> HIDE DEF S, size
  <2> QED
    BY <2>1, <2>2, <2>3, SizeInduction
<1>4. Ends(v, 0)
  <2> HIDE DEF Ends
  <2> QED
    BY <1>3
<1>5. at + 0 = at
  OBVIOUS
<1>6. g[0] = Refused
  BY <1>4, <1>5
<1> QED
  BY <1>6 DEF DecodeVarint, g

\* A number of a field keeps its sign.
LEMMA SignedRead ==
    ASSUME NEW n \in Signable
    PROVE  n % Word \in 0 .. Word - 1 /\ Signed(n % Word) = n
<1> DEFINE h == Word \div 2
<1>1. Word \in Nat /\ h \in Nat /\ Word = 2 * h /\ h >= 1
  <2>1. Word \in Nat /\ Word >= 128 /\ Word = 2 * h /\ h \in Int
    BY Widths
  <2> HIDE DEF h
  <2> QED
    BY <2>1
<1>2. n \in Int /\ -h <= n /\ n < h
  <2>1. n \in -h .. h - 1
    BY DEF Signable
  <2> HIDE DEF h
  <2> QED
    BY <1>1, <2>1
<1>3. n % Word \in 0 .. Word - 1 /\ n % Word = IF n >= 0 THEN n ELSE n + Word
  <2>1. ASSUME NEW w \in Nat, NEW k \in Nat, w = 2 * k, k >= 1, NEW m \in Int, -k <= m, m < k
        PROVE  m % w \in 0 .. w - 1 /\ m % w = IF m >= 0 THEN m ELSE m + w
    <3> DEFINE q == m \div w
               r == m % w
    <3>1. q \in Int /\ r \in 0 .. w - 1 /\ m = (w * q) + r
      <4>1. w \in Nat /\ w > 0 /\ m \in Int
        BY <2>1
      <4> QED
        BY <4>1
    <3> HIDE DEF q, r
    <3>2. q >= 1 => w * q >= w
      BY <2>1, <3>1
    <3>3. q <= -2 => w * q <= -(2 * w)
      BY <2>1, <3>1
    <3>4. q \in {-1, 0}
      BY <2>1, <3>1, <3>2, <3>3
    <3>5. w * 0 = 0 /\ w * (-1) = -w
      BY <2>1
    <3>6. r \in 0 .. w - 1 /\ r = IF m >= 0 THEN m ELSE m + w
      BY <2>1, <3>1, <3>4, <3>5
    <3> QED
      BY <3>6 DEF r
  <2> HIDE DEF h
  <2> QED
    BY <1>1, <1>2, <2>1
<1>4. \A m \in Nat : Signed(m) = IF m < h THEN m ELSE m - Word
  BY DEF Signed
<1> DEFINE p == n % Word
<1> HIDE DEF h, p
<1>5. p \in 0 .. Word - 1 /\ p = (IF n >= 0 THEN n ELSE n + Word)
  BY <1>3 DEF p
<1>6. Signed(p) = n
  BY <1>1, <1>2, <1>4, <1>5
<1> QED
  BY <1>5, <1>6 DEF p

-----------------------------------------------------------------------------
(* Fields                                                                  *)

\* What reading a field can give.
Fields ==
    {f \in [ok : {TRUE}, field : Nat, wire : 0 .. 7, value : Nat \cup Seq(Byte), next : Nat,
            whole : BOOLEAN] :
        (f.wire = 0 => f.value \in Nat) /\ (f.wire = 2 => f.value \in Seq(Byte))}

\* A tag is taken apart as it was put together.
LEMMA TagParts ==
    ASSUME NEW k \in Nat, NEW w \in 0 .. 7
    PROVE  (8 * k + w) \div 8 = k /\ (8 * k + w) % 8 = w
OBVIOUS

\* What DecodeVarint gives.
LEMMA NumberType ==
    ASSUME NEW data \in Seq(Byte), NEW at \in Nat
    PROVE  DecodeVarint(data, at) \in Numbers(at)
BY VarintFromDef DEF DecodeVarint

\* Bytes of the data are bytes.
LEMMA SliceType ==
    ASSUME NEW data \in Seq(Byte), NEW from \in Nat, NEW length \in Nat
    PROVE  Slice(data, from, length) \in Seq(Byte)
<1>1. Len(data) \in Nat
  OBVIOUS
<1>2. CASE from + length <= Len(data)
  <2>1. SubSeq(data, from + 1, from + length) \in Seq(Byte)
    BY <1>1, <1>2
  <2> QED
    BY <1>2, <2>1 DEF Slice
<1>3. CASE ~(from + length <= Len(data))
  <2>1. SubSeq(data, from + 1, Len(data)) \in Seq(Byte)
    BY <1>1
  <2> QED
    BY <1>3, <2>1 DEF Slice
<1> QED
  BY <1>2, <1>3

\* What ReadField gives: a field that ends after its start, or Refused.
LEMMA ReadFieldType ==
    ASSUME NEW data \in Seq(Byte), NEW at \in Nat
    PROVE  \/ ReadField(data, at) = Refused
           \/ ReadField(data, at) \in Fields /\ ReadField(data, at).next > at
<1> DEFINE tag == DecodeVarint(data, at)
           number == DecodeVarint(data, tag.next)
<1>1. tag \in Numbers(at)
  BY NumberType
<1>2. CASE ~tag.ok
  BY <1>2 DEF ReadField, FieldOf
<1>3. CASE tag.ok
  <2>1. /\ tag \in [ok : {TRUE}, value : Nat, next : Nat] /\ tag.next > at
    <3>1. tag # Refused
      BY <1>3 DEF Refused
    <3> HIDE DEF tag
    <3> QED
      BY <1>1, <3>1 DEF Numbers
  <2>2. number \in Numbers(tag.next)
    BY <2>1, NumberType
  <2> HIDE DEF tag, number
  <2>3. tag.value \in Nat /\ tag.value \div 8 \in Nat /\ tag.value % 8 \in 0 .. 7 /\ tag.next \in Nat
    BY <2>1
  <2>4. ASSUME NEW value \in Nat, NEW next \in Nat, next > at, tag.value % 8 # 2
        PROVE  Field(data, tag, value, next) \in Fields /\ Field(data, tag, value, next).next > at
    <3> DEFINE k == tag.value \div 8
               w == tag.value % 8
    <3>1. k \in Nat /\ w \in 0 .. 7 /\ (next <= Len(data)) \in BOOLEAN
      BY <2>3
    <3>2. Field(data, tag, value, next) = [ok |-> TRUE, field |-> k, wire |-> w, value |-> value,
                                           next |-> next, whole |-> next <= Len(data)]
      BY DEF Field
    <3>3. w # 2
      BY <2>4
    <3> HIDE DEF k, w
    <3> QED
      BY <2>4, <3>1, <3>2, <3>3 DEF Fields
  <2>5. ASSUME NEW value \in Seq(Byte), NEW next \in Nat, next > at, tag.value % 8 = 2
        PROVE  Field(data, tag, value, next) \in Fields /\ Field(data, tag, value, next).next > at
    <3> DEFINE k == tag.value \div 8
               w == tag.value % 8
    <3>1. k \in Nat /\ w \in 0 .. 7 /\ (next <= Len(data)) \in BOOLEAN
      BY <2>3
    <3>2. Field(data, tag, value, next) = [ok |-> TRUE, field |-> k, wire |-> w, value |-> value,
                                           next |-> next, whole |-> next <= Len(data)]
      BY DEF Field
    <3>3. w = 2
      BY <2>5
    <3> HIDE DEF k, w
    <3> QED
      BY <2>5, <3>1, <3>2, <3>3 DEF Fields
  <2>6. ReadField(data, at) = FieldOf(data, tag, number)
    BY DEF ReadField, tag, number
  <2>7. CASE tag.value % 8 \in {1, 5}
    <3>1. PICK n \in Nat : FieldOf(data, tag, number) = Field(data, tag, 0, tag.next + n)
      BY <1>3, <2>7 DEF FieldOf
    <3>2. tag.next + n \in Nat /\ tag.next + n > at
      BY <2>1
    <3>3. Field(data, tag, 0, tag.next + n) \in Fields /\ Field(data, tag, 0, tag.next + n).next > at
      BY <2>4, <2>7, <3>2
    <3> QED
      BY Zenon, <2>6, <3>1, <3>3
  <2>8. CASE tag.value % 8 \notin {1, 5} /\ number.ok /\ tag.value % 8 \in {0, 2}
    <3>1. number \in [ok : {TRUE}, value : Nat, next : Nat] /\ number.next > tag.next
      <4>1. number # Refused
        BY <2>8 DEF Refused
      <4> QED
        BY <2>2, <4>1 DEF Numbers
    <3>2. CASE tag.value % 8 = 0
      <4>1. FieldOf(data, tag, number) = Field(data, tag, number.value, number.next)
        BY <1>3, <2>8, <3>2 DEF FieldOf
      <4>2. number.next \in Nat /\ number.next > at
        BY <2>1, <3>1
      <4>3. /\ Field(data, tag, number.value, number.next) \in Fields
            /\ Field(data, tag, number.value, number.next).next > at
        BY <2>4, <3>1, <3>2, <4>2
      <4> QED
        BY Zenon, <2>6, <4>1, <4>3
    <3>3. CASE tag.value % 8 = 2
      <4> DEFINE bytes == Slice(data, number.next, number.value)
      <4>1. FieldOf(data, tag, number) = Field(data, tag, bytes, number.next + number.value)
        BY <1>3, <2>8, <3>3 DEF FieldOf
      <4>2. number.next + number.value \in Nat /\ number.next + number.value > at
        BY <2>1, <3>1
      <4>3. bytes \in Seq(Byte)
        BY <3>1, SliceType
      <4> HIDE DEF bytes
      <4> QED
        BY <2>5, <2>6, <3>3, <4>1, <4>2, <4>3
    <3> QED
      BY <2>8, <3>2, <3>3
  <2>9. CASE tag.value % 8 \notin {1, 5} /\ ~(number.ok /\ tag.value % 8 \in {0, 2})
    <3>1. FieldOf(data, tag, number) = Refused
      BY <1>3, <2>9 DEF FieldOf
    <3> QED
      BY <2>6, <3>1
  <2> QED
    BY <2>7, <2>8, <2>9
<1> QED
  BY <1>2, <1>3

\* What FieldOf makes of a tag that was read.
LEMMA FieldOfTag ==
    ASSUME NEW data, NEW k \in Nat, NEW w \in 0 .. 7, NEW x, NEW number
    PROVE  LET tag == [ok |-> TRUE, value |-> 8 * k + w, next |-> x]
           IN  /\ w = 1 => FieldOf(data, tag, number) = Field(data, tag, 0, x + 8)
               /\ w = 5 => FieldOf(data, tag, number) = Field(data, tag, 0, x + 4)
               /\ w = 0 /\ number.ok => FieldOf(data, tag, number) = Field(data, tag, number.value, number.next)
               /\ w = 2 /\ number.ok =>
                    FieldOf(data, tag, number) = Field(data, tag, Slice(data, number.next, number.value),
                                                       number.next + number.value)
               /\ w \in {0, 2} /\ ~number.ok => FieldOf(data, tag, number) = Refused
               /\ \A value, next : Field(data, tag, value, next) =
                    [ok |-> TRUE, field |-> k, wire |-> w, value |-> value, next |-> next,
                     whole |-> next <= Len(data)]
<1> DEFINE tag == [ok |-> TRUE, value |-> 8 * k + w, next |-> x]
<1>1. tag.value \div 8 = k /\ tag.value % 8 = w /\ tag.ok /\ tag.next = x
  BY TagParts
<1> HIDE DEF tag
<1>2. \A value, next : Field(data, tag, value, next) =
        [ok |-> TRUE, field |-> k, wire |-> w, value |-> value, next |-> next,
         whole |-> next <= Len(data)]
  BY <1>1 DEF Field
<1>3. /\ w = 1 => FieldOf(data, tag, number) = Field(data, tag, 0, x + 8)
      /\ w = 5 => FieldOf(data, tag, number) = Field(data, tag, 0, x + 4)
      /\ w = 0 /\ number.ok => FieldOf(data, tag, number) = Field(data, tag, number.value, number.next)
      /\ w = 2 /\ number.ok =>
            FieldOf(data, tag, number) = Field(data, tag, Slice(data, number.next, number.value),
                                               number.next + number.value)
      /\ w \in {0, 2} /\ ~number.ok => FieldOf(data, tag, number) = Refused
  BY <1>1 DEF FieldOf
<1> QED
  BY <1>2, <1>3 DEF tag

\* The tag of a field with the number k and the wire type w.
Tag(k, w) == Varint[8 * k + w]

\* A tag that is in the data is read.
LEMMA TagRead ==
    ASSUME NEW data \in Seq(Byte), NEW at \in Nat, NEW k \in Nat, NEW w \in 0 .. 7,
           8 * k + w < Word, Holds(data, at, Tag(k, w))
    PROVE  DecodeVarint(data, at) = [ok |-> TRUE, value |-> 8 * k + w, next |-> at + Len(Tag(k, w))]
BY VarintRead DEF Tag

\* A number with its tag is read as a field.
LEMMA VarintFieldRead ==
    ASSUME NEW data \in Seq(Byte), NEW at \in Nat, NEW k \in Nat, 8 * k < Word,
           NEW v \in Nat, v < Word, Holds(data, at, Tag(k, 0) \o Varint[v])
    PROVE  ReadField(data, at) =
              [ok |-> TRUE, field |-> k, wire |-> 0, value |-> v,
               next |-> at + Len(Tag(k, 0) \o Varint[v]), whole |-> TRUE]
<1> DEFINE t == Tag(k, 0)
           s == Varint[v]
<1>1. t \in Seq(Byte) /\ s \in Seq(Byte)
  BY VarintDef DEF Tag
<1>2. Holds(data, at, t) /\ Holds(data, at + Len(t), s)
  BY <1>1, HoldsConcat
<1>3. DecodeVarint(data, at) = [ok |-> TRUE, value |-> 8 * k + 0, next |-> at + Len(t)]
  BY <1>2, TagRead
<1>4. at + Len(t) \in Nat
  BY <1>1
<1>5. DecodeVarint(data, at + Len(t)) = [ok |-> TRUE, value |-> v, next |-> at + Len(t) + Len(s)]
  BY <1>2, <1>4, VarintRead
<1> HIDE DEF t, s
<1>6. at + Len(t) + Len(s) = at + Len(t \o s) /\ at + Len(t) + Len(s) <= Len(data)
  <2>1. Len(t \o s) = Len(t) + Len(s) /\ Len(t) \in Nat /\ Len(s) \in Nat
    BY <1>1
  <2>2. at + Len(t) + Len(s) <= Len(data)
    BY <1>2 DEF Holds
  <2> QED
    BY <2>1, <2>2
<1>7. ReadField(data, at) = FieldOf(data, [ok |-> TRUE, value |-> 8 * k + 0, next |-> at + Len(t)],
                                    [ok |-> TRUE, value |-> v, next |-> at + Len(t) + Len(s)])
  BY <1>3, <1>5 DEF ReadField
<1>8. ReadField(data, at) = [ok |-> TRUE, field |-> k, wire |-> 0, value |-> v,
                             next |-> at + Len(t) + Len(s),
                             whole |-> at + Len(t) + Len(s) <= Len(data)]
  <2> DEFINE x == at + Len(t)
             y == at + Len(t) + Len(s)
             number == [ok |-> TRUE, value |-> v, next |-> y]
  <2>1. number.ok /\ number.value = v /\ number.next = y
    OBVIOUS
  <2>2. ReadField(data, at) = FieldOf(data, [ok |-> TRUE, value |-> 8 * k + 0, next |-> x], number)
    BY <1>7
  <2> HIDE DEF x, y, number
  <2>3. ReadField(data, at) = [ok |-> TRUE, field |-> k, wire |-> 0, value |-> v,
                               next |-> y, whole |-> y <= Len(data)]
    BY <2>1, <2>2, FieldOfTag
  <2> QED
    BY <2>3 DEF y
<1> QED
  BY <1>6, <1>8 DEF t, s

\* It is refused when the data ends in it.
LEMMA VarintFieldCut ==
    ASSUME NEW data \in Seq(Byte), NEW at \in Nat, NEW k \in Nat, 8 * k < Word,
           NEW v \in Nat, Cut(data, at, Tag(k, 0) \o Varint[v])
    PROVE  ReadField(data, at) = Refused
<1> DEFINE t == Tag(k, 0)
           s == Varint[v]
<1>1. t \in Seq(Byte) /\ s \in Seq(Byte)
  BY VarintDef DEF Tag
<1>2. Cut(data, at, t) \/ (Holds(data, at, t) /\ Cut(data, at + Len(t), s))
  BY <1>1, CutConcat
<1>3. CASE Cut(data, at, t)
  <2>1. DecodeVarint(data, at) = Refused
    BY <1>3, VarintCut DEF Tag
  <2> QED
    BY <2>1 DEF ReadField, FieldOf, Refused
<1>4. CASE Holds(data, at, t) /\ Cut(data, at + Len(t), s)
  <2>1. DecodeVarint(data, at) = [ok |-> TRUE, value |-> 8 * k + 0, next |-> at + Len(t)]
    BY <1>4, TagRead
  <2>2. at + Len(t) \in Nat
    BY <1>1
  <2>3. DecodeVarint(data, at + Len(t)) = Refused
    BY <1>4, <2>2, VarintCut
  <2> HIDE DEF t, s
  <2>4. ReadField(data, at) =
          FieldOf(data, [ok |-> TRUE, value |-> 8 * k + 0, next |-> at + Len(t)], Refused)
    BY <2>1, <2>3 DEF ReadField
  <2>5. ~Refused.ok
    BY DEF Refused
  <2> QED
    BY <2>4, <2>5, FieldOfTag
<1> QED
  BY <1>2, <1>3, <1>4

\* A tag is bytes.
LEMMA TagType == ASSUME NEW k \in Nat, NEW w \in 0 .. 7 PROVE Tag(k, w) \in Seq(Byte)
<1>1. 8 * k + w \in Nat
  OBVIOUS
<1> QED
  BY <1>1, VarintDef DEF Tag

\* The length of bytes.
LEMMA LenType == ASSUME NEW s \in Seq(Byte) PROVE Len(s) \in Nat
OBVIOUS

\* The length of two pieces in a row.
LEMMA LenConcat ==
    ASSUME NEW at \in Nat, NEW s \in Seq(Byte), NEW t \in Seq(Byte)
    PROVE  /\ s \o t \in Seq(Byte) /\ Len(s \o t) = Len(s) + Len(t)
           /\ at + Len(s) \in Nat /\ at + Len(s) + Len(t) = at + Len(s \o t)
OBVIOUS

\* A field starts with the number that is its tag.
LEMMA TagThenNumber ==
    ASSUME NEW data, NEW at, NEW v, NEW x,
           DecodeVarint(data, at) = [ok |-> TRUE, value |-> v, next |-> x]
    PROVE  ReadField(data, at) =
             FieldOf(data, [ok |-> TRUE, value |-> v, next |-> x], DecodeVarint(data, x))
BY DEF ReadField

\* The tag and the length before the bytes of a field.
FieldHead(k, b) == Tag(k, 2) \o Varint[Len(b)]

\* The head of a field is bytes.
LEMMA HeadType ==
    ASSUME NEW k \in Nat, NEW b \in Seq(Byte)
    PROVE  Tag(k, 2) \in Seq(Byte) /\ Varint[Len(b)] \in Seq(Byte) /\ FieldHead(k, b) \in Seq(Byte)
<1>1. Tag(k, 2) \in Seq(Byte) /\ Varint[Len(b)] \in Seq(Byte)
  BY VarintDef DEF Tag
<1> QED
  BY <1>1 DEF FieldHead

\* After the head, the field is the bytes that its length names.
LEMMA HeadRead ==
    ASSUME NEW data \in Seq(Byte), NEW at \in Nat, NEW k \in Nat, 8 * k + 2 < Word,
           NEW b \in Seq(Byte), Len(b) < Word, Holds(data, at, FieldHead(k, b))
    PROVE  LET x == at + Len(FieldHead(k, b))
           IN  ReadField(data, at) = [ok |-> TRUE, field |-> k, wire |-> 2,
                                      value |-> Slice(data, x, Len(b)), next |-> x + Len(b),
                                      whole |-> x + Len(b) <= Len(data)]
<1> DEFINE t == Tag(k, 2)
           n == Len(b)
           s == Varint[n]
<1>1. t \in Seq(Byte) /\ s \in Seq(Byte) /\ n \in Nat
  BY HeadType
<1>2. Holds(data, at, t) /\ Holds(data, at + Len(t), s)
  BY <1>1, HoldsConcat DEF FieldHead
<1>3. DecodeVarint(data, at) = [ok |-> TRUE, value |-> 8 * k + 2, next |-> at + Len(t)]
  BY <1>2, TagRead
<1>4. at + Len(t) \in Nat
  BY <1>1
<1>5. DecodeVarint(data, at + Len(t)) = [ok |-> TRUE, value |-> n, next |-> at + Len(t) + Len(s)]
  BY <1>1, <1>2, <1>4, VarintRead
<1>6. at + Len(t) + Len(s) = at + Len(t \o s)
  BY <1>1, LenConcat
<1> DEFINE x == at + Len(t)
           y == at + Len(t \o s)
           number == [ok |-> TRUE, value |-> n, next |-> y]
<1>7. ReadField(data, at) = FieldOf(data, [ok |-> TRUE, value |-> 8 * k + 2, next |-> x], number)
  <2>1. DecodeVarint(data, x) = number
    BY <1>5, <1>6
  <2> HIDE DEF t, s, n, x, number
  <2>2. DecodeVarint(data, at) = [ok |-> TRUE, value |-> 8 * k + 2, next |-> x]
    BY <1>3 DEF x
  <2> QED
    BY <2>1, <2>2, TagThenNumber
<1>8. number.ok /\ number.value = n /\ number.next = y
  OBVIOUS
<1> HIDE DEF x, y, n, number
<1>9. ReadField(data, at) = [ok |-> TRUE, field |-> k, wire |-> 2, value |-> Slice(data, y, n),
                             next |-> y + n, whole |-> y + n <= Len(data)]
  BY <1>7, <1>8, FieldOfTag
<1> QED
  BY <1>9 DEF y, n, FieldHead

\* When the data ends in the head, the field is refused.
LEMMA HeadCut ==
    ASSUME NEW data \in Seq(Byte), NEW at \in Nat, NEW k \in Nat, 8 * k + 2 < Word,
           NEW b \in Seq(Byte), Cut(data, at, FieldHead(k, b))
    PROVE  ReadField(data, at) = Refused
<1> DEFINE t == Tag(k, 2)
           s == Varint[Len(b)]
<1>1. t \in Seq(Byte) /\ s \in Seq(Byte) /\ Len(b) \in Nat
  BY HeadType
<1>2. Cut(data, at, t) \/ (Holds(data, at, t) /\ Cut(data, at + Len(t), s))
  BY <1>1, CutConcat DEF FieldHead
<1>3. CASE Cut(data, at, t)
  <2>1. DecodeVarint(data, at) = Refused
    BY <1>3, VarintCut DEF Tag
  <2> QED
    BY <2>1 DEF ReadField, FieldOf, Refused
<1>4. CASE Holds(data, at, t) /\ Cut(data, at + Len(t), s)
  <2>1. DecodeVarint(data, at) = [ok |-> TRUE, value |-> 8 * k + 2, next |-> at + Len(t)]
    BY <1>4, TagRead
  <2>2. at + Len(t) \in Nat
    BY <1>1
  <2>3. DecodeVarint(data, at + Len(t)) = Refused
    BY <1>1, <1>4, <2>2, VarintCut
  <2> HIDE DEF t, s
  <2>4. ReadField(data, at) =
          FieldOf(data, [ok |-> TRUE, value |-> 8 * k + 2, next |-> at + Len(t)], Refused)
    BY <2>1, <2>3 DEF ReadField
  <2>5. ~Refused.ok
    BY DEF Refused
  <2> QED
    BY <2>4, <2>5, FieldOfTag
<1> QED
  BY <1>2, <1>3, <1>4

\* Bytes with their tag and their length are read as a field.
LEMMA BytesFieldRead ==
    ASSUME NEW data \in Seq(Byte), NEW at \in Nat, NEW k \in Nat, 8 * k + 2 < Word,
           NEW b \in Seq(Byte), Len(b) < Word, Holds(data, at, FieldHead(k, b) \o b)
    PROVE  ReadField(data, at) =
              [ok |-> TRUE, field |-> k, wire |-> 2, value |-> b,
               next |-> at + Len(FieldHead(k, b) \o b), whole |-> TRUE]
<1> DEFINE h == FieldHead(k, b)
           x == at + Len(h)
           n == Len(b)
<1>1. h \in Seq(Byte) /\ Len(data) \in Nat /\ n \in Nat
  <2>1. h \in Seq(Byte)
    BY HeadType
  <2> HIDE DEF h
  <2> QED
    BY <2>1, LenType
<1>2. Holds(data, at, h) /\ Holds(data, x, b)
  BY <1>1, HoldsConcat
<1>3. ReadField(data, at) = [ok |-> TRUE, field |-> k, wire |-> 2, value |-> Slice(data, x, n),
                             next |-> x + n, whole |-> x + n <= Len(data)]
  BY <1>2, HeadRead
<1>4. x \in Nat /\ x + n <= Len(data)
  BY <1>1, <1>2 DEF Holds
<1>5. Slice(data, x, n) = b
  BY <1>2, <1>4, HoldsSlice DEF Slice
<1>6. x + n = at + Len(h \o b)
  <2> HIDE DEF h
  <2> QED
    BY <1>1
<1> HIDE DEF h, x, n
<1> QED
  BY <1>3, <1>4, <1>5, <1>6 DEF h

\* When the data ends in it, it is refused or the field is not whole.
LEMMA BytesFieldCut ==
    ASSUME NEW data \in Seq(Byte), NEW at \in Nat, NEW k \in Nat, 8 * k + 2 < Word,
           NEW b \in Seq(Byte), Len(b) < Word, Cut(data, at, FieldHead(k, b) \o b)
    PROVE  \/ ReadField(data, at) = Refused
           \/ \E n \in 0 .. Len(b) - 1, next \in Nat :
                /\ next >= Len(data)
                /\ ReadField(data, at) = [ok |-> TRUE, field |-> k, wire |-> 2,
                                          value |-> SubSeq(b, 1, n), next |-> next, whole |-> FALSE]
<1> DEFINE h == FieldHead(k, b)
           x == at + Len(h)
           n == Len(data) - x
<1>1. h \in Seq(Byte) /\ Len(data) \in Nat /\ Len(b) \in Nat
  <2>1. h \in Seq(Byte)
    BY HeadType
  <2> HIDE DEF h
  <2> QED
    BY <2>1, LenType
<1>2. Cut(data, at, h) \/ (Holds(data, at, h) /\ Cut(data, x, b))
  BY <1>1, CutConcat
<1>3. CASE Cut(data, at, h)
  BY <1>3, HeadCut
<1>4. CASE Holds(data, at, h) /\ Cut(data, x, b)
  <2>1. ReadField(data, at) = [ok |-> TRUE, field |-> k, wire |-> 2, value |-> Slice(data, x, Len(b)),
                               next |-> x + Len(b), whole |-> x + Len(b) <= Len(data)]
    BY <1>4, HeadRead
  <2>2. x \in Nat /\ x <= Len(data) /\ Len(data) < x + Len(b)
    BY <1>1, <1>4 DEF Cut
  <2>3. n \in 0 .. Len(b) - 1 /\ x + Len(b) \in Nat /\ x + Len(b) >= Len(data)
    <3> HIDE DEF h, x
    <3> QED
      BY <1>1, <2>2
  <2>4. ~(x + Len(b) <= Len(data))
    <3> HIDE DEF h, x
    <3> QED
      BY <1>1, <2>2
  <2>5. Slice(data, x, Len(b)) = SubSeq(b, 1, n)
    <3>1. Slice(data, x, Len(b)) = SubSeq(data, x + 1, Len(data))
      BY <2>4 DEF Slice
    <3>2. SubSeq(data, x + 1, Len(data)) = SubSeq(b, 1, n)
      BY <1>4, <2>2, CutSlice
    <3> QED
      BY <3>1, <3>2
  <2> HIDE DEF h, x, n
  <2>6. ReadField(data, at) = [ok |-> TRUE, field |-> k, wire |-> 2, value |-> SubSeq(b, 1, n),
                               next |-> x + Len(b), whole |-> FALSE]
    <3> DEFINE y == x + Len(b)
    <3> HIDE DEF y
    <3>1. ReadField(data, at) = [ok |-> TRUE, field |-> k, wire |-> 2, value |-> SubSeq(b, 1, n),
                                 next |-> y, whole |-> y <= Len(data)]
      BY <2>1, <2>5 DEF y
    <3>2. ~(y <= Len(data))
      BY <2>4 DEF y
    <3>3. (y <= Len(data)) = FALSE
      BY <3>2
    <3> QED
      BY <3>1, <3>3 DEF y
  <2> QED
    BY <2>3, <2>6
<1> QED
  BY <1>2, <1>3, <1>4

\* Four or eight bytes with their tag are read as a field without a value.
LEMMA FixedFieldRead ==
    ASSUME NEW data \in Seq(Byte), NEW at \in Nat, NEW k \in Nat, NEW w \in {1, 5},
           8 * k + w < Word, NEW b \in Seq(Byte), Len(b) = IF w = 1 THEN 8 ELSE 4,
           Holds(data, at, Tag(k, w) \o b)
    PROVE  ReadField(data, at) =
              [ok |-> TRUE, field |-> k, wire |-> w, value |-> 0,
               next |-> at + Len(Tag(k, w) \o b), whole |-> TRUE]
<1> DEFINE t == Tag(k, w)
           x == at + Len(t)
           n == IF w = 1 THEN 8 ELSE 4
           y == x + n
<1>1. w \in 0 .. 7
  OBVIOUS
<1>2. t \in Seq(Byte)
  BY <1>1, TagType
<1>3. Holds(data, at, t) /\ Holds(data, x, b)
  BY <1>2, HoldsConcat
<1>4. DecodeVarint(data, at) = [ok |-> TRUE, value |-> 8 * k + w, next |-> x]
  BY <1>1, <1>3, TagRead
<1>5. y <= Len(data)
  BY <1>3 DEF Holds
<1>6. y = at + Len(t \o b)
  <2>1. Len(b) = n
    OBVIOUS
  <2> HIDE DEF t, n
  <2> QED
    BY <1>2, <2>1, LenConcat
<1> HIDE DEF t, x
<1> DEFINE tag == [ok |-> TRUE, value |-> 8 * k + w, next |-> x]
<1>7. ReadField(data, at) = FieldOf(data, tag, DecodeVarint(data, x))
  BY <1>4, TagThenNumber
<1>8. tag.value \div 8 = k /\ tag.value % 8 = w /\ tag.ok /\ tag.next = x
  BY <1>1, TagParts
<1> HIDE DEF tag
<1>9. FieldOf(data, tag, DecodeVarint(data, x)) = Field(data, tag, 0, y)
  BY <1>8 DEF FieldOf
<1> HIDE DEF y
<1>10. Field(data, tag, 0, y) = [ok |-> TRUE, field |-> k, wire |-> w, value |-> 0, next |-> y,
                                 whole |-> y <= Len(data)]
  BY <1>8 DEF Field
<1>11. (y <= Len(data)) = TRUE
  BY <1>5
<1> QED
  BY <1>6, <1>7, <1>9, <1>10, <1>11 DEF t

-----------------------------------------------------------------------------
(* Messages.  What is common to sessions and envelopes is shown for any    *)
(* function change: what it makes of a message and a field.                *)

\* What a message can become.
Results(Messages) == Messages \cup {Refused}

Changes(change, Messages) ==
    /\ \A m \in Messages : m.ok
    /\ \A m \in Messages, f \in Fields : change[<<m, f>>] \in Results(Messages)

\* FieldsFrom with a function for its operator.
Rule(change, data, g, s) ==
    IF s.at >= Len(data) THEN s.m
    ELSE LET f == ReadField(data, s.at)
             m == IF f.ok THEN change[<<s.m, f>>] ELSE Refused
         IN  IF m.ok THEN g[[at |-> f.next, m |-> m]] ELSE Refused

\* There is a function for the rule of FieldsFrom, and every one has these values.
LEMMA RuleHasFunction ==
    ASSUME NEW Messages, NEW change, Changes(change, Messages), NEW data \in Seq(Byte)
    PROVE  LET D == [at : Nat, m : Messages]
           IN  /\ \E g : g = [s \in D |-> Rule(change, data, g, s)]
               /\ \A g : g = [s \in D |-> Rule(change, data, g, s)]
                           => \A s \in D : g[s] \in Results(Messages)
<1> DEFINE D == [at : Nat, m : Messages]
           X == Results(Messages)
           field(s) == ReadField(data, s.at)
           made(s) == IF field(s).ok THEN change[<<s.m, field(s)>>] ELSE Refused
           live(s) == ~(s.at >= Len(data)) /\ made(s).ok
           after(s) == [at |-> field(s).next, m |-> made(s)]
           size == [s \in D |-> IF s.at < Len(data) THEN Len(data) - s.at ELSE 0]
           stop == {s \in D : ~live(s)}
           next == [s \in D |-> IF live(s) THEN after(s) ELSE s]
           base == [s \in D |-> IF s.at >= Len(data) THEN s.m ELSE Refused]
           step == [p \in D \X X |-> p[2]]
<1>1. Len(data) \in Nat
  OBVIOUS
<1>2. ASSUME NEW s \in D, live(s)
      PROVE  after(s) \in D /\ s.at \in Nat /\ field(s).next \in Nat /\ field(s).next > s.at
  <2>1. s.at \in Nat /\ s.m \in Messages
    OBVIOUS
  <2>2. field(s).ok
    BY <1>2 DEF Refused
  <2>3. field(s) \in Fields /\ field(s).next > s.at
    BY <2>1, <2>2, ReadFieldType DEF Refused
  <2>4. made(s) \in Messages
    <3>1. made(s) \in Results(Messages)
      BY <2>1, <2>2, <2>3 DEF Changes
    <3>2. made(s) # Refused
      BY <1>2 DEF Refused
    <3> HIDE DEF made
    <3> QED
      BY <3>1, <3>2 DEF Results
  <2>5. field(s).next \in Nat
    BY <2>3 DEF Fields
  <2> HIDE DEF field, made
  <2> QED
    BY <2>1, <2>3, <2>4, <2>5
<1>3. ASSUME NEW g, NEW s \in D
      PROVE  Rule(change, data, g, s) =
               IF live(s) THEN g[after(s)] ELSE IF s.at >= Len(data) THEN s.m ELSE Refused
  BY DEF Rule
<1> HIDE DEF field, made, live, after
<1>4. size \in [D -> Nat]
  BY <1>1
<1>5. \A s \in D : live(s) => size[after(s)] < size[s]
  <2>1. ASSUME NEW s \in D, live(s) PROVE size[after(s)] < size[s]
    <3>1. /\ after(s) \in D /\ after(s).at = field(s).next /\ s.at \in Nat
          /\ field(s).next \in Nat /\ field(s).next > s.at
      BY <1>2, <2>1 DEF after
    <3>2. ~(s.at >= Len(data))
      BY <2>1 DEF live
    <3>3. size[s] = Len(data) - s.at
      BY <1>1, <3>1, <3>2
    <3>4. size[after(s)] = IF field(s).next < Len(data) THEN Len(data) - field(s).next ELSE 0
      BY <3>1
    <3> HIDE DEF size
    <3> QED
      BY <1>1, <3>1, <3>2, <3>3, <3>4
  <2> QED
    BY <2>1
<1>6. \E g : g = [s \in D |-> Rule(change, data, g, s)]
  <2>1. Descends(D, X, size, stop, next, base, step)
    <3>1. next \in [D -> D] /\ step \in [D \X X -> X]
      BY <1>2
    <3>2. base \in [D -> X]
      BY DEF Results
    <3>3. \A s \in D \ stop : size[next[s]] < size[s]
      BY <1>5
    <3> HIDE DEF size, stop, next, base, step
    <3> QED
      BY <1>4, <3>1, <3>2, <3>3 DEF Descends
  <2>2. PICK g : Solves(g, D, X, stop, next, base, step)
    <3> HIDE DEF D, X, size, stop, next, base, step
    <3> QED
      BY <2>1, Recursion
  <2>3. g \in [D -> X]
    BY <2>2 DEF Solves
  <2>4. ASSUME NEW s \in D PROVE g[s] = Rule(change, data, g, s)
    <3>1. g[s] = IF s \in stop THEN base[s] ELSE step[<<s, g[next[s]]>>]
      <4> HIDE DEF stop, next, base, step
      <4> QED
        BY <2>2 DEF Solves
    <3>2. live(s) => next[s] = after(s) /\ g[after(s)] \in X /\ s \notin stop
      BY <1>2, <2>3
    <3>3. \A x \in X : step[<<s, x>>] = x
      OBVIOUS
    <3>4. ~live(s) => s \in stop /\ base[s] = IF s.at >= Len(data) THEN s.m ELSE Refused
      OBVIOUS
    <3> HIDE DEF stop, next, base, step
    <3> QED
      BY <1>3, <3>1, <3>2, <3>3, <3>4
  <2>5. g = [s \in D |-> Rule(change, data, g, s)]
    <3>1. g = [s \in D |-> g[s]]
      BY <2>3
    <3> HIDE DEF D
    <3> QED
      BY <2>4, <3>1
  <2> QED
    BY <2>5
<1>7. ASSUME NEW g, g = [s \in D |-> Rule(change, data, g, s)]
      PROVE  \A s \in D : g[s] \in X
  <2> DEFINE S == {s \in D : g[s] \in X}
  <2>1. ASSUME NEW s \in D, \A r \in D : size[r] < size[s] => r \in S PROVE s \in S
    <3>1. g[s] = Rule(change, data, g, s)
      BY <1>7
    <3>2. live(s) => g[after(s)] \in X
      BY <1>2, <1>5, <2>1
    <3>3. s.m \in X /\ Refused \in X
      BY DEF Results
    <3> HIDE DEF X, D
    <3> QED
      BY <1>3, <3>1, <3>2, <3>3
  <2> HIDE DEF S, size, D
  <2>2. S \subseteq D
    BY DEF S
  <2>3. S = D
    BY <1>4, <2>1, <2>2, SizeInduction
  <2> QED
    BY <2>3 DEF S
<1> HIDE DEF size, stop, next, base, step
<1> QED
  BY <1>6, <1>7

\* dec gives the FieldsFrom of every data, for the function change.
Decodes(dec, change, Messages) ==
    /\ Changes(change, Messages)
    /\ \A data \in Seq(Byte) :
          dec[data] = [s \in [at : Nat, m : Messages] |-> Rule(change, data, dec[data], s)]

\* What the fields from the offset on make of m.
From(dec, data, at, m) == dec[data][[at |-> at, m |-> m]]

\* p makes mm of m, whatever comes before and after it.
Takes(dec, p, m, mm) ==
    \A data \in Seq(Byte), at \in Nat :
        Holds(data, at, p) => From(dec, data, at, m) = From(dec, data, at + Len(p), mm)

\* A part of p makes something in S of m, when the data ends in it.
EndsIn(dec, p, m, S) ==
    \A data \in Seq(Byte), at \in Nat : Cut(data, at, p) => From(dec, data, at, m) \in S

\* A step of the decoder follows the rule.
LEMMA FromRule ==
    ASSUME NEW Messages, NEW change, NEW dec, Decodes(dec, change, Messages),
           NEW data \in Seq(Byte), NEW at \in Nat, NEW m \in Messages
    PROVE  /\ From(dec, data, at, m) \in Results(Messages)
           /\ From(dec, data, at, m) = Rule(change, data, dec[data], [at |-> at, m |-> m])
<1> DEFINE s == [at |-> at, m |-> m]
           g == dec[data]
<1>1. Changes(change, Messages) /\ g = [r \in [at : Nat, m : Messages] |-> Rule(change, data, g, r)]
  BY DEF Decodes
<1>2. s \in [at : Nat, m : Messages]
  OBVIOUS
<1> HIDE DEF g, s
<1>3. g[s] \in Results(Messages)
  BY <1>1, <1>2, RuleHasFunction
<1>4. g[s] = Rule(change, data, g, s)
  BY <1>1, <1>2
<1>5. From(dec, data, at, m) = g[s]
  BY DEF From, g, s
<1> QED
  BY <1>3, <1>4, <1>5 DEF g, s

\* Decoding gives a message or is refused.
LEMMA FromType ==
    ASSUME NEW Messages, NEW change, NEW dec, Decodes(dec, change, Messages),
           NEW data \in Seq(Byte), NEW at \in Nat, NEW m \in Messages
    PROVE  From(dec, data, at, m) \in Results(Messages)
<1>1. From(dec, data, at, m) \in Results(Messages)
  BY FromRule
<1> QED
  BY <1>1

\* At the end of the data the message is as it was.
LEMMA FromEnd ==
    ASSUME NEW Messages, NEW change, NEW dec, Decodes(dec, change, Messages),
           NEW data \in Seq(Byte), NEW at \in Nat, NEW m \in Messages, at >= Len(data)
    PROVE  From(dec, data, at, m) = m
<1>1. From(dec, data, at, m) = Rule(change, data, dec[data], [at |-> at, m |-> m])
  BY FromRule
<1> QED
  BY <1>1 DEF Rule

\* A field that cannot be read ends the decoding.
LEMMA FromRefused ==
    ASSUME NEW Messages, NEW change, NEW dec, Decodes(dec, change, Messages),
           NEW data \in Seq(Byte), NEW at \in Nat, NEW m \in Messages, ~(at >= Len(data)),
           ReadField(data, at) = Refused
    PROVE  From(dec, data, at, m) = Refused
<1>1. From(dec, data, at, m) = Rule(change, data, dec[data], [at |-> at, m |-> m])
  BY FromRule
<1> QED
  BY <1>1 DEF Rule, Refused

\* A field that was read changes the message, or ends the decoding.
LEMMA FromField ==
    ASSUME NEW Messages, NEW change, NEW dec, Decodes(dec, change, Messages),
           NEW data \in Seq(Byte), NEW at \in Nat, NEW m \in Messages, ~(at >= Len(data)),
           NEW f, f = ReadField(data, at), f.ok
    PROVE  /\ change[<<m, f>>] \in Messages =>
                From(dec, data, at, m) = From(dec, data, f.next, change[<<m, f>>])
           /\ change[<<m, f>>] = Refused => From(dec, data, at, m) = Refused
<1> DEFINE mm == change[<<m, f>>]
<1>1. mm = Refused => ~mm.ok
  BY DEF Refused
<1>2. mm \in Messages => mm.ok
  BY DEF Decodes, Changes
<1>3. From(dec, data, at, m) = Rule(change, data, dec[data], [at |-> at, m |-> m])
  BY FromRule
<1> HIDE DEF mm
<1>4. From(dec, data, at, m) = IF mm.ok THEN From(dec, data, f.next, mm) ELSE Refused
  BY <1>3 DEF Rule, From, mm
<1> QED
  BY <1>1, <1>2, <1>4 DEF mm

\* No bytes change nothing and cannot be cut.
LEMMA TakesNothing ==
    ASSUME NEW dec, NEW m, NEW S
    PROVE  Takes(dec, <<>>, m, m) /\ EndsIn(dec, <<>>, m, S)
<1>1. ASSUME NEW at \in Nat PROVE at + Len(<<>>) = at
  OBVIOUS
<1>2. Takes(dec, <<>>, m, m)
  BY <1>1 DEF Takes
<1>3. ASSUME NEW data \in Seq(Byte), NEW at \in Nat PROVE ~Cut(data, at, <<>>)
  BY <1>1 DEF Cut
<1> QED
  BY <1>2, <1>3 DEF EndsIn

\* Two pieces in a row take a message through the one between.
LEMMA TakesBoth ==
    ASSUME NEW dec, NEW p \in Seq(Byte), NEW q \in Seq(Byte), NEW m, NEW m1, NEW m2,
           Takes(dec, p, m, m1), Takes(dec, q, m1, m2)
    PROVE  Takes(dec, p \o q, m, m2)
<1>1. SUFFICES ASSUME NEW data \in Seq(Byte), NEW at \in Nat, Holds(data, at, p \o q)
               PROVE  From(dec, data, at, m) = From(dec, data, at + Len(p \o q), m2)
  BY DEF Takes
<1>2. Holds(data, at, p) /\ Holds(data, at + Len(p), q)
  BY <1>1, HoldsConcat
<1>3. at + Len(p) \in Nat /\ at + Len(p) + Len(q) = at + Len(p \o q)
  BY LenConcat
<1>4. From(dec, data, at, m) = From(dec, data, at + Len(p), m1)
  BY <1>2 DEF Takes
<1>5. From(dec, data, at + Len(p), m1) = From(dec, data, at + Len(p) + Len(q), m2)
  BY <1>2, <1>3 DEF Takes
<1> QED
  BY <1>3, <1>4, <1>5

\* Two pieces that were cut were cut in the first or in the second.
LEMMA EndsInOne ==
    ASSUME NEW dec, NEW p \in Seq(Byte), NEW q \in Seq(Byte), NEW m, NEW m1, NEW S,
           Takes(dec, p, m, m1), EndsIn(dec, p, m, S), EndsIn(dec, q, m1, S)
    PROVE  EndsIn(dec, p \o q, m, S)
<1>1. SUFFICES ASSUME NEW data \in Seq(Byte), NEW at \in Nat, Cut(data, at, p \o q)
               PROVE  From(dec, data, at, m) \in S
  BY DEF EndsIn
<1>2. Cut(data, at, p) \/ (Holds(data, at, p) /\ Cut(data, at + Len(p), q))
  BY <1>1, CutConcat
<1>3. CASE Cut(data, at, p)
  BY <1>3 DEF EndsIn
<1>4. CASE Holds(data, at, p) /\ Cut(data, at + Len(p), q)
  <2>1. at + Len(p) \in Nat
    BY LenConcat
  <2>2. From(dec, data, at, m) = From(dec, data, at + Len(p), m1)
    BY <1>4 DEF Takes
  <2>3. From(dec, data, at + Len(p), m1) \in S
    BY <1>4, <2>1 DEF EndsIn
  <2> QED
    BY <2>2, <2>3
<1> QED
  BY <1>2, <1>3, <1>4

\* A whole message.
LEMMA TakesAll ==
    ASSUME NEW Messages, NEW change, NEW dec, Decodes(dec, change, Messages),
           NEW p \in Seq(Byte), NEW m, NEW mm \in Messages, Takes(dec, p, m, mm)
    PROVE  From(dec, p, 0, m) = mm
<1> DEFINE x == 0 + Len(p)
<1>1. Holds(p, 0, p) /\ x \in Nat /\ x >= Len(p)
  BY HoldsItself
<1>2. From(dec, p, 0, m) = From(dec, p, x, mm)
  BY <1>1 DEF Takes
<1> HIDE DEF x
<1>3. From(dec, p, x, mm) = mm
  BY <1>1, FromEnd
<1> QED
  BY <1>2, <1>3

\* The pieces of a field with a number of less than 16.
LEMMA SmallTag ==
    ASSUME NEW k \in 0 .. 15, NEW w \in 0 .. 7
    PROVE  EncodeVarint(8 * k + w) = Tag(k, w) /\ Tag(k, w) \in Seq(Byte) /\ Len(Tag(k, w)) >= 1
           /\ 8 * k + w \in Nat /\ 8 * k + w < Word
<1> DEFINE n == 8 * k + w
<1>1. n \in Nat /\ n < 128
  OBVIOUS
<1> HIDE DEF n
<1>2. n < Word /\ n % Word = n
  <2>1. Word \in Nat /\ n < Word
    BY <1>1, Widths
  <2> QED
    BY <1>1, <2>1
<1>3. Varint[n] \in Seq(Byte) /\ Len(Varint[n]) >= 1
  <2>1. Varint[n] \in Seq(Byte) /\ Len(Varint[n]) \in 1 .. MaxBytes
    BY <1>1, <1>2, VarintFits
  <2> QED
    BY <2>1, Widths
<1> QED
  BY <1>1, <1>2, <1>3 DEF EncodeVarint, Tag, n

\* A word.
LEMMA ModWord == ASSUME NEW n \in Int PROVE n % Word \in Nat /\ n % Word < Word
BY Widths

\* A number that fits a word.
LEMMA SmallMod == ASSUME NEW n \in Nat, n < Word PROVE n % Word = n
BY Widths

\* p is read as one field.
ReadsAs(p, k, w, v) ==
    \A data \in Seq(Byte), at \in Nat : Holds(data, at, p) =>
        ReadField(data, at) = [ok |-> TRUE, field |-> k, wire |-> w, value |-> v,
                               next |-> at + Len(p), whole |-> TRUE]

\* Such a field makes mm of m.
Makes(change, m, k, w, v, mm) ==
    \A f \in Fields : Is(f, k, w) /\ f.value = v /\ f.whole => change[<<m, f>>] = mm

\* A piece that is read as one field takes a message to what the field makes of it.
LEMMA TakesField ==
    ASSUME NEW Messages, NEW change, NEW dec, Decodes(dec, change, Messages),
           NEW p \in Seq(Byte), Len(p) >= 1, NEW m \in Messages, NEW mm \in Messages,
           NEW k, NEW w, NEW v, ReadsAs(p, k, w, v), Makes(change, m, k, w, v, mm)
    PROVE  Takes(dec, p, m, mm)
<1>1. SUFFICES ASSUME NEW data \in Seq(Byte), NEW at \in Nat, Holds(data, at, p)
               PROVE  From(dec, data, at, m) = From(dec, data, at + Len(p), mm)
  BY DEF Takes
<1> DEFINE f == ReadField(data, at)
<1>2. f = [ok |-> TRUE, field |-> k, wire |-> w, value |-> v, next |-> at + Len(p), whole |-> TRUE]
  BY <1>1 DEF ReadsAs
<1>3. ~(at >= Len(data))
  <2>1. at + Len(p) <= Len(data) /\ Len(data) \in Nat /\ Len(p) \in Nat
    BY <1>1 DEF Holds
  <2> HIDE DEF f
  <2> QED
    BY <2>1
<1>4. f \in Fields
  <2>1. f # Refused
    BY <1>2 DEF Refused
  <2> QED
    BY <2>1, ReadFieldType
<1>5. f.ok /\ f.next = at + Len(p) /\ Is(f, k, w) /\ f.value = v /\ f.whole
  BY <1>2 DEF Is
<1>6. change[<<m, f>>] = mm
  BY <1>4, <1>5 DEF Makes
<1>7. From(dec, data, at, m) = From(dec, data, f.next, mm)
  <2> HIDE DEF f
  <2>1. f = ReadField(data, at)
    BY DEF f
  <2> QED
    BY <1>3, <1>5, <1>6, <2>1, FromField
<1> QED
  BY <1>5, <1>7

\* When the data ends in a piece that is then read as a field that is not whole, or refused.
LEMMA EndsInField ==
    ASSUME NEW Messages, NEW change, NEW dec, Decodes(dec, change, Messages),
           NEW p \in Seq(Byte), NEW m \in Messages, NEW S, m \in S, Refused \in S,
           \A data \in Seq(Byte), at \in Nat : Cut(data, at, p) =>
              \/ ReadField(data, at) = Refused
              \/ LET f == ReadField(data, at)
                 IN  /\ f \in Fields /\ f.next >= Len(data)
                     /\ change[<<m, f>>] \in S
    PROVE  EndsIn(dec, p, m, S)
<1>1. SUFFICES ASSUME NEW data \in Seq(Byte), NEW at \in Nat, Cut(data, at, p)
               PROVE  From(dec, data, at, m) \in S
  BY DEF EndsIn
<1>2. CASE at >= Len(data)
  BY <1>2, FromEnd
<1>3. CASE ~(at >= Len(data)) /\ ReadField(data, at) = Refused
  BY <1>3, FromRefused
<1>4. CASE ~(at >= Len(data)) /\ ReadField(data, at) # Refused
  <2> DEFINE f == ReadField(data, at)
             mm == change[<<m, f>>]
  <2>1. f \in Fields /\ f.next >= Len(data) /\ mm \in S
    BY <1>1, <1>4
  <2>2. mm \in Messages \cup {Refused}
    BY <2>1 DEF Decodes, Changes, Results
  <2>3. f.ok /\ f.next \in Nat
    BY <2>1 DEF Fields
  <2>4. /\ mm \in Messages => From(dec, data, at, m) = From(dec, data, f.next, mm)
        /\ mm = Refused => From(dec, data, at, m) = Refused
    BY <1>4, <2>3, FromField
  <2> HIDE DEF f, mm
  <2>5. mm \in Messages => From(dec, data, f.next, mm) = mm
    BY <2>1, <2>3, FromEnd
  <2> QED
    BY <2>1, <2>2, <2>4, <2>5
<1> QED
  BY <1>2, <1>3, <1>4

\* A number that is not the default is written as its tag and its varint.
LEMMA VarintPiece ==
    ASSUME NEW k \in 0 .. 15, NEW n \in Int, n # 0
    PROVE  /\ VarintField(k, n) = Tag(k, 0) \o Varint[n % Word]
           /\ VarintField(k, n) \in Seq(Byte) /\ Len(VarintField(k, n)) >= 1
           /\ n % Word \in Nat /\ n % Word < Word /\ 8 * k < Word
<1>1. /\ EncodeVarint(8 * k + 0) = Tag(k, 0) /\ Tag(k, 0) \in Seq(Byte) /\ Len(Tag(k, 0)) >= 1
      /\ 8 * k + 0 < Word
  <2>1. 0 \in 0 .. 7
    OBVIOUS
  <2> QED
    BY Zenon, <2>1, SmallTag
<1>2. 8 * k + 0 = 8 * k
  OBVIOUS
<1>3. n % Word \in Nat /\ n % Word < Word /\ Varint[n % Word] \in Seq(Byte)
  BY ModWord, VarintDef
<1> DEFINE t == Tag(k, 0)
           s == Varint[n % Word]
<1>4. VarintField(k, n) = t \o s
  BY <1>1, <1>2 DEF VarintField, EncodeVarint
<1>5. t \o s \in Seq(Byte) /\ Len(t \o s) >= 1
  <2> HIDE DEF t, s
  <2> QED
    BY <1>1, <1>3, LenConcat DEF t, s
<1> QED
  BY <1>1, <1>2, <1>3, <1>4, <1>5

\* Bytes that are not the default are written as their head and themselves.
LEMMA BytesPiece ==
    ASSUME NEW k \in 0 .. 15, NEW b \in Seq(Byte), b # <<>>, Len(b) < Word
    PROVE  /\ BytesField(k, b) = FieldHead(k, b) \o b
           /\ BytesField(k, b) \in Seq(Byte) /\ Len(BytesField(k, b)) >= 1
           /\ 8 * k + 2 < Word
<1>1. /\ EncodeVarint(8 * k + 2) = Tag(k, 2) /\ 8 * k + 2 < Word
  <2>1. 2 \in 0 .. 7
    OBVIOUS
  <2> QED
    BY Zenon, <2>1, SmallTag
<1>2. EncodeVarint(Len(b)) = Varint[Len(b)]
  BY LenType, SmallMod DEF EncodeVarint
<1>3. BytesField(k, b) = FieldHead(k, b) \o b
  BY <1>1, <1>2 DEF BytesField, FieldHead
<1>4. FieldHead(k, b) \in Seq(Byte) /\ Len(b) >= 1
  <2>1. Len(b) \in Nat /\ Len(b) # 0
    OBVIOUS
  <2>2. FieldHead(k, b) \in Seq(Byte)
    <3>1. k \in Nat
      OBVIOUS
    <3> QED
      BY <3>1, HeadType
  <2> QED
    BY <2>1, <2>2
<1> DEFINE h == FieldHead(k, b)
<1> HIDE DEF h
<1>5. h \o b \in Seq(Byte) /\ Len(h \o b) >= 1
  BY <1>4, LenConcat, LenType DEF h
<1> QED
  BY <1>1, <1>3, <1>5 DEF h

\* A number field takes a message to what its number makes of it.
LEMMA TakesVarintField ==
    ASSUME NEW Messages, NEW change, NEW dec, Decodes(dec, change, Messages),
           NEW k \in 0 .. 15, NEW n \in Int, NEW m \in Messages, NEW mm \in Messages,
           n = 0 => mm = m,
           \A f \in Fields : Is(f, k, 0) /\ f.value = n % Word => change[<<m, f>>] = mm
    PROVE  VarintField(k, n) \in Seq(Byte) /\ Takes(dec, VarintField(k, n), m, mm)
<1>1. CASE n = 0
  BY <1>1, TakesNothing DEF VarintField
<1>2. CASE n # 0
  <2> DEFINE p == VarintField(k, n)
             v == n % Word
  <2>1. /\ p = Tag(k, 0) \o Varint[v] /\ p \in Seq(Byte) /\ Len(p) >= 1
        /\ v \in Nat /\ v < Word /\ 8 * k < Word
    BY <1>2, VarintPiece
  <2> HIDE DEF p
  <2>2. Makes(change, m, k, 0, v, mm)
    BY DEF Makes
  <2> HIDE DEF v
  <2>3. ReadsAs(p, k, 0, v)
    BY <2>1, VarintFieldRead DEF ReadsAs
  <2>4. Takes(dec, p, m, mm)
    BY <2>1, <2>2, <2>3, TakesField
  <2> QED
    BY <2>1, <2>4 DEF p
<1> QED
  BY <1>1, <1>2

\* A number field that was cut is refused.
LEMMA EndsInVarintField ==
    ASSUME NEW Messages, NEW change, NEW dec, Decodes(dec, change, Messages),
           NEW k \in 0 .. 15, NEW n \in Int, NEW m \in Messages, NEW S, m \in S, Refused \in S
    PROVE  EndsIn(dec, VarintField(k, n), m, S)
<1>1. CASE n = 0
  BY <1>1, TakesNothing DEF VarintField
<1>2. CASE n # 0
  <2> DEFINE p == VarintField(k, n)
             v == n % Word
  <2>1. /\ p = Tag(k, 0) \o Varint[v] /\ p \in Seq(Byte)
        /\ v \in Nat /\ 8 * k < Word
    BY <1>2, VarintPiece
  <2> HIDE DEF p, v
  <2>2. \A data \in Seq(Byte), at \in Nat : Cut(data, at, p) => ReadField(data, at) = Refused
    BY <2>1, VarintFieldCut
  <2>3. EndsIn(dec, p, m, S)
    BY <2>1, <2>2, EndsInField
  <2> QED
    BY <2>3 DEF p
<1> QED
  BY <1>1, <1>2

\* A bytes field takes a message to what its bytes make of it.
LEMMA TakesBytesField ==
    ASSUME NEW Messages, NEW change, NEW dec, Decodes(dec, change, Messages),
           NEW k \in 0 .. 15, NEW b \in Seq(Byte), Len(b) < Word,
           NEW m \in Messages, NEW mm \in Messages, b = <<>> => mm = m,
           \A f \in Fields : Is(f, k, 2) /\ f.value = b /\ f.whole => change[<<m, f>>] = mm
    PROVE  BytesField(k, b) \in Seq(Byte) /\ Takes(dec, BytesField(k, b), m, mm)
<1>1. CASE b = <<>>
  <2>1. BytesField(k, b) = <<>> /\ <<>> \in Seq(Byte)
    BY <1>1 DEF BytesField
  <2> QED
    BY <1>1, <2>1, TakesNothing
<1>2. CASE b # <<>>
  <2> DEFINE p == BytesField(k, b)
  <2>1. p = FieldHead(k, b) \o b /\ p \in Seq(Byte) /\ Len(p) >= 1 /\ 8 * k + 2 < Word
    BY <1>2, BytesPiece
  <2> HIDE DEF p
  <2>2. ReadsAs(p, k, 2, b)
    BY <2>1, BytesFieldRead DEF ReadsAs
  <2>3. Makes(change, m, k, 2, b, mm)
    BY DEF Makes
  <2>4. Takes(dec, p, m, mm)
    BY <2>1, <2>2, <2>3, TakesField
  <2> QED
    BY <2>1, <2>4 DEF p
<1> QED
  BY <1>1, <1>2

\* A bytes field that was cut is refused, or makes what a shorter one makes.
LEMMA EndsInBytesField ==
    ASSUME NEW Messages, NEW change, NEW dec, Decodes(dec, change, Messages),
           NEW k \in 0 .. 15, NEW b \in Seq(Byte), Len(b) < Word,
           NEW m \in Messages, NEW S, m \in S, Refused \in S,
           \A f \in Fields, n \in 0 .. Len(b) - 1 :
              Is(f, k, 2) /\ f.value = SubSeq(b, 1, n) /\ ~f.whole => change[<<m, f>>] \in S
    PROVE  EndsIn(dec, BytesField(k, b), m, S)
<1>1. CASE b = <<>>
  BY <1>1, TakesNothing DEF BytesField
<1>2. CASE b # <<>>
  <2> DEFINE p == BytesField(k, b)
  <2>1. p = FieldHead(k, b) \o b /\ p \in Seq(Byte) /\ 8 * k + 2 < Word
    BY <1>2, BytesPiece
  <2> HIDE DEF p
  <2>2. ASSUME NEW data \in Seq(Byte), NEW at \in Nat, Cut(data, at, p),
               ReadField(data, at) # Refused
        PROVE  LET f == ReadField(data, at)
               IN  f \in Fields /\ f.next >= Len(data) /\ change[<<m, f>>] \in S
    <3> DEFINE f == ReadField(data, at)
    <3>1. PICK n \in 0 .. Len(b) - 1, next \in Nat :
             next >= Len(data) /\
             f = [ok |-> TRUE, field |-> k, wire |-> 2, value |-> SubSeq(b, 1, n), next |-> next,
                  whole |-> FALSE]
      BY <2>1, <2>2, BytesFieldCut
    <3>2. f \in Fields
      BY <2>2, ReadFieldType
    <3> HIDE DEF f
    <3>3. Is(f, k, 2) /\ f.value = SubSeq(b, 1, n) /\ ~f.whole /\ f.next = next
      BY <3>1 DEF Is
    <3>4. f.next >= Len(data) /\ change[<<m, f>>] \in S
      BY <3>1, <3>2, <3>3
    <3> QED
      BY <3>2, <3>4 DEF f
  <2>3. EndsIn(dec, p, m, S)
    BY <2>1, <2>2, EndsInField
  <2> QED
    BY <2>3 DEF p
<1> QED
  BY <1>1, <1>2

=============================================================================
