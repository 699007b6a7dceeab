---------------------------- MODULE ProofLemmas ----------------------------
(***************************************************************************)
(* Facts on numbers and sequences that the proofs about the components     *)
(* share.                                                                  *)
(***************************************************************************)
EXTENDS Integers, Sequences, SequencesExt, WellFoundedInduction, TLAPS

\* Of a set of numbers that is not empty, one is least.
LEMMA LeastExists ==
  ASSUME NEW S, S \subseteq Nat, S # {}
  PROVE  \E i \in S : \A j \in S : i <= j
<1>1. \E i \in S : \A j \in S : ~ (<<j, i>> \in OpToRel(<, Nat))
  BY NatLessThanWellFounded, WFMin, Zenon
<1>2. ASSUME NEW i \in Nat, NEW j \in Nat, j < i PROVE <<j, i>> \in OpToRel(<, Nat)
  <2>1. <<j, i>> \in {ss \in Nat \X Nat : ss[1] < ss[2]}
    BY <1>2
  <2> QED
    BY <2>1, Zenon DEF OpToRel
<1>3. \E i \in S : \A j \in S : ~ (j < i)
  BY <1>1, <1>2, Zenon
<1> QED
  BY <1>3

\* A set that has 0, and with a number the next, has all numbers.
LEMMA SetInduction ==
  ASSUME NEW S, 0 \in S, \A n \in Nat : n \in S => n + 1 \in S
  PROVE  Nat \subseteq S
<1>1. SUFFICES ASSUME Nat \ S # {} PROVE FALSE
  OBVIOUS
<1>2. PICK n \in Nat \ S : \A j \in Nat \ S : n <= j
  BY <1>1, LeastExists
<1>3. n - 1 \in Nat
  BY <1>2
<1>4. n - 1 \in S
  BY <1>2, <1>3
<1> QED
  BY <1>2, <1>3, <1>4

\* A quotient times the divisor does not exceed the dividend, and it is the
\* greatest number of which that is true.
LEMMA QuotientBound ==
  ASSUME NEW a \in Nat, NEW b \in Nat \ {0}, NEW n \in Nat
  PROVE  n <= a \div b <=> n * b <= a
<1> DEFINE q == a \div b
<1>1. a = b * q + (a % b)
  BY Z3
<1>2. a % b \in 0 .. b - 1 /\ q \in Nat
  BY SMT
<1> HIDE DEF q
<1>3. b * n \in Nat /\ b * q \in Nat /\ n * b = b * n
  BY <1>2, SMT
<1>4. CASE n <= q
  <2>1. b * n <= b * q
    BY <1>2, <1>4, SMT
  <2> QED
    BY <1>1, <1>2, <1>3, <1>4, <2>1, SMT DEF q
<1>5. CASE n > q
  <2>1. b * (q + 1) <= b * n /\ b * (q + 1) = b * q + b
    BY <1>2, <1>5, SMT
  <2> QED
    BY <1>1, <1>2, <1>3, <1>5, <2>1, SMT DEF q
<1> QED
  BY <1>2, <1>4, <1>5

-----------------------------------------------------------------------------
\* A sequence, of whatever elements.
IsList(s) == Len(s) \in Nat /\ DOMAIN s = 1 .. Len(s)

LEMMA SeqList ==
  ASSUME NEW S, NEW s \in Seq(S)
  PROVE  IsList(s) /\ \A i \in 1 .. Len(s) : s[i] \in S
  BY DEF IsList

LEMMA ListConcat ==
  ASSUME NEW s, NEW t, IsList(s), IsList(t)
  PROVE  /\ IsList(s \o t) /\ Len(s \o t) = Len(s) + Len(t)
         /\ \A i \in 1 .. Len(s) : (s \o t)[i] = s[i]
         /\ \A i \in 1 .. Len(t) : (s \o t)[Len(s) + i] = t[i]
  BY DEF IsList

LEMMA ListAppend ==
  ASSUME NEW s, IsList(s), NEW x
  PROVE  /\ IsList(Append(s, x)) /\ Len(Append(s, x)) = Len(s) + 1
         /\ \A i \in 1 .. Len(s) : Append(s, x)[i] = s[i]
         /\ Append(s, x)[Len(s) + 1] = x
  BY DEF IsList

LEMMA ListTail ==
  ASSUME NEW s, IsList(s), Len(s) > 0
  PROVE  /\ IsList(Tail(s)) /\ Len(Tail(s)) = Len(s) - 1
         /\ \A i \in 1 .. Len(s) - 1 : Tail(s)[i] = s[i + 1]
         /\ Head(s) = s[1]
  BY DEF IsList

LEMMA ListEmpty ==
  ASSUME NEW s, IsList(s) PROVE (s = <<>>) = (Len(s) = 0)
  BY DEF IsList

LEMMA ListUpdate ==
  ASSUME NEW s, IsList(s), NEW x, NEW k \in 1 .. Len(s)
  PROVE  LET u == [s EXCEPT ![k] = x] IN
         /\ IsList(u) /\ Len(u) = Len(s)
         /\ \A i \in 1 .. Len(s) : u[i] = IF i = k THEN x ELSE s[i]
  BY DEF IsList

-----------------------------------------------------------------------------
(***************************************************************************)
(* FlattenSeq, which is defined by recursion: with one more sequence at    *)
(* the end, that sequence comes behind what was flattened.                 *)
(***************************************************************************)
SameUpTo(s, t, n) == \A i \in 1 .. n : s[i] = t[i]
Joined(a, b) == a \o b
Flattened(f, s, i) == IF i = 1 THEN s[i] ELSE Joined(f[i - 1], s[i])
IsFlattening(f, s, n) == f = [i \in 1 .. n |-> Flattened(f, s, i)]

LEMMA FlatteningItem ==
  ASSUME NEW f, NEW s, NEW n \in Nat, IsFlattening(f, s, n), NEW i \in 1 .. n
  PROVE  f[i] = Flattened(f, s, i)
  BY DEF IsFlattening

LEMMA FlatteningNext ==
  ASSUME NEW f, NEW s, NEW n \in Nat, IsFlattening(f, s, n),
         NEW i \in Nat \ {0}, NEW j \in 1 .. n, j = i + 1
  PROVE  f[j] = Joined(f[i], s[j])
<1>1. f[j] = Flattened(f, s, j)
  BY FlatteningItem
<1>2. j # 1 /\ j - 1 = i
  OBVIOUS
<1> QED
  BY <1>1, <1>2, Zenon DEF Flattened

LEMMA FlatteningExists ==
  ASSUME NEW s, NEW n \in Nat
  PROVE  \E f : IsFlattening(f, s, n)
<1> DEFINE S == {k \in Nat : \E f : IsFlattening(f, s, k)}
<1>1. 0 \in S
  <2> DEFINE e == [i \in 1 .. 0 |-> 0]
  <2>1. IsFlattening(e, s, 0)
    BY DEF IsFlattening
  <2> HIDE DEF e
  <2> QED
    BY <2>1, Zenon
<1>2. ASSUME NEW k \in Nat, k \in S PROVE k + 1 \in S
  <2>1. PICK f : IsFlattening(f, s, k)
    BY <1>2
  <2> DEFINE g == [i \in 1 .. k + 1 |-> Flattened(f, s, i)]
  <2>2. ASSUME NEW i \in 1 .. k PROVE g[i] = f[i]
    <3>1. f[i] = Flattened(f, s, i) /\ i \in 1 .. k + 1
      BY <2>1, FlatteningItem
    <3> QED
      BY <3>1
  <2>3. ASSUME NEW i \in 1 .. k + 1 PROVE Flattened(g, s, i) = Flattened(f, s, i)
    <3>1. i # 1 => i - 1 \in 1 .. k
      OBVIOUS
    <3> HIDE DEF g
    <3>2. i # 1 => g[i - 1] = f[i - 1]
      BY <2>2, <3>1
    <3> QED
      BY <3>2, Zenon DEF Flattened
  <2>4. IsFlattening(g, s, k + 1)
    BY <2>3, Zenon DEF IsFlattening
  <2>5. k + 1 \in Nat
    OBVIOUS
  <2> HIDE DEF g
  <2> QED
    BY <2>4, <2>5, Zenon
<1> HIDE DEF S
<1>3. n \in S
  BY <1>1, <1>2, SetInduction
<1> QED
  BY <1>3 DEF S

LEMMA FlatteningsAgree ==
  ASSUME NEW s, NEW t, NEW m \in Nat, NEW n \in Nat, m <= n,
         SameUpTo(s, t, m),
         NEW f, IsFlattening(f, s, m), NEW g, IsFlattening(g, t, n)
  PROVE  SameUpTo(f, g, m)
<1> DEFINE S == {k \in Nat : k \in 1 .. m => f[k] = g[k]}
<1>1. 0 \in S
  OBVIOUS
<1>2. ASSUME NEW k \in Nat, k \in S PROVE k + 1 \in S
  <2> DEFINE j == k + 1
  <2>1. SUFFICES ASSUME j \in 1 .. m PROVE f[j] = g[j]
    OBVIOUS
  <2>2. j \in 1 .. n /\ s[j] = t[j]
    BY <2>1 DEF SameUpTo
  <2>3. CASE k = 0
    <3>1. j = 1
      BY <2>3
    <3> HIDE DEF j
    <3>2. f[j] = Flattened(f, s, j) /\ g[j] = Flattened(g, t, j)
      BY <2>1, <2>2, FlatteningItem
    <3> QED
      BY <2>2, <3>1, <3>2, Zenon DEF Flattened
  <2>4. CASE k # 0
    <3>1. f[k] = g[k] /\ k \in Nat \ {0} /\ j = k + 1
      BY <1>2, <2>1, <2>4
    <3> HIDE DEF j
    <3>2. f[j] = Joined(f[k], s[j]) /\ g[j] = Joined(g[k], t[j])
      BY <2>1, <2>2, <3>1, FlatteningNext
    <3> QED
      BY <2>2, <3>1, <3>2, Zenon
  <2> QED
    BY <2>3, <2>4
<1> HIDE DEF S
<1>3. \A k \in Nat : k \in S
  BY <1>1, <1>2, SetInduction
<1> QED
  BY <1>3 DEF S, SameUpTo

\* What is flattened is the last item of a flattening.
LEMMA FlattenIs ==
  ASSUME NEW s, IsList(s), Len(s) > 0
  PROVE  \E f : IsFlattening(f, s, Len(s)) /\ FlattenSeq(s) = f[Len(s)]
<1> DEFINE f == CHOOSE f : f = [i \in 1 .. Len(s) |->
                                  IF i = 1 THEN s[i] ELSE f[i - 1] \o s[i]]
<1>1. FlattenSeq(s) = f[Len(s)]
  <2>1. Len(s) # 0
    BY DEF IsList
  <2> QED
    BY <2>1, Zenon DEF FlattenSeq
<1>2. IsFlattening(f, s, Len(s))
  <2>1. \E h : IsFlattening(h, s, Len(s))
    BY FlatteningExists DEF IsList
  <2> QED
    BY <2>1, Zenon DEF IsFlattening, Flattened, Joined
<1> HIDE DEF f
<1> QED
  BY <1>1, <1>2, Zenon

LEMMA FlattenEmpty ==
  ASSUME NEW s, Len(s) = 0 PROVE FlattenSeq(s) = s
  BY DEF FlattenSeq

LEMMA FlattenSnoc ==
  ASSUME NEW s, NEW t, IsList(s), IsList(t), Len(t) = Len(s) + 1, Len(s) > 0,
         \A i \in 1 .. Len(s) : s[i] = t[i]
  PROVE  FlattenSeq(t) = FlattenSeq(s) \o t[Len(t)]
<1> DEFINE n == Len(s)
<1>1. n \in Nat /\ n > 0 /\ Len(t) = n + 1 /\ n + 1 > 0
  BY DEF IsList
<1>2. PICK f : IsFlattening(f, s, n) /\ FlattenSeq(s) = f[n]
  BY <1>1, FlattenIs
<1>3. PICK g : IsFlattening(g, t, n + 1) /\ FlattenSeq(t) = g[n + 1]
  BY <1>1, FlattenIs
<1> HIDE DEF n
<1>4. SameUpTo(f, g, n)
  <2>1. SameUpTo(s, t, n)
    BY DEF n, SameUpTo
  <2>2. n <= n + 1 /\ n + 1 \in Nat
    BY <1>1
  <2> QED
    <3>1. n + 1 \in Nat
      BY <2>2
    <3> HIDE DEF n
    <3> QED
      BY <1>1, <1>2, <1>3, <2>1, <2>2, <3>1, FlatteningsAgree
<1>5. g[n + 1] = Joined(g[n], t[n + 1])
  <2>1. n \in Nat \ {0} /\ n + 1 \in Nat /\ n + 1 \in 1 .. n + 1
    BY <1>1
  <2> QED
    BY <1>3, <2>1, FlatteningNext
<1>6. g[n] = f[n]
  BY <1>1, <1>4 DEF SameUpTo
<1>7. FlattenSeq(t) = Joined(FlattenSeq(s), t[n + 1])
  BY <1>2, <1>3, <1>5, <1>6, Zenon
<1> QED
  BY <1>1, <1>7, Zenon DEF Joined

LEMMA FlattenOne ==
  ASSUME NEW s, IsList(s), Len(s) = 1 PROVE FlattenSeq(s) = s[1]
<1>1. Len(s) > 0
  OBVIOUS
<1>2. PICK f : IsFlattening(f, s, Len(s)) /\ FlattenSeq(s) = f[Len(s)]
  BY <1>1, FlattenIs, Zenon
<1>3. f[1] = Flattened(f, s, 1)
  BY <1>2, FlatteningItem
<1> QED
  BY <1>2, <1>3, Zenon DEF Flattened
=============================================================================
