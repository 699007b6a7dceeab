------------------------- MODULE ValueLabelsProofs -------------------------
(***************************************************************************)
(* Value labels, for all columns, tables and cells: no label has bytes     *)
(* from outside its table, an ENUM that COPY wrote is the ENUM that is     *)
(* read, and no cell is shown under the label of another value.            *)
(***************************************************************************)
EXTENDS ValueLabels, ProofLemmas, FiniteSetTheorems

LEMMA ListEqual ==
  ASSUME NEW s, NEW t, IsList(s), IsList(t), Len(s) = Len(t),
         s = [i \in DOMAIN s |-> s[i]], t = [i \in DOMAIN t |-> t[i]],
         \A i \in 1 .. Len(s) : s[i] = t[i]
  PROVE  s = t
<1>1. DOMAIN s = DOMAIN t /\ \A i \in DOMAIN s : s[i] = t[i]
  BY DEF IsList
<1> QED
  BY <1>1, Zenon

\* Of a set of positions that is not empty, one is last.
LEMMA GreatestExists ==
  ASSUME NEW n \in Nat, NEW S, S \subseteq 1 .. n, S # {}
  PROVE  \E i \in S : \A j \in S : j <= i
<1> DEFINE R == {k \in 0 .. n : n - k \in S}
<1>1. R \subseteq Nat /\ R # {}
  <2>1. PICK i \in S : TRUE
    OBVIOUS
  <2>2. n - i \in 0 .. n /\ n - (n - i) = i
    BY <2>1
  <2>3. n - i \in R
    BY <2>1, <2>2, Zenon
  <2>4. R \subseteq Nat
    OBVIOUS
  <2> HIDE DEF R
  <2> QED
    BY <2>3, <2>4, Zenon
<1>2. PICK k \in R : \A j \in R : k <= j
  BY <1>1, LeastExists
<1>3. ASSUME NEW j \in S PROVE j <= n - k
  <2>1. n - j \in R /\ j \in 1 .. n
    <3>1. n - j \in 0 .. n /\ n - (n - j) = j
      BY <1>3
    <3> QED
      BY <1>3, <3>1
  <2>2. k <= n - j
    BY <1>2, <2>1
  <2> QED
    BY <2>1, <2>2
<1> QED
  BY <1>2, <1>3

-----------------------------------------------------------------------------
(***************************************************************************)
(* The text of a table: each text is where its offset says.                *)
(***************************************************************************)
TextLists == Seq(Seq(Bytes))
Ended(texts) == [i \in 1 .. Len(texts) |-> Append(texts[i], NUL)]

LEMMA TextListsAreLists ==
  ASSUME NEW texts \in TextLists PROVE IsList(texts) /\ Len(texts) \in Nat
  BY DEF TextLists, IsList

LEMMA EndedType ==
  ASSUME NEW texts \in TextLists
  PROVE  /\ Ended(texts) \in TextLists
         /\ IsList(Ended(texts)) /\ Len(Ended(texts)) = Len(texts)
         /\ \A i \in 1 .. Len(texts) : Ended(texts)[i] = Append(texts[i], NUL)
<1>1. \A i \in 1 .. Len(texts) : Append(texts[i], NUL) \in Seq(Bytes)
  BY LabelsAssumption DEF TextLists
<1>2. Len(texts) \in Nat
  BY DEF TextLists
<1> QED
  BY <1>1, <1>2 DEF Ended, TextLists, IsList

LEMMA SeqConcat ==
  ASSUME NEW B, NEW s \in Seq(B), NEW t \in Seq(B)
  PROVE  /\ s \o t \in Seq(B) /\ Len(s \o t) = Len(s) + Len(t)
         /\ \A i \in 1 .. Len(s) : (s \o t)[i] = s[i]
         /\ \A i \in 1 .. Len(t) : (s \o t)[Len(s) + i] = t[i]
  OBVIOUS

LEMMA FrontFacts ==
  ASSUME NEW B, NEW s \in Seq(B), NEW n \in 0 .. Len(s)
  PROVE  /\ SubSeq(s, 1, n) \in Seq(B) /\ Len(SubSeq(s, 1, n)) = n
         /\ \A i \in 1 .. n : SubSeq(s, 1, n)[i] = s[i]
         /\ \A i \in 0 .. n : SubSeq(SubSeq(s, 1, n), 1, i) = SubSeq(s, 1, i)
<1>1. /\ SubSeq(s, 1, n) \in Seq(B) /\ Len(SubSeq(s, 1, n)) = n
      /\ \A i \in 1 .. n : SubSeq(s, 1, n)[i] = s[i]
  OBVIOUS
<1>2. ASSUME NEW i \in 0 .. n
      PROVE  SubSeq(SubSeq(s, 1, n), 1, i) = SubSeq(s, 1, i)
  <2> DEFINE t == SubSeq(s, 1, n)
  <2>1. t \in Seq(B) /\ Len(t) = n /\ \A j \in 1 .. n : t[j] = s[j]
    BY <1>1
  <2> HIDE DEF t
  <2>2. /\ SubSeq(t, 1, i) \in Seq(B) /\ Len(SubSeq(t, 1, i)) = i
        /\ \A j \in 1 .. i : SubSeq(t, 1, i)[j] = t[j]
    BY <2>1
  <2>3. /\ SubSeq(s, 1, i) \in Seq(B) /\ Len(SubSeq(s, 1, i)) = i
        /\ \A j \in 1 .. i : SubSeq(s, 1, i)[j] = s[j]
    OBVIOUS
  <2>4. SubSeq(t, 1, i) = SubSeq(s, 1, i)
    BY <2>1, <2>2, <2>3
  <2> QED
    BY <2>4 DEF t
<1> QED
  BY <1>1, <1>2, Zenon

LEMMA BlobSnoc ==
  ASSUME NEW texts \in TextLists, NEW n \in Nat, Len(texts) = n + 1
  PROVE  Blob(texts) = Blob(SubSeq(texts, 1, n)) \o Append(texts[n + 1], NUL)
<1> DEFINE front == SubSeq(texts, 1, n)
<1>1. /\ front \in TextLists /\ Len(front) = n
      /\ \A i \in 1 .. n : front[i] = texts[i]
  BY FrontFacts DEF TextLists
<1>2. Blob(texts) = FlattenSeq(Ended(texts)) /\ Blob(front) = FlattenSeq(Ended(front))
  BY Zenon DEF Blob, Ended
<1>3. /\ IsList(Ended(texts)) /\ Len(Ended(texts)) = n + 1
      /\ Ended(texts)[n + 1] = Append(texts[n + 1], NUL)
  <2>1. n + 1 \in 1 .. Len(texts)
    OBVIOUS
  <2> QED
    BY <2>1, EndedType
<1>4. IsList(Ended(front)) /\ Len(Ended(front)) = n
  BY <1>1, EndedType
<1>5. ASSUME NEW i \in 1 .. n PROVE Ended(front)[i] = Ended(texts)[i]
  <2>1. i \in 1 .. Len(front) /\ i \in 1 .. Len(texts)
    BY <1>1
  <2> HIDE DEF front
  <2>2. Ended(front)[i] = Append(front[i], NUL)
    BY <1>1, <2>1, EndedType, Zenon
  <2>3. Ended(texts)[i] = Append(texts[i], NUL)
    BY <2>1, EndedType, Zenon
  <2> QED
    BY <1>1, <2>2, <2>3, Zenon
<1>6. Append(texts[n + 1], NUL) \in Seq(Bytes)
  <2>1. texts[n + 1] \in Seq(Bytes)
    BY DEF TextLists
  <2> QED
    BY <2>1, LabelsAssumption
<1> HIDE DEF front
<1>7. CASE n = 0
  <2>1. Blob(texts) = Append(texts[n + 1], NUL)
    BY <1>2, <1>3, <1>7, FlattenOne
  <2>2. Blob(front) = <<>>
    BY <1>1, <1>2, <1>4, <1>7, FlattenEmpty, EndedType DEF TextLists
  <2> DEFINE x == Append(texts[n + 1], NUL)
  <2>3. x \in Seq(Bytes)
    BY <1>6
  <2> HIDE DEF x
  <2>4. <<>> \o x = x
    BY <2>3
  <2>5. Blob(texts) = Blob(front) \o Append(texts[n + 1], NUL)
    BY <2>1, <2>2, <2>4, Zenon DEF x
  <2> QED
    BY <2>5, Zenon DEF front
<1>8. CASE n # 0
  <2>1. Len(Ended(front)) > 0
    BY <1>4, <1>8
  <2>2. FlattenSeq(Ended(texts)) = Joined(FlattenSeq(Ended(front)), Ended(texts)[n + 1])
    BY <1>3, <1>4, <1>5, <2>1, FlattenSnoc, Zenon DEF Joined
  <2> QED
    BY <1>2, <1>3, <2>2, Zenon DEF Joined, front
<1> QED
  BY <1>7, <1>8, Zenon

LEMMA BlobType ==
  ASSUME NEW texts \in TextLists PROVE Blob(texts) \in Seq(Bytes)
<1> DEFINE S == {n \in Nat : \A t \in TextLists : Len(t) = n => Blob(t) \in Seq(Bytes)}
<1>1. 0 \in S
  <2>1. ASSUME NEW t \in TextLists, Len(t) = 0 PROVE Blob(t) \in Seq(Bytes)
    <3>1. Blob(t) = FlattenSeq(Ended(t))
      BY Zenon DEF Blob, Ended
    <3>2. Len(Ended(t)) = 0 /\ Ended(t) \in TextLists
      BY <2>1, EndedType
    <3>3. Blob(t) = Ended(t)
      BY <3>1, <3>2, FlattenEmpty
    <3>4. Ended(t) = <<>>
      BY <3>2 DEF TextLists
    <3> QED
      BY <3>3, <3>4
  <2> QED
    BY <2>1
<1>2. ASSUME NEW n \in Nat, n \in S PROVE n + 1 \in S
  <2>1. ASSUME NEW t \in TextLists, Len(t) = n + 1 PROVE Blob(t) \in Seq(Bytes)
    <3>1. Blob(t) = Blob(SubSeq(t, 1, n)) \o Append(t[n + 1], NUL)
      BY <2>1, BlobSnoc
    <3>2. SubSeq(t, 1, n) \in TextLists /\ Len(SubSeq(t, 1, n)) = n
      BY <2>1, FrontFacts DEF TextLists
    <3>3. Blob(SubSeq(t, 1, n)) \in Seq(Bytes)
      BY <1>2, <3>2
    <3>4. Append(t[n + 1], NUL) \in Seq(Bytes)
      <4>1. t[n + 1] \in Seq(Bytes)
        BY <2>1 DEF TextLists
      <4> QED
        BY <4>1, LabelsAssumption
    <3> DEFINE x == Blob(SubSeq(t, 1, n))
               y == Append(t[n + 1], NUL)
    <3>5. x \in Seq(Bytes) /\ y \in Seq(Bytes)
      BY <3>3, <3>4
    <3> HIDE DEF x, y
    <3>6. x \o y \in Seq(Bytes)
      BY <3>5
    <3> QED
      BY <3>1, <3>6 DEF x, y
  <2> QED
    BY <2>1
<1> HIDE DEF S
<1>3. \A n \in Nat : n \in S
  BY <1>1, <1>2, SetInduction
<1> QED
  BY <1>3 DEF S, TextLists

\* Text i of texts is in their blob, with a NUL behind it.
IsPlacedAt(text, blob, off) ==
  /\ off \in Nat /\ off + Len(text) < Len(blob)
  /\ \A k \in 1 .. Len(text) : blob[off + k] = text[k]
  /\ blob[off + Len(text) + 1] = NUL

LEMMA BlobPlaces ==
  ASSUME NEW texts \in TextLists, NEW i \in 1 .. Len(texts)
  PROVE  IsPlacedAt(texts[i], Blob(texts), TextOffset(texts, i))
<1> DEFINE P(t) == \A j \in 1 .. Len(t) : IsPlacedAt(t[j], Blob(t), TextOffset(t, j))
           S == {n \in Nat : \A t \in TextLists : Len(t) = n => P(t)}
<1>1. 0 \in S
  OBVIOUS
<1>2. ASSUME NEW n \in Nat, n \in S PROVE n + 1 \in S
  <2>1. ASSUME NEW t \in TextLists, Len(t) = n + 1 PROVE P(t)
    <3> DEFINE x == Blob(SubSeq(t, 1, n))
               y == Append(t[n + 1], NUL)
    <3>1. Blob(t) = x \o y
      BY <2>1, BlobSnoc
    <3>2. /\ SubSeq(t, 1, n) \in TextLists /\ Len(SubSeq(t, 1, n)) = n
          /\ \A j \in 1 .. n : SubSeq(t, 1, n)[j] = t[j]
          /\ \A j \in 0 .. n : SubSeq(SubSeq(t, 1, n), 1, j) = SubSeq(t, 1, j)
      BY <2>1, FrontFacts DEF TextLists
    <3>3. P(SubSeq(t, 1, n))
      BY <1>2, <3>2
    <3>4. t[n + 1] \in Seq(Bytes)
      BY <2>1 DEF TextLists
    <3>5. /\ y \in Seq(Bytes) /\ Len(y) = Len(t[n + 1]) + 1 /\ y[Len(t[n + 1]) + 1] = NUL
          /\ \A k \in 1 .. Len(t[n + 1]) : y[k] = t[n + 1][k]
      BY <3>4, LabelsAssumption
    <3>6. x \in Seq(Bytes)
      BY <3>2, BlobType
    <3> HIDE DEF x, y
    <3>7. x \in Seq(Bytes) /\ y \in Seq(Bytes)
      BY <3>5, <3>6
    <3> DEFINE z == x \o y
    <3>8. /\ z \in Seq(Bytes) /\ Len(z) = Len(x) + Len(y)
          /\ \A k \in 1 .. Len(x) : z[k] = x[k]
          /\ \A k \in 1 .. Len(y) : z[Len(x) + k] = y[k]
      BY <3>7, SeqConcat
    <3> HIDE DEF z
    <3>9. ASSUME NEW j \in 1 .. n + 1 PROVE IsPlacedAt(t[j], z, TextOffset(t, j))
      <4>1. CASE j = n + 1
        <5>1. TextOffset(t, j) = Len(x)
          <6>1. j - 1 = n
            BY <4>1
          <6> QED
            BY <6>1, Zenon DEF TextOffset, x
        <5>2. Len(x) \in Nat /\ Len(t[n + 1]) \in Nat
          BY <3>4, <3>6
        <5>3. /\ Len(x) + Len(t[n + 1]) < Len(z)
              /\ z[Len(x) + Len(t[n + 1]) + 1] = NUL
          <6>1. Len(t[n + 1]) + 1 \in 1 .. Len(y)
            BY <3>5, <5>2
          <6>2. z[Len(x) + (Len(t[n + 1]) + 1)] = NUL
            BY <3>5, <3>8, <6>1
          <6>3. Len(x) + (Len(t[n + 1]) + 1) = Len(x) + Len(t[n + 1]) + 1
            BY <5>2
          <6> QED
            BY <3>5, <3>8, <5>2, <6>2, <6>3
        <5>4. ASSUME NEW k \in 1 .. Len(t[n + 1]) PROVE z[Len(x) + k] = t[n + 1][k]
          <6>1. k \in 1 .. Len(y)
            BY <3>5, <5>2
          <6> QED
            BY <3>5, <3>8, <6>1
        <5> QED
          BY <4>1, <5>1, <5>2, <5>3, <5>4 DEF IsPlacedAt
      <4>2. CASE j # n + 1
        <5>1. j \in 1 .. n /\ j - 1 \in 0 .. n
          BY <4>2
        <5>2. TextOffset(t, j) = TextOffset(SubSeq(t, 1, n), j)
          BY <3>2, <5>1, Zenon DEF TextOffset
        <5>3. IsPlacedAt(t[j], x, TextOffset(t, j))
          <6>1. SubSeq(t, 1, n)[j] = t[j] /\ j \in 1 .. Len(SubSeq(t, 1, n))
            BY <3>2, <5>1
          <6> QED
            BY <3>3, <5>2, <6>1, Zenon DEF x
        <5> DEFINE off == TextOffset(t, j)
                   text == t[j]
        <5>4. text \in Seq(Bytes)
          BY <2>1 DEF TextLists
        <5>5. IsPlacedAt(text, x, off)
          BY <5>3
        <5> HIDE DEF off, text
        <5>6. /\ off \in Nat /\ Len(text) \in Nat /\ Len(x) \in Nat /\ Len(y) \in Nat
              /\ off + Len(text) < Len(x) /\ off + Len(text) < Len(z)
          BY <3>5, <3>6, <3>8, <5>4, <5>5 DEF IsPlacedAt
        <5>7. ASSUME NEW k \in 1 .. Len(text) PROVE z[off + k] = text[k]
          <6>1. off + k \in 1 .. Len(x)
            BY <5>6
          <6> QED
            BY <3>8, <5>5, <6>1 DEF IsPlacedAt
        <5>8. z[off + Len(text) + 1] = NUL
          <6>1. off + Len(text) + 1 \in 1 .. Len(x)
            BY <5>6
          <6> QED
            BY <3>8, <5>5, <6>1 DEF IsPlacedAt
        <5>9. IsPlacedAt(text, z, off)
          BY <5>6, <5>7, <5>8 DEF IsPlacedAt
        <5> QED
          BY <5>9 DEF off, text
      <4> QED
        BY <4>1, <4>2
    <3> QED
      BY <2>1, <3>1, <3>9, Zenon DEF z
  <2> QED
    BY <2>1
<1>3. \A n \in Nat : n \in S
  <2> HIDE DEF S
  <2> QED
    BY <1>1, <1>2, SetInduction
<1>4. Len(texts) \in Nat
  BY DEF TextLists
<1> HIDE DEF P
<1>5. P(texts)
  BY <1>3, <1>4
<1> QED
  BY <1>5 DEF P

-----------------------------------------------------------------------------
(***************************************************************************)
(* Ranks: in a finite set of numbers they go from 1 to its size.           *)
(***************************************************************************)
Rank(S, v) == Cardinality({w \in S : w <= v})

LEMMA RankFacts ==
  ASSUME NEW S, S \subseteq Int, IsFiniteSet(S)
  PROVE  /\ Cardinality(S) \in Nat
         /\ \A v \in S : Rank(S, v) \in 1 .. Cardinality(S)
         /\ \A v, w \in S : Rank(S, v) = Rank(S, w) => v = w
         /\ \A i \in 1 .. Cardinality(S) : \E v \in S : Rank(S, v) = i
<1> DEFINE UpTo(v) == {w \in S : w <= v}
           n == Cardinality(S)
<1>1. \A v : UpTo(v) \subseteq S /\ Rank(S, v) = Cardinality(UpTo(v))
  BY DEF Rank
<1>2. \A v : IsFiniteSet(UpTo(v)) /\ Cardinality(UpTo(v)) \in Nat
             /\ Cardinality(UpTo(v)) <= n
  BY <1>1, FS_Subset, FS_CardinalityType
<1>3. n \in Nat
  BY FS_CardinalityType
<1>4. ASSUME NEW v \in S PROVE Rank(S, v) \in 1 .. n
  <2>1. v \in UpTo(v)
    OBVIOUS
  <2>2. Cardinality(UpTo(v)) # 0
    BY <1>2, <2>1, FS_EmptySet
  <2> HIDE DEF UpTo
  <2> QED
    BY <1>1, <1>2, <1>3, <2>2
<1>5. ASSUME NEW a \in S, NEW b \in S, a < b, Rank(S, a) = Rank(S, b) PROVE FALSE
  <2>1. \A d \in UpTo(a) : d \in UpTo(b)
    BY <1>5
  <2>2. b \in UpTo(b) /\ b \notin UpTo(a)
    BY <1>5
  <2> HIDE DEF UpTo
  <2>3. UpTo(a) = UpTo(b)
    BY <1>1, <1>2, <1>5, <2>1, FS_Subset
  <2> QED
    BY <2>2, <2>3
<1>6. ASSUME NEW v \in S, NEW w \in S, Rank(S, v) = Rank(S, w) PROVE v = w
  <2>1. ~ v < w /\ ~ w < v
    BY <1>5, <1>6
  <2> QED
    BY <2>1
<1>7. ASSUME NEW i \in 1 .. n PROVE \E v \in S : Rank(S, v) = i
  <2> DEFINE f == [v \in S |-> Rank(S, v)]
  <2>1. f \in [S -> 1 .. n]
    BY <1>4
  <2>2. IsInjective(f)
    BY <1>6 DEF IsInjective
  <2>3. f \in Injection(S, 1 .. n)
    BY <2>1, <2>2, Zenon DEF Injection
  <2>4. IsFiniteSet(1 .. n) /\ Cardinality(1 .. n) = n
    BY <1>3, FS_Interval
  <2> HIDE DEF f
  <2>5. f \in Surjection(S, 1 .. n)
    BY <2>3, <2>4, FS_Injection
  <2>6. \E v \in S : f[v] = i
    BY <2>5, Zenon DEF Surjection
  <2> QED
    BY <2>6 DEF f
<1> QED
  BY <1>3, <1>4, <1>6, <1>7, Zenon

\* A map from values to texts, as ReadValueLabelTable keeps it.
LabelMap(m) ==
  /\ IsFiniteSet(DOMAIN m) /\ DOMAIN m \subseteq Int32
  /\ \A v \in DOMAIN m : m[v] \in Seq(Bytes)

LEMMA SortedFacts ==
  ASSUME NEW m, LabelMap(m)
  PROVE  /\ Len(SortedValues(m)) = Cardinality(DOMAIN m)
         /\ \A i \in 1 .. Cardinality(DOMAIN m) :
              SortedValues(m)[i] \in DOMAIN m /\ Rank(DOMAIN m, SortedValues(m)[i]) = i
<1>1. DOMAIN m \subseteq Int /\ IsFiniteSet(DOMAIN m)
  BY LabelsAssumption DEF LabelMap, Int32
<1> DEFINE n == Cardinality(DOMAIN m)
           At(i) == CHOOSE v \in DOMAIN m : Rank(DOMAIN m, v) = i
<1>2. n \in Nat /\ \A i \in 1 .. n : \E v \in DOMAIN m : Rank(DOMAIN m, v) = i
  BY <1>1, RankFacts
<1>3. \A i \in 1 .. n : At(i) \in DOMAIN m /\ Rank(DOMAIN m, At(i)) = i
  BY <1>2, Zenon
<1>4. SortedValues(m) = [i \in 1 .. n |-> At(i)]
  BY Zenon DEF SortedValues, Rank
<1> HIDE DEF n, At
<1>5. Len(SortedValues(m)) = n /\ \A i \in 1 .. n : SortedValues(m)[i] = At(i)
  BY <1>2, <1>4
<1> QED
  BY <1>3, <1>5, Zenon DEF n

LEMMA EnumFacts ==
  ASSUME NEW m, LabelMap(m)
  PROVE  /\ IsList(EnumTexts(m)) /\ Len(EnumTexts(m)) = Cardinality(DOMAIN m)
         /\ \A i \in 1 .. Len(EnumTexts(m)) : EnumTexts(m)[i] = m[SortedValues(m)[i]]
         /\ DOMAIN EnumIndex(m) = DOMAIN m
         /\ \A v \in DOMAIN m : /\ EnumIndex(m)[v] \in 1 .. Len(EnumTexts(m))
                                /\ EnumTexts(m)[EnumIndex(m)[v]] = m[v]
                                /\ EnumIndex(m)[v] = Rank(DOMAIN m, v)
         /\ \A i \in 1 .. Len(EnumTexts(m)) : \E v \in DOMAIN m : EnumIndex(m)[v] = i
<1> DEFINE n == Cardinality(DOMAIN m)
           s == SortedValues(m)
           d == DOMAIN m
<1>1. d \subseteq Int /\ IsFiniteSet(d)
  BY LabelsAssumption DEF LabelMap, Int32
<1>2. /\ n \in Nat
      /\ \A v \in d : Rank(d, v) \in 1 .. n
      /\ \A v, w \in d : Rank(d, v) = Rank(d, w) => v = w
  BY <1>1, RankFacts
<1>3. Len(s) = n /\ \A i \in 1 .. n : s[i] \in d /\ Rank(d, s[i]) = i
  BY SortedFacts
<1>4. EnumTexts(m) = [i \in 1 .. n |-> m[s[i]]]
  BY <1>3, Zenon DEF EnumTexts
<1>5. EnumIndex(m) = [v \in d |-> CHOOSE i \in 1 .. n : s[i] = v]
  <2>1. EnumIndex(m) = [v \in d |-> CHOOSE i \in 1 .. Len(s) : s[i] = v]
    BY Zenon DEF EnumIndex
  <2>2. Len(s) = n
    BY <1>3
  <2> HIDE DEF n, s, d
  <2> QED
    BY <2>1, <2>2
<1> HIDE DEF n, s, d
<1>6. /\ IsList(EnumTexts(m)) /\ Len(EnumTexts(m)) = n
      /\ \A i \in 1 .. n : EnumTexts(m)[i] = m[s[i]]
  BY <1>2, <1>4 DEF IsList
<1>7. ASSUME NEW v \in d PROVE EnumIndex(m)[v] = Rank(d, v) /\ s[Rank(d, v)] = v
  <2> DEFINE r == Rank(d, v)
  <2>1. r \in 1 .. n /\ s[r] \in d /\ Rank(d, s[r]) = r
    BY <1>2, <1>3
  <2>2. s[r] = v
    BY <1>2, <2>1
  <2>3. ASSUME NEW i \in 1 .. n, s[i] = v PROVE i = r
    BY <1>3, <2>3
  <2> HIDE DEF r
  <2>4. (CHOOSE i \in 1 .. n : s[i] = v) = r
    BY <2>1, <2>2, <2>3, Zenon
  <2>5. EnumIndex(m)[v] = r
    BY <1>5, <2>4
  <2> QED
    BY <2>2, <2>5 DEF r
<1>8. DOMAIN EnumIndex(m) = d
  BY <1>5, Zenon
<1>9. ASSUME NEW v \in d
      PROVE  EnumIndex(m)[v] \in 1 .. n /\ EnumTexts(m)[EnumIndex(m)[v]] = m[v]
  BY <1>2, <1>6, <1>7
<1>10. ASSUME NEW i \in 1 .. n PROVE \E v \in d : EnumIndex(m)[v] = i
  <2>1. s[i] \in d /\ Rank(d, s[i]) = i
    BY <1>3
  <2>2. EnumIndex(m)[s[i]] = i
    BY <1>7, <2>1
  <2> QED
    BY <2>1, <2>2
<1> QED
  BY <1>6, <1>7, <1>8, <1>9, <1>10, Zenon DEF n, s, d

-----------------------------------------------------------------------------
(***************************************************************************)
(* Reading a table.                                                        *)
(***************************************************************************)
\* text is in blob at off, without a NUL, up to a NUL or the end of blob.
IsReadAt(text, blob, off) ==
  /\ text \in Seq(Bytes)
  /\ off + Len(text) <= Len(blob)
  /\ \A k \in 1 .. Len(text) : text[k] = blob[off + k] /\ text[k] # NUL
  /\ off + Len(text) < Len(blob) => blob[off + Len(text) + 1] = NUL

LEMMA TextAtReads ==
  ASSUME NEW t, t.txt \in Seq(Bytes), NEW off \in Nat, off < Len(t.txt)
  PROVE  IsReadAt(TextAt(t, off), t.txt, off)
<1> DEFINE b == t.txt
           n == Len(b) - off
           byte(k) == IF off + k <= Len(b) THEN b[off + k] ELSE Outside
           ends == {k \in 0 .. n : k = n \/ byte(k + 1) = NUL}
           len == CHOOSE k \in ends : \A j \in ends : k <= j
<1>1. n \in Nat /\ n > 0 /\ Len(b) \in Nat /\ n = Len(b) - off
  OBVIOUS
<1>2. TextAt(t, off) = [k \in 1 .. len |-> byte(k)]
  BY Zenon DEF TextAt, ScanLimit
<1>3. \A k \in 1 .. n : byte(k) = b[off + k] /\ b[off + k] \in Bytes
  BY <1>1
<1>4. b \in Seq(Bytes)
  OBVIOUS
<1> HIDE DEF b, n, byte
<1>5. n \in ends /\ ends \subseteq Nat
  BY <1>1
<1>6. \E k \in ends : \A j \in ends : k <= j
  BY <1>5, LeastExists
<1>7. len \in ends /\ \A j \in ends : len <= j
  BY <1>6, Zenon
<1>8. len \in 0 .. n /\ (len = n \/ byte(len + 1) = NUL)
  BY <1>7
<1>9. ASSUME NEW k \in 1 .. len PROVE byte(k) # NUL
  <2>1. SUFFICES ASSUME byte(k) = NUL PROVE FALSE
    OBVIOUS
  <2>2. k - 1 \in 0 .. n /\ k - 1 + 1 = k
    BY <1>1, <1>8
  <2>3. k - 1 \in ends
    BY <2>1, <2>2
  <2>4. len <= k - 1
    BY <1>7, <2>3
  <2> QED
    BY <1>8, <2>4
<1> HIDE DEF ends, len
<1> DEFINE text == [k \in 1 .. len |-> byte(k)]
<1>10. \A k \in 1 .. len : byte(k) = b[off + k] /\ byte(k) \in Bytes
  BY <1>1, <1>3, <1>8
<1>11. /\ text \in Seq(Bytes) /\ Len(text) = len
       /\ \A k \in 1 .. len : text[k] = byte(k)
  BY <1>1, <1>8, <1>10
<1> HIDE DEF text
<1>12. off + len < Len(b) => b[off + len + 1] = NUL
  <2>1. SUFFICES ASSUME off + len < Len(b) PROVE b[off + len + 1] = NUL
    OBVIOUS
  <2>2. len # n /\ len + 1 \in 1 .. n /\ off + (len + 1) = off + len + 1
    BY <1>1, <1>8, <2>1
  <2>3. byte(len + 1) = b[off + (len + 1)]
    BY <1>3, <2>2
  <2> QED
    BY <1>8, <2>2, <2>3
<1>13. off + len <= Len(b)
  BY <1>1, <1>8
<1>14. IsReadAt(text, b, off)
  BY <1>9, <1>10, <1>11, <1>12, <1>13 DEF IsReadAt
<1> QED
  BY <1>2, <1>14 DEF text, b

\* Whatever is read at a place is one text.
LEMMA ReadAtUnique ==
  ASSUME NEW blob, NEW off \in Nat, Len(blob) \in Nat, NEW s, NEW t,
         IsReadAt(s, blob, off), IsReadAt(t, blob, off)
  PROVE  s = t
<1>1. /\ s \in Seq(Bytes) /\ t \in Seq(Bytes) /\ Len(s) \in Nat /\ Len(t) \in Nat
      /\ off + Len(s) <= Len(blob) /\ off + Len(t) <= Len(blob)
  BY DEF IsReadAt
<1>2. ASSUME NEW x, NEW y, IsReadAt(x, blob, off), IsReadAt(y, blob, off), Len(x) \in Nat,
             Len(y) \in Nat
      PROVE  ~ Len(x) < Len(y)
  <2>1. SUFFICES ASSUME Len(x) < Len(y) PROVE FALSE
    OBVIOUS
  <2>2. /\ off + Len(x) < Len(blob) /\ Len(x) + 1 \in 1 .. Len(y)
        /\ off + Len(x) + 1 = off + (Len(x) + 1)
    BY <1>2, <2>1 DEF IsReadAt
  <2>3. blob[off + Len(x) + 1] = NUL
    BY <1>2, <2>2 DEF IsReadAt
  <2>4. y[Len(x) + 1] = blob[off + (Len(x) + 1)] /\ y[Len(x) + 1] # NUL
    BY <1>2, <2>2 DEF IsReadAt
  <2> QED
    BY <2>2, <2>3, <2>4
<1>3. Len(s) = Len(t)
  BY <1>1, <1>2
<1>4. \A k \in 1 .. Len(s) : s[k] = t[k]
  BY <1>3 DEF IsReadAt
<1> QED
  BY <1>1, <1>3, <1>4

\* Entry i of table t is the last of value v whose text is in the blob.
IsLastOf(t, v, i) ==
  /\ i \in 1 .. Len(t.entries)
  /\ t.entries[i].val = v /\ t.entries[i].off < Len(t.txt)
  /\ \A j \in i + 1 .. Len(t.entries) :
       t.entries[j].val # v \/ t.entries[j].off >= Len(t.txt)

LEMMA TableFacts ==
  ASSUME NEW t \in Tables
  PROVE  /\ t.name \in Names /\ t.txt \in Seq(Bytes)
         /\ Len(t.entries) \in Nat /\ Len(t.txt) \in Nat
         /\ \A i \in 1 .. Len(t.entries) :
              t.entries[i].off \in Nat /\ t.entries[i].val \in Int32
<1>1. /\ t.name \in Names /\ t.txt \in Seq(Bytes)
      /\ t.entries \in Seq([off : Nat, val : Int32])
  BY DEF Tables
<1>2. \A i \in 1 .. Len(t.entries) : t.entries[i] \in [off : Nat, val : Int32]
  BY <1>1, SeqList
<1> QED
  BY <1>1, <1>2

LEMMA MappingsAre ==
  ASSUME NEW t \in Tables
  PROVE  /\ \A v \in DOMAIN Mappings(t) : \E i \in 1 .. Len(t.entries) :
              IsLastOf(t, v, i) /\ Mappings(t)[v] = TextAt(t, t.entries[i].off)
         /\ DOMAIN Mappings(t) \subseteq Int32
         /\ \A i \in 1 .. Len(t.entries) :
              t.entries[i].off < Len(t.txt) => t.entries[i].val \in DOMAIN Mappings(t)
<1> DEFINE kept == {i \in 1 .. Len(t.entries) : t.entries[i].off < Len(t.txt)}
           OfValue(v) == {i \in kept : t.entries[i].val = v}
           last(v) == CHOOSE i \in OfValue(v) : \A j \in OfValue(v) : j <= i
           values == {t.entries[i].val : i \in kept}
<1>1. Mappings(t) = [v \in values |-> TextAt(t, t.entries[last(v)].off)]
  BY Zenon DEF Mappings
<1>2. ASSUME NEW v \in values
      PROVE  last(v) \in OfValue(v) /\ \A j \in OfValue(v) : j <= last(v)
  <2>1. OfValue(v) # {} /\ OfValue(v) \subseteq 1 .. Len(t.entries)
    OBVIOUS
  <2>2. \E i \in OfValue(v) : \A j \in OfValue(v) : j <= i
    <3> HIDE DEF OfValue
    <3> QED
      BY <2>1, TableFacts, GreatestExists
  <2> QED
    BY <2>2, Zenon
<1>3. ASSUME NEW v \in values PROVE IsLastOf(t, v, last(v))
  <2> DEFINE i == last(v)
  <2>1. /\ i \in 1 .. Len(t.entries) /\ t.entries[i].off < Len(t.txt)
        /\ t.entries[i].val = v
    BY <1>2
  <2>2. ASSUME NEW j \in i + 1 .. Len(t.entries),
               ~ (t.entries[j].val # v \/ t.entries[j].off >= Len(t.txt))
        PROVE  FALSE
    <3>1. j \in 1 .. Len(t.entries) /\ j > i
      <4>1. i \in 1 .. Len(t.entries) /\ Len(t.entries) \in Nat
        BY <2>1, TableFacts
      <4> HIDE DEF i
      <4> QED
        BY <4>1
    <3>2. t.entries[j].off < Len(t.txt) /\ t.entries[j].val = v
      BY <2>2, <3>1, TableFacts
    <3>3. j \in OfValue(v)
      BY <3>1, <3>2
    <3>4. j <= i
      BY <1>2, <3>3
    <3> HIDE DEF i
    <3> QED
      BY <2>1, <3>1, <3>4
  <2> HIDE DEF i
  <2>3. IsLastOf(t, v, i)
    BY <2>1, <2>2 DEF IsLastOf
  <2> QED
    BY <2>3 DEF i
<1>4. values \subseteq Int32
  BY TableFacts
<1>5. \A i \in 1 .. Len(t.entries) :
        t.entries[i].off < Len(t.txt) => t.entries[i].val \in values
  OBVIOUS
<1> HIDE DEF values, last
<1>6. /\ DOMAIN Mappings(t) = values
      /\ \A v \in values : Mappings(t)[v] = TextAt(t, t.entries[last(v)].off)
  BY <1>1
<1>7. \A v \in values : last(v) \in 1 .. Len(t.entries)
  BY <1>3 DEF IsLastOf
<1> QED
  BY <1>3, <1>4, <1>5, <1>6, <1>7, Zenon

LEMMA MappingsRead ==
  ASSUME NEW t \in Tables
  PROVE  /\ LabelMap(Mappings(t))
         /\ \A v \in DOMAIN Mappings(t) : \E i \in 1 .. Len(t.entries) :
              /\ IsLastOf(t, v, i)
              /\ IsReadAt(Mappings(t)[v], t.txt, t.entries[i].off)
<1>1. ASSUME NEW v \in DOMAIN Mappings(t)
      PROVE  \E i \in 1 .. Len(t.entries) :
               /\ IsLastOf(t, v, i)
               /\ IsReadAt(Mappings(t)[v], t.txt, t.entries[i].off)
  <2>1. PICK i \in 1 .. Len(t.entries) :
          IsLastOf(t, v, i) /\ Mappings(t)[v] = TextAt(t, t.entries[i].off)
    BY MappingsAre
  <2>2. IsReadAt(TextAt(t, t.entries[i].off), t.txt, t.entries[i].off)
    BY <2>1, TableFacts, TextAtReads DEF IsLastOf
  <2> QED
    BY <2>1, <2>2
<1>2. \A v \in DOMAIN Mappings(t) : Mappings(t)[v] \in Seq(Bytes)
  BY <1>1 DEF IsReadAt
<1>3. DOMAIN Mappings(t) \subseteq Int32
  BY MappingsAre
<1>4. IsFiniteSet(DOMAIN Mappings(t))
  <2>1. IsFiniteSet(Int32)
    BY LabelsAssumption, FS_Interval DEF Int32
  <2> QED
    BY <1>3, <2>1, FS_Subset
<1> QED
  BY <1>1, <1>2, <1>3, <1>4, Zenon DEF LabelMap

\* What was read is a label of the table's, by the definition that does not
\* say how it is found.
LEMMA ReadLabel ==
  ASSUME NEW t \in Tables, NEW v, NEW i \in 1 .. Len(t.entries), IsLastOf(t, v, i),
         NEW text, IsReadAt(text, t.txt, t.entries[i].off)
  PROVE  IsLabelOf(t, v, text)
<1> DEFINE off == t.entries[i].off
           b == t.txt
<1>1. off \in Nat /\ b \in Seq(Bytes) /\ Len(b) \in Nat
  BY TableFacts
<1>2. /\ text \in Seq(Bytes) /\ Len(text) \in Nat /\ off + Len(text) <= Len(b)
      /\ \A k \in 1 .. Len(text) : text[k] = b[off + k] /\ text[k] # NUL
      /\ off + Len(text) < Len(b) => b[off + Len(text) + 1] = NUL
  BY DEF IsReadAt
<1>3. /\ t.entries[i].val = v /\ off < Len(b)
      /\ \A j \in i + 1 .. Len(t.entries) :
           t.entries[j].val # v \/ t.entries[j].off >= Len(b)
  BY DEF IsLastOf
<1>4. text = SubSeq(b, off + 1, off + Len(text))
  <2> HIDE DEF off, b
  <2> DEFINE part == SubSeq(b, off + 1, off + Len(text))
  <2>1. part \in Seq(Bytes) /\ Len(part) = Len(text)
    BY <1>1, <1>2
  <2>2. \A k \in 1 .. Len(text) : part[k] = b[off + k]
    <3>1. ASSUME NEW k \in 1 .. Len(text) PROVE part[k] = b[off + 1 + k - 1]
      BY <1>1, <1>2
    <3>2. \A k \in 1 .. Len(text) : off + 1 + k - 1 = off + k
      BY <1>1
    <3> QED
      BY <3>1, <3>2
  <2> HIDE DEF part
  <2>3. text = part
    BY <1>2, <2>1, <2>2
  <2> QED
    BY <2>3 DEF part
<1> QED
  BY <1>2, <1>3, <1>4, Zenon DEF IsLabelOf

-----------------------------------------------------------------------------
(***************************************************************************)
(* The table COPY writes for an ENUM, and what is read of it.              *)
(***************************************************************************)
EnumColumns == [name : Names \ {<<>>}, texts : TextLists]

LEMMA CopiedFacts ==
  ASSUME NEW columns \in Copied
  PROVE  /\ IsList(columns)
         /\ \A c \in 1 .. Len(columns) :
              /\ columns[c] \in EnumColumns
              /\ Len(columns[c].texts) <= Int32Max + 1
<1>1. columns \in Seq(EnumColumns)
  BY LabelsAssumption DEF EnumColumns, TextLists
<1>2. IsList(columns) /\ \A c \in 1 .. Len(columns) : columns[c] \in EnumColumns
  BY <1>1, SeqList
<1>3. \A c \in DOMAIN columns : Len(columns[c].texts) <= Int32Max + 1
  BY LabelsAssumption
<1> QED
  BY <1>2, <1>3 DEF IsList

LEMMA FieldFacts ==
  ASSUME NEW name \in Names
  PROVE  /\ Field(name) \in Names /\ Len(Field(name)) < NameField
         /\ name # <<>> => Field(name) # <<>>
<1> DEFINE n == Min({NameField - 1, Len(name)})
<1>1. Len(name) \in Nat /\ NameField - 1 \in Nat /\ NameField - 1 > 0
  BY LabelsAssumption DEF Names
<1>2. n \in Nat /\ n <= NameField - 1 /\ n <= Len(name)
      /\ (n = NameField - 1 \/ n = Len(name))
  <2> DEFINE S == {NameField - 1, Len(name)}
  <2>1. \E x \in S : \A y \in S : x <= y
    BY <1>1
  <2>2. n \in S /\ \A y \in S : n <= y
    <3> HIDE DEF S
    <3>1. Min(S) \in S /\ \A y \in S : Min(S) <= y
      BY <2>1, Zenon DEF Min
    <3> QED
      BY <3>1, Zenon DEF S
  <2> HIDE DEF n
  <2> QED
    BY <1>1, <2>2
<1>3. Field(name) = SubSeq(name, 1, n)
  BY Zenon DEF Field, First
<1> HIDE DEF n
<1>4. SubSeq(name, 1, n) \in Names /\ Len(SubSeq(name, 1, n)) = n
  BY <1>1, <1>2, FrontFacts DEF Names
<1>5. name # <<>> => n > 0
  BY <1>1, <1>2 DEF Names
<1> QED
  BY <1>1, <1>2, <1>3, <1>4, <1>5, LabelsAssumption DEF Names

LEMMA KeptReads ==
  ASSUME NEW text \in Seq(Bytes), NEW blob, Len(blob) \in Nat, NEW off,
         IsPlacedAt(text, blob, off)
  PROVE  IsReadAt(Kept(text), blob, off)
<1> DEFINE P(n) == /\ \A k \in 1 .. n : text[k] # NUL
                   /\ n < Len(text) => text[n + 1] = NUL
           ends == {k \in 0 .. Len(text) : k = Len(text) \/ text[k + 1] = NUL}
           n == CHOOSE k \in 0 .. Len(text) : P(k)
<1>1. Len(text) \in Nat
  OBVIOUS
<1>2. \E k \in 0 .. Len(text) : P(k)
  <2>1. Len(text) \in ends /\ ends \subseteq Nat
    BY <1>1
  <2>2. PICK k \in ends : \A j \in ends : k <= j
    <3> HIDE DEF ends
    <3>1. ends # {} /\ ends \subseteq Nat
      BY <2>1
    <3> QED
      BY <3>1, LeastExists
  <2>3. k \in 0 .. Len(text) /\ (k = Len(text) \/ text[k + 1] = NUL)
    BY <2>2
  <2>4. ASSUME NEW j \in 1 .. k PROVE text[j] # NUL
    <3>1. SUFFICES ASSUME text[j] = NUL PROVE FALSE
      OBVIOUS
    <3>2. j - 1 \in 0 .. Len(text) /\ j - 1 + 1 = j
      BY <1>1, <2>3
    <3>3. j - 1 \in ends
      BY <3>1, <3>2
    <3>4. k <= j - 1
      BY <2>2, <3>3
    <3> QED
      BY <2>3, <3>4
  <2>5. k < Len(text) => text[k + 1] = NUL
    BY <1>1, <2>3
  <2> QED
    BY <2>3, <2>4, <2>5
<1>3. n \in 0 .. Len(text) /\ P(n)
  <2> HIDE DEF P
  <2> QED
    BY <1>2, Zenon
<1>4. /\ n \in 0 .. Len(text)
      /\ \A k \in 1 .. n : text[k] # NUL
      /\ n < Len(text) => text[n + 1] = NUL
  BY <1>3
<1>5. Kept(text) = SubSeq(text, 1, n)
  BY Zenon DEF Kept
<1> HIDE DEF n
<1>6. /\ SubSeq(text, 1, n) \in Seq(Bytes) /\ Len(SubSeq(text, 1, n)) = n
      /\ \A k \in 1 .. n : SubSeq(text, 1, n)[k] = text[k]
  BY <1>4, FrontFacts
<1> DEFINE kept == SubSeq(text, 1, n)
<1>7. /\ kept \in Seq(Bytes) /\ Len(kept) = n
      /\ \A k \in 1 .. n : kept[k] = text[k]
  BY <1>6
<1> HIDE DEF kept
<1>8. /\ off \in Nat /\ off + Len(text) < Len(blob)
      /\ \A k \in 1 .. Len(text) : blob[off + k] = text[k]
      /\ blob[off + Len(text) + 1] = NUL
  BY DEF IsPlacedAt
<1>9. off + n <= Len(blob)
  BY <1>1, <1>4, <1>8
<1>10. ASSUME NEW k \in 1 .. n PROVE kept[k] = blob[off + k] /\ kept[k] # NUL
  <2>1. k \in 1 .. Len(text)
    BY <1>1, <1>4
  <2> QED
    BY <1>4, <1>7, <1>8, <2>1
<1>11. blob[off + n + 1] = NUL
  <2>1. CASE n = Len(text)
    BY <1>8, <2>1
  <2>2. CASE n # Len(text)
    <3>1. n < Len(text) /\ n + 1 \in 1 .. Len(text) /\ off + (n + 1) = off + n + 1
      BY <1>1, <1>4, <1>8, <2>2
    <3>2. blob[off + (n + 1)] = text[n + 1]
      BY <1>8, <3>1
    <3> QED
      BY <1>4, <3>1, <3>2
  <2> QED
    BY <2>1, <2>2
<1>12. IsReadAt(kept, blob, off)
  BY <1>7, <1>9, <1>10, <1>11 DEF IsReadAt
<1> QED
  BY <1>5, <1>12 DEF kept

LEMMA TableForFacts ==
  ASSUME NEW c \in EnumColumns, Len(c.texts) <= Int32Max + 1
  PROVE  /\ TableFor(c) \in Tables
         /\ TableFor(c).name = Field(c.name) /\ TableFor(c).txt = Blob(c.texts)
         /\ Len(TableFor(c).entries) = Len(c.texts)
         /\ \A i \in 1 .. Len(c.texts) :
              /\ TableFor(c).entries[i].off = TextOffset(c.texts, i)
              /\ TableFor(c).entries[i].val = i - 1
<1> DEFINE n == Len(c.texts)
           item(i) == [off |-> TextOffset(c.texts, i), val |-> i - 1]
           entries == [i \in 1 .. n |-> item(i)]
<1>1. c.texts \in TextLists /\ c.name \in Names /\ n \in Nat /\ n <= Int32Max + 1
  BY DEF EnumColumns, TextLists
<1>2. \A i \in 1 .. n : TextOffset(c.texts, i) \in Nat
  BY <1>1, BlobPlaces DEF IsPlacedAt
<1>3. \A i \in 1 .. n : i - 1 \in Int32
  BY <1>1, LabelsAssumption DEF Int32
<1>4. TableFor(c) = [name |-> Field(c.name), entries |-> entries, txt |-> Blob(c.texts)]
  BY Zenon DEF TableFor
<1>5. \A i \in 1 .. n : /\ item(i) \in [off : Nat, val : Int32]
                        /\ item(i).off = TextOffset(c.texts, i) /\ item(i).val = i - 1
  BY <1>2, <1>3
<1> HIDE DEF n, item
<1>6. /\ entries \in Seq([off : Nat, val : Int32]) /\ Len(entries) = n
      /\ \A i \in 1 .. n : entries[i] = item(i)
  BY <1>1, <1>5
<1> HIDE DEF entries
<1>7. Field(c.name) \in Names /\ Blob(c.texts) \in Seq(Bytes)
  BY <1>1, FieldFacts, BlobType
<1>8. TableFor(c) \in Tables
  BY <1>4, <1>6, <1>7 DEF Tables
<1>9. /\ TableFor(c).name = Field(c.name) /\ TableFor(c).txt = Blob(c.texts)
      /\ TableFor(c).entries = entries
  BY <1>4
<1> QED
  BY <1>5, <1>6, <1>8, <1>9, Zenon DEF n

LEMMA CopiedEnum ==
  ASSUME NEW c \in EnumColumns, Len(c.texts) <= Int32Max + 1
  PROVE  LET m == Mappings(TableFor(c)) IN
         /\ DOMAIN m = 0 .. Len(c.texts) - 1
         /\ \A i \in 1 .. Len(c.texts) : m[i - 1] = Kept(c.texts[i])
         /\ EnumTexts(m) = [i \in 1 .. Len(c.texts) |-> Kept(c.texts[i])]
<1> DEFINE t == TableFor(c)
           m == Mappings(t)
           n == Len(c.texts)
<1>1. /\ t \in Tables /\ t.txt = Blob(c.texts) /\ Len(t.entries) = n
      /\ \A i \in 1 .. n : /\ t.entries[i].off = TextOffset(c.texts, i)
                           /\ t.entries[i].val = i - 1
  BY TableForFacts
<1>2. c.texts \in TextLists /\ n \in Nat
  BY DEF EnumColumns, TextLists
<1>3. \A i \in 1 .. n : /\ c.texts[i] \in Seq(Bytes)
                        /\ IsPlacedAt(c.texts[i], t.txt, t.entries[i].off)
  <2>1. \A i \in 1 .. n : c.texts[i] \in Seq(Bytes)
    BY <1>2 DEF TextLists
  <2> QED
    BY <1>1, <1>2, <2>1, BlobPlaces
<1>4. Len(t.txt) \in Nat
  BY <1>1, <1>2, BlobType
<1>5. \A i \in 1 .. n : t.entries[i].off \in Nat /\ t.entries[i].off < Len(t.txt)
  BY <1>3, <1>4 DEF IsPlacedAt
<1> HIDE DEF t, n
<1>6. LabelMap(m)
  BY <1>1, MappingsRead
<1>7. ASSUME NEW v \in DOMAIN m
      PROVE  v + 1 \in 1 .. n /\ m[v] = Kept(c.texts[v + 1]) /\ v \in 0 .. n - 1
  <2>1. PICK i \in 1 .. n : /\ IsLastOf(t, v, i)
                            /\ IsReadAt(m[v], t.txt, t.entries[i].off)
    BY <1>1, MappingsRead
  <2>2. v = i - 1 /\ v + 1 = i /\ v \in 0 .. n - 1
    BY <1>1, <1>2, <2>1 DEF IsLastOf
  <2>3. IsReadAt(Kept(c.texts[i]), t.txt, t.entries[i].off)
    BY <1>3, <1>4, KeptReads
  <2>4. m[v] = Kept(c.texts[i])
    <3> HIDE DEF m
    <3> QED
      BY <1>4, <1>5, <2>1, <2>3, ReadAtUnique
  <2> QED
    BY <2>2, <2>4
<1>8. ASSUME NEW i \in 1 .. n PROVE i - 1 \in DOMAIN m
  BY <1>1, <1>5, MappingsAre
<1>9. DOMAIN m = 0 .. n - 1
  <2>1. \A v \in 0 .. n - 1 : v \in DOMAIN m
    <3>1. ASSUME NEW v \in 0 .. n - 1 PROVE v \in DOMAIN m
      <4>1. v + 1 \in 1 .. n /\ v + 1 - 1 = v
        BY <1>2
      <4> QED
        BY <1>8, <4>1
    <3> QED
      BY <3>1
  <2> QED
    BY <1>7, <2>1
<1> HIDE DEF m
<1>10. ASSUME NEW i \in 1 .. n PROVE m[i - 1] = Kept(c.texts[i])
  <2>1. i - 1 \in DOMAIN m /\ i - 1 + 1 = i
    BY <1>8
  <2> QED
    BY <1>7, <2>1
<1>11. ASSUME NEW i \in 1 .. n PROVE EnumIndex(m)[i - 1] = i
  <2>1. i - 1 \in DOMAIN m
    BY <1>8
  <2>2. EnumIndex(m)[i - 1] = Rank(DOMAIN m, i - 1)
    BY <1>6, <2>1, EnumFacts
  <2>3. {w \in 0 .. n - 1 : w <= i - 1} = 0 .. i - 1
    BY <1>2
  <2>4. Cardinality(0 .. i - 1) = i
    BY FS_Interval
  <2> QED
    BY <1>9, <2>2, <2>3, <2>4 DEF Rank
<1>12. Len(EnumTexts(m)) = n
  <2>1. Cardinality(0 .. n - 1) = n
    BY <1>2, FS_Interval
  <2> QED
    BY <1>6, <1>9, <2>1, EnumFacts
<1>13. ASSUME NEW i \in 1 .. n PROVE EnumTexts(m)[i] = Kept(c.texts[i])
  <2>1. i - 1 \in DOMAIN m
    BY <1>8
  <2>2. EnumTexts(m)[EnumIndex(m)[i - 1]] = m[i - 1]
    BY <1>6, <2>1, EnumFacts
  <2> QED
    BY <1>10, <1>11, <2>2
<1>14. EnumTexts(m) = [i \in 1 .. n |-> Kept(c.texts[i])]
  <2>1. Len(SortedValues(m)) = n
    BY <1>6, <1>12, SortedFacts, EnumFacts
  <2>2. EnumTexts(m) = [i \in 1 .. n |-> m[SortedValues(m)[i]]]
    BY <2>1, Zenon DEF EnumTexts
  <2>3. EnumTexts(m) = [i \in 1 .. n |-> EnumTexts(m)[i]]
    BY <2>2
  <2> QED
    BY <1>13, <2>3
<1> QED
  BY <1>9, <1>10, <1>14, Zenon DEF m, t, n

-----------------------------------------------------------------------------
(***************************************************************************)
(* The inductive invariant.                                                *)
(***************************************************************************)
FileColumns == Seq([labelName : Names, floating : BOOLEAN])

\* The file is another program's, or COPY has written some of its tables.
FileInv ==
  /\ pc \in {"write", "read", "bind", "scan", "done", "error"}
  /\ file = [columns |-> file.columns, tables |-> file.tables]
  /\ file.columns \in FileColumns /\ file.tables \in Seq(Tables)
  /\ written \in Nat
  /\ source.copied =>
       /\ source.columns \in Copied
       /\ Len(file.columns) = Len(source.columns)
       /\ \A c \in 1 .. Len(source.columns) :
            file.columns[c] = [labelName |-> Field(source.columns[c].name),
                               floating |-> FALSE]
       /\ written <= Len(source.columns) /\ Len(file.tables) = written
       /\ \A i \in 1 .. written : file.tables[i] = TableFor(source.columns[i])
       /\ pc # "write" => written = Len(source.columns)
  /\ ~ source.copied => pc # "write" /\ source.columns = file.columns /\ written = 0

\* The tables read so far are those of the file, in its order.
LabelsInv ==
  /\ IsList(labels) /\ Len(labels) <= Len(file.tables)
  /\ \A i \in 1 .. Len(labels) :
       /\ labels[i].name = file.tables[i].name
       /\ labels[i].mappings = Mappings(file.tables[i])
  /\ pc = "write" => labels = <<>>
  /\ pc \in {"bind", "scan", "done", "error"} => Len(labels) = Len(file.tables)

MapOf(c) == MappingsOf(file.columns[c].labelName)

\* Each column bound has the texts and the index of its map.
BoundInv ==
  /\ IsList(bound) /\ Len(bound) <= Len(file.columns)
  /\ pc \in {"write", "read"} => bound = <<>>
  /\ \A c \in 1 .. Len(bound) :
       /\ bound[c].texts = EnumTexts(MapOf(c)) /\ bound[c].index = EnumIndex(MapOf(c))
       /\ IsInjective(bound[c].texts)
  /\ pc \in {"scan", "done"} => Len(bound) = Len(file.columns)
  /\ pc = "error" =>
       \E c \in 1 .. Len(file.columns) : ~ IsInjective(EnumTexts(MapOf(c)))

ShownInv ==
  pc = "done" =>
    /\ shown.column \in 1 .. Len(file.columns) /\ shown.cell \in Cells(shown.column)
    /\ bound[shown.column].texts # <<>>
    /\ shown.text = Decoded(bound[shown.column], shown.cell)

LInv == FileInv /\ LabelsInv /\ BoundInv /\ ShownInv

LEMMA FileFacts ==
  ASSUME FileInv
  PROVE  /\ IsList(file.columns) /\ IsList(file.tables)
         /\ Len(file.columns) \in Nat /\ Len(file.tables) \in Nat
         /\ \A c \in 1 .. Len(file.columns) :
              file.columns[c] \in [labelName : Names, floating : BOOLEAN]
         /\ \A i \in 1 .. Len(file.tables) : file.tables[i] \in Tables
<1>1. /\ file.columns \in Seq([labelName : Names, floating : BOOLEAN])
      /\ file.tables \in Seq(Tables)
  BY Zenon DEF FileInv, FileColumns
<1> QED
  BY <1>1, SeqList DEF IsList

LEMMA EmptyIsList == IsList(<<>>) /\ Len(<<>>) = 0
  BY DEF IsList

LEMMA InitInv == Init => LInv
<1>1. SUFFICES ASSUME Init PROVE LInv
  OBVIOUS
<1>2. written = 0 /\ labels = <<>> /\ bound = <<>>
  BY <1>1 DEF Init
<1>3. CASE \E columns \in Copied :
          /\ source = [copied |-> TRUE, columns |-> columns]
          /\ file = [columns |-> [i \in 1 .. Len(columns) |->
                                    [labelName |-> Field(columns[i].name),
                                     floating |-> FALSE]],
                     tables |-> <<>>]
          /\ pc = "write"
  <2>1. PICK columns \in Copied :
          /\ source = [copied |-> TRUE, columns |-> columns]
          /\ file = [columns |-> [i \in 1 .. Len(columns) |->
                                    [labelName |-> Field(columns[i].name),
                                     floating |-> FALSE]],
                     tables |-> <<>>]
          /\ pc = "write"
    BY <1>3
  <2> DEFINE item(i) == [labelName |-> Field(columns[i].name), floating |-> FALSE]
             fields == [i \in 1 .. Len(columns) |-> item(i)]
  <2>2. /\ source.copied /\ source.columns = columns
        /\ file.columns = fields /\ file.tables = <<>>
        /\ file = [columns |-> file.columns, tables |-> file.tables]
    BY <2>1
  <2>3. IsList(columns) /\ \A i \in 1 .. Len(columns) : columns[i].name \in Names
    BY CopiedFacts DEF EnumColumns
  <2>4. \A i \in 1 .. Len(columns) : item(i) \in [labelName : Names, floating : BOOLEAN]
    BY <2>3, FieldFacts
  <2> HIDE DEF item
  <2>5. /\ fields \in FileColumns /\ Len(fields) = Len(columns)
        /\ \A i \in 1 .. Len(columns) : fields[i] = item(i)
    BY <2>3, <2>4 DEF IsList, FileColumns
  <2> HIDE DEF fields
  <2>6. FileInv
    <3>1. <<>> \in Seq(Tables) /\ Len(<<>>) = 0 /\ 0 <= Len(columns) /\ 0 \in Nat
      BY <2>3 DEF IsList
    <3>2. \A i \in 1 .. 0 : FALSE
      OBVIOUS
    <3> QED
      BY <1>2, <2>1, <2>2, <2>5, <3>1, <3>2, Zenon DEF FileInv, item
  <2>7. LabelsInv
    BY <1>2, <2>1, <2>2, EmptyIsList DEF LabelsInv
  <2>8. BoundInv
    <3>1. Len(file.columns) \in Nat
      BY <2>6, FileFacts
    <3> QED
      BY <1>2, <2>1, <3>1, EmptyIsList DEF BoundInv
  <2> QED
    BY <2>1, <2>6, <2>7, <2>8 DEF LInv, ShownInv
<1>4. CASE /\ file \in Foreign
           /\ source = [copied |-> FALSE, columns |-> file.columns]
           /\ pc = "read"
  <2>1. file \in [columns : FileColumns, tables : Seq(Tables)]
    BY <1>4, LabelsAssumption, Zenon DEF FileColumns
  <2>2. /\ file.columns \in FileColumns /\ file.tables \in Seq(Tables)
        /\ ~ source.copied /\ source.columns = file.columns
        /\ file = [columns |-> file.columns, tables |-> file.tables]
    BY <1>4, <2>1
  <2>3. FileInv
    BY <1>2, <1>4, <2>2 DEF FileInv
  <2>4. Len(file.columns) \in Nat /\ Len(file.tables) \in Nat
    BY <2>3, FileFacts
  <2>5. LabelsInv
    BY <1>2, <1>4, <2>4, EmptyIsList DEF LabelsInv
  <2>6. BoundInv
    BY <1>2, <1>4, <2>4, EmptyIsList DEF BoundInv
  <2> QED
    BY <1>4, <2>3, <2>5, <2>6 DEF LInv, ShownInv
<1> QED
  BY <1>1, <1>3, <1>4, Zenon DEF Init

LEMMA NothingBound ==
  ASSUME FileInv', bound' = <<>>, pc' \in {"write", "read", "bind"}
  PROVE  BoundInv' /\ ShownInv'
<1>1. Len(file'.columns) \in Nat
  <2>1. file'.columns \in FileColumns
    BY DEF FileInv
  <2> QED
    BY <2>1 DEF FileColumns
<1>2. IsList(bound') /\ Len(bound') = 0
  BY EmptyIsList
<1> QED
  BY <1>1, <1>2 DEF BoundInv, ShownInv

LEMMA FinalizeInv == LInv /\ Finalize => LInv'
<1>1. SUFFICES ASSUME LInv, Finalize PROVE LInv'
  OBVIOUS
<1>2. /\ pc = "write" /\ source.copied /\ source' = source
      /\ labels = <<>> /\ labels' = labels /\ bound = <<>> /\ bound' = bound
  BY <1>1 DEF LInv, FileInv, LabelsInv, BoundInv, Finalize
<1>3. FileInv /\ LabelsInv
  BY <1>1 DEF LInv
<1>4. /\ source.columns \in Copied /\ Len(file.columns) = Len(source.columns)
      /\ \A c \in 1 .. Len(source.columns) :
           file.columns[c] = [labelName |-> Field(source.columns[c].name),
                              floating |-> FALSE]
      /\ written \in Nat /\ written <= Len(source.columns) /\ Len(file.tables) = written
      /\ \A i \in 1 .. written : file.tables[i] = TableFor(source.columns[i])
      /\ file.columns \in FileColumns /\ file.tables \in Seq(Tables)
      /\ file = [columns |-> file.columns, tables |-> file.tables]
  BY <1>2, <1>3 DEF FileInv
<1>5. Len(source.columns) \in Nat
  BY <1>4, CopiedFacts DEF IsList
<1>6. CASE written < Len(source.columns)
  <2> DEFINE t == TableFor(source.columns[written + 1])
             tables == Append(file.tables, t)
  <2>1. /\ file' = [file EXCEPT !.tables = tables]
        /\ written' = written + 1 /\ pc' = pc
    BY <1>1, <1>6 DEF Finalize
  <2>2. t \in Tables
    <3>1. written + 1 \in 1 .. Len(source.columns)
      BY <1>4, <1>5, <1>6
    <3> QED
      BY <1>4, <3>1, CopiedFacts, TableForFacts
  <2>3. /\ file'.columns = file.columns /\ file'.tables = tables
        /\ file' = [columns |-> file'.columns, tables |-> file'.tables]
    <3> HIDE DEF tables
    <3>1. file' = [columns |-> file.columns, tables |-> tables]
      BY <1>4, <2>1
    <3> QED
      BY <3>1
  <2> HIDE DEF t
  <2>4. /\ tables \in Seq(Tables) /\ Len(tables) = written + 1
        /\ \A i \in 1 .. written : tables[i] = file.tables[i]
        /\ tables[written + 1] = t
    BY <1>4, <2>2
  <2> HIDE DEF tables
  <2>5. \A i \in 1 .. written + 1 : tables[i] = TableFor(source.columns[i])
    <3>1. ASSUME NEW i \in 1 .. written + 1 PROVE tables[i] = TableFor(source.columns[i])
      <4>1. CASE i = written + 1
        BY <2>4, <4>1 DEF t
      <4>2. CASE i # written + 1
        <5>1. i \in 1 .. written
          BY <1>4, <4>2
        <5> QED
          BY <1>4, <2>4, <5>1
      <4> QED
        BY <4>1, <4>2
    <3> QED
      BY <3>1
  <2>6. written + 1 \in Nat /\ written + 1 <= Len(source.columns)
    BY <1>4, <1>5, <1>6
  <2>7. FileInv'
    BY <1>2, <1>4, <2>1, <2>3, <2>4, <2>5, <2>6 DEF FileInv
  <2>8. LabelsInv'
    BY <1>2, <1>4, <2>1, <2>3, <2>4, <2>6, EmptyIsList DEF LabelsInv
  <2>9. BoundInv' /\ ShownInv'
    BY <1>2, <2>1, <2>7, NothingBound
  <2> QED
    BY <2>7, <2>8, <2>9 DEF LInv
<1>7. CASE ~ written < Len(source.columns)
  <2>1. file' = file /\ written' = written /\ pc' = "read"
    BY <1>1, <1>7 DEF Finalize
  <2>2. written = Len(source.columns)
    BY <1>4, <1>5, <1>7
  <2>3. FileInv'
    BY <1>2, <1>4, <2>1, <2>2 DEF FileInv
  <2>4. LabelsInv'
    BY <1>2, <1>3, <2>1 DEF LabelsInv
  <2>5. BoundInv' /\ ShownInv'
    BY <1>2, <2>1, <2>3, NothingBound
  <2> QED
    BY <2>3, <2>4, <2>5 DEF LInv
<1> QED
  BY <1>6, <1>7

LEMMA LoadInv == LInv /\ LoadValueLabels => LInv'
<1>1. SUFFICES ASSUME LInv, LoadValueLabels PROVE LInv'
  OBVIOUS
<1>2. FileInv /\ LabelsInv /\ BoundInv
  BY <1>1 DEF LInv
<1>3. /\ pc = "read" /\ bound = <<>>
      /\ UNCHANGED <<source, written, file, bound, shown>>
  BY <1>1, <1>2 DEF LoadValueLabels, BoundInv
<1>4. Len(file.tables) \in Nat /\ IsList(labels) /\ Len(labels) \in Nat
  BY <1>2, FileFacts DEF LabelsInv, IsList
<1>5. CASE Len(labels) < Len(file.tables)
  <2> DEFINE n == Len(labels)
             t == file.tables[n + 1]
             label == [name |-> t.name, mappings |-> Mappings(t)]
             new == Append(labels, label)
  <2>1. labels' = new /\ pc' = pc
    BY <1>1, <1>5 DEF LoadValueLabels
  <2>2. label.name = t.name /\ label.mappings = Mappings(t)
    OBVIOUS
  <2> HIDE DEF label
  <2>3. /\ IsList(new) /\ Len(new) = n + 1 /\ new[n + 1] = label
        /\ \A i \in 1 .. n : new[i] = labels[i]
    BY <1>4, ListAppend
  <2> HIDE DEF new
  <2>4. ASSUME NEW i \in 1 .. n + 1
        PROVE  new[i].name = file.tables[i].name /\ new[i].mappings = Mappings(file.tables[i])
    <3>1. CASE i = n + 1
      BY <2>2, <2>3, <3>1
    <3>2. CASE i # n + 1
      <4>1. i \in 1 .. Len(labels)
        BY <1>4, <3>2
      <4> QED
        BY <1>2, <2>3, <4>1 DEF LabelsInv
    <3> QED
      BY <3>1, <3>2
  <2>5. n + 1 <= Len(file.tables)
    BY <1>4, <1>5
  <2> HIDE DEF n
  <2>6. LabelsInv'
    BY <1>3, <2>1, <2>3, <2>4, <2>5 DEF LabelsInv
  <2>7. FileInv'
    BY <1>2, <1>3, <2>1 DEF FileInv
  <2>8. BoundInv' /\ ShownInv'
    BY <1>3, <2>1, <2>7, NothingBound
  <2> QED
    BY <2>6, <2>7, <2>8 DEF LInv
<1>6. CASE ~ Len(labels) < Len(file.tables)
  <2>1. labels' = labels /\ pc' = "bind"
    BY <1>1, <1>6 DEF LoadValueLabels
  <2>2. Len(labels) = Len(file.tables)
    BY <1>2, <1>4, <1>6 DEF LabelsInv
  <2>3. FileInv'
    BY <1>2, <1>3, <2>1 DEF FileInv
  <2>4. LabelsInv'
    BY <1>2, <1>3, <2>1, <2>2 DEF LabelsInv
  <2>5. BoundInv' /\ ShownInv'
    BY <1>3, <2>1, <2>3, NothingBound
  <2> QED
    BY <2>3, <2>4, <2>5 DEF LInv
<1> QED
  BY <1>5, <1>6

\* The later steps leave the file and the labels alone.
LEMMA FileKept ==
  ASSUME FileInv, LabelsInv, UNCHANGED <<source, written, file, labels>>,
         pc \in {"bind", "scan", "done", "error"},
         pc' \in {"bind", "scan", "done", "error"}
  PROVE  /\ FileInv' /\ LabelsInv'
         /\ \A c : MapOf(c)' = MapOf(c)
  BY DEF FileInv, LabelsInv, MapOf, MappingsOf

LEMMA BindColumnInv == LInv /\ BindColumn => LInv'
<1>1. SUFFICES ASSUME LInv, BindColumn PROVE LInv'
  OBVIOUS
<1>2. FileInv /\ LabelsInv /\ BoundInv
  BY <1>1 DEF LInv
<1> DEFINE n == Len(bound)
           m == MapOf(n + 1)
<1>3. /\ pc = "bind" /\ n < Len(file.columns) /\ IsList(bound) /\ n \in Nat
      /\ UNCHANGED <<source, written, file, labels, shown>>
      /\ Len(file.columns) \in Nat
  BY <1>1, <1>2, FileFacts DEF BindColumn, BoundInv, IsList
<1>4. CASE IsInjective(EnumTexts(m))
  <2> DEFINE b == [texts |-> EnumTexts(m), index |-> EnumIndex(m)]
             new == Append(bound, b)
  <2>1. bound' = new /\ pc' = pc
    BY <1>1, <1>4 DEF BindColumn, EngineAccepts, MapOf
  <2>2. FileInv' /\ LabelsInv' /\ \A c : MapOf(c)' = MapOf(c)
    BY <1>2, <1>3, <2>1, FileKept
  <2>3. b.texts = EnumTexts(m) /\ b.index = EnumIndex(m)
    OBVIOUS
  <2> HIDE DEF b
  <2>4. /\ IsList(new) /\ Len(new) = n + 1 /\ new[n + 1] = b
        /\ \A i \in 1 .. n : new[i] = bound[i]
    BY <1>3, ListAppend
  <2> HIDE DEF new
  <2>5. ASSUME NEW c \in 1 .. n + 1
        PROVE  /\ new[c].texts = EnumTexts(MapOf(c)) /\ new[c].index = EnumIndex(MapOf(c))
               /\ IsInjective(new[c].texts)
    <3>1. CASE c = n + 1
      BY <1>4, <2>3, <2>4, <3>1
    <3>2. CASE c # n + 1
      <4>1. c \in 1 .. Len(bound)
        BY <1>3, <3>2
      <4> QED
        BY <1>2, <2>4, <4>1 DEF BoundInv
    <3> QED
      BY <3>1, <3>2
  <2>6. n + 1 <= Len(file.columns)
    BY <1>3
  <2> HIDE DEF n
  <2>7. BoundInv'
    BY <1>3, <2>1, <2>2, <2>4, <2>5, <2>6 DEF BoundInv
  <2> QED
    BY <1>3, <2>1, <2>2, <2>7 DEF LInv, ShownInv
<1>5. CASE ~ IsInjective(EnumTexts(m))
  <2>1. bound' = bound /\ pc' = "error"
    BY <1>1, <1>5 DEF BindColumn, EngineAccepts, MapOf
  <2>2. FileInv' /\ LabelsInv' /\ \A c : MapOf(c)' = MapOf(c)
    BY <1>2, <1>3, <2>1, FileKept
  <2>3. n + 1 \in 1 .. Len(file.columns)
    BY <1>3
  <2> HIDE DEF n
  <2>4. BoundInv'
    BY <1>2, <1>3, <1>5, <2>1, <2>2, <2>3 DEF BoundInv
  <2> QED
    BY <2>1, <2>2, <2>4 DEF LInv, ShownInv
<1> QED
  BY <1>4, <1>5

LEMMA BindReturnsInv == LInv /\ BindReturns => LInv'
<1>1. SUFFICES ASSUME LInv, BindReturns PROVE LInv'
  OBVIOUS
<1>2. FileInv /\ LabelsInv /\ BoundInv
  BY <1>1 DEF LInv
<1>3. /\ pc = "bind" /\ pc' = "scan" /\ Len(bound) = Len(file.columns)
      /\ UNCHANGED <<source, written, file, labels, bound, shown>>
  BY <1>1 DEF BindReturns
<1>4. FileInv' /\ LabelsInv' /\ \A c : MapOf(c)' = MapOf(c)
  BY <1>2, <1>3, FileKept
<1>5. BoundInv'
  BY <1>2, <1>3, <1>4 DEF BoundInv
<1> QED
  BY <1>3, <1>4, <1>5 DEF LInv, ShownInv

LEMMA ReadCellInv == LInv /\ ReadCell => LInv'
<1>1. SUFFICES ASSUME LInv, ReadCell PROVE LInv'
  OBVIOUS
<1>2. FileInv /\ LabelsInv /\ BoundInv
  BY <1>1 DEF LInv
<1>3. /\ pc = "scan" /\ pc' = "done"
      /\ UNCHANGED <<source, written, file, labels, bound>>
  BY <1>1 DEF ReadCell
<1>4. FileInv' /\ LabelsInv' /\ \A c : MapOf(c)' = MapOf(c)
  BY <1>2, <1>3, FileKept
<1>5. BoundInv'
  BY <1>2, <1>3, <1>4 DEF BoundInv
<1>6. PICK c \in 1 .. Len(file.columns) : \E cell \in Cells(c) :
        /\ bound[c].texts # <<>>
        /\ shown' = [column |-> c, cell |-> cell, text |-> Decoded(bound[c], cell)]
  BY <1>1 DEF ReadCell
<1>7. PICK cell \in Cells(c) :
        /\ bound[c].texts # <<>>
        /\ shown' = [column |-> c, cell |-> cell, text |-> Decoded(bound[c], cell)]
  BY <1>6
<1>8. /\ shown'.column = c /\ shown'.cell = cell
      /\ shown'.text = Decoded(bound[c], cell)
  BY <1>7
<1>9. Cells(c)' = Cells(c)
  BY <1>3 DEF Cells
<1>10. ShownInv'
  BY <1>3, <1>7, <1>8, <1>9 DEF ShownInv
<1> QED
  BY <1>4, <1>5, <1>10 DEF LInv

\* The inductive invariant holds in every state.
THEOREM LabelsInvariant == Spec => []LInv
<1>1. LInv /\ UNCHANGED vars => LInv'
  <2>1. SUFFICES ASSUME LInv, UNCHANGED vars PROVE LInv'
    OBVIOUS
  <2>2. UNCHANGED <<source, written, file, labels, bound, shown, pc>>
    BY <2>1 DEF vars
  <2>3. FileInv'
    BY <2>1, <2>2 DEF LInv, FileInv
  <2>4. LabelsInv'
    BY <2>1, <2>2 DEF LInv, LabelsInv
  <2>5. \A c : MapOf(c)' = MapOf(c) /\ Cells(c)' = Cells(c)
    BY <2>2 DEF MapOf, MappingsOf, Cells
  <2>6. BoundInv'
    BY <2>1, <2>2, <2>5 DEF LInv, BoundInv
  <2>7. ShownInv'
    BY <2>1, <2>2, <2>5 DEF LInv, ShownInv
  <2> QED
    BY <2>3, <2>4, <2>6, <2>7 DEF LInv
<1>2. LInv /\ [Next]_vars => LInv'
  BY <1>1, FinalizeInv, LoadInv, BindColumnInv, BindReturnsInv, ReadCellInv, Zenon
     DEF Next
<1> QED
  BY <1>2, InitInv, PTL DEF Spec

-----------------------------------------------------------------------------
(***************************************************************************)
(* What the invariant says of the map of a name.                           *)
(***************************************************************************)
Named(name) == {i \in 1 .. Len(file.tables) : file.tables[i].name = name}

\* The least of the tables of a name is the one ReadDtaBind takes.
LEMMA MapFacts ==
  ASSUME FileInv, LabelsInv, Len(labels) = Len(file.tables), NEW name
  PROVE  /\ LabelMap(MappingsOf(name))
         /\ IF name = <<>> \/ Named(name) = {} THEN MappingsOf(name) = <<>>
            ELSE /\ FirstTable(Named(name)) \in Named(name)
                 /\ \A j \in Named(name) : FirstTable(Named(name)) <= j
                 /\ MappingsOf(name) = Mappings(file.tables[FirstTable(Named(name))])
<1> DEFINE tables == {i \in 1 .. Len(labels) : labels[i].name = name}
           first == FirstTable(Named(name))
<1>1. tables = Named(name)
  BY DEF LabelsInv, Named
<1>2. MappingsOf(name) = IF name = <<>> \/ Named(name) = {} THEN <<>>
                         ELSE labels[first].mappings
  BY <1>1, Zenon DEF MappingsOf
<1> HIDE DEF tables
<1>3. CASE name = <<>> \/ Named(name) = {}
  <2>1. MappingsOf(name) = <<>>
    BY <1>2, <1>3
  <2>2. DOMAIN <<>> = {} /\ IsFiniteSet({})
    BY FS_EmptySet
  <2>3. LabelMap(<<>>)
    BY <2>2 DEF LabelMap
  <2> QED
    BY <1>3, <2>1, <2>3
<1>4. CASE ~ (name = <<>> \/ Named(name) = {})
  <2>1. Named(name) \subseteq Nat
    BY DEF Named
  <2>2. \E i \in Named(name) : \A j \in Named(name) : i <= j
    BY <1>4, <2>1, LeastExists
  <2>3. first \in Named(name) /\ \A j \in Named(name) : first <= j
    BY <2>2, Zenon DEF FirstTable
  <2> HIDE DEF first
  <2>4. first \in 1 .. Len(labels)
    BY <2>3 DEF Named
  <2>5. MappingsOf(name) = Mappings(file.tables[first])
    BY <1>2, <1>4, <2>4 DEF LabelsInv
  <2>6. file.tables[first] \in Tables
    BY <2>4, FileFacts
  <2>7. LabelMap(MappingsOf(name))
    BY <2>5, <2>6, MappingsRead
  <2> QED
    BY <1>4, <2>3, <2>5, <2>7 DEF first
<1> QED
  BY <1>3, <1>4

\* Once columns are bound, all tables have been read.
LEMMA LabelsRead ==
  ASSUME LInv, pc \in {"bind", "scan", "done", "error"} \/ Len(bound) > 0
  PROVE  FileInv /\ LabelsInv /\ BoundInv /\ Len(labels) = Len(file.tables)
  BY EmptyIsList DEF LInv, FileInv, LabelsInv, BoundInv

-----------------------------------------------------------------------------
(***************************************************************************)
(* The properties.                                                         *)
(***************************************************************************)

\* Types, for all columns and tables: a name that COPY writes leaves room for
\* the NUL of its field, and the index of a column that ReadDtaBind bound goes
\* through all positions of its ENUM.
THEOREM LabelsTyped == Spec => []TypeOK
<1>1. LInv => TypeOK
  <2>1. SUFFICES ASSUME LInv PROVE TypeOK
    OBVIOUS
  <2>2. FileInv /\ BoundInv
    BY <2>1 DEF LInv
  <2>3. source.copied =>
          \A i \in 1 .. Len(file.tables) : Len(file.tables[i].name) < NameField
    <3>1. SUFFICES ASSUME source.copied, NEW i \in 1 .. Len(file.tables)
                   PROVE  Len(file.tables[i].name) < NameField
      OBVIOUS
    <3>2. /\ source.columns \in Copied /\ i \in 1 .. Len(source.columns)
          /\ file.tables[i] = TableFor(source.columns[i])
      <4>1. /\ source.columns \in Copied /\ Len(file.tables) = written
            /\ written \in Nat /\ written <= Len(source.columns)
            /\ \A k \in 1 .. written : file.tables[k] = TableFor(source.columns[k])
        BY <2>2, <3>1 DEF FileInv
      <4>2. Len(source.columns) \in Nat
        BY <4>1, CopiedFacts DEF IsList
      <4> QED
        BY <4>1, <4>2
    <3>3. source.columns[i] \in EnumColumns /\ Len(source.columns[i].texts) <= Int32Max + 1
      BY <3>2, CopiedFacts
    <3>4. source.columns[i].name \in Names
      BY <3>3 DEF EnumColumns
    <3>5. file.tables[i].name = Field(source.columns[i].name)
      BY <3>2, <3>3, TableForFacts
    <3> QED
      BY <3>4, <3>5, FieldFacts
  <2>4. Len(file.columns) \in Nat
    BY <2>2, FileFacts
  <2>5. Len(bound) <= Len(file.columns) /\ written <= Len(source.columns)
    BY <2>2, <2>4 DEF FileInv, BoundInv
  <2>6. ASSUME NEW c \in 1 .. Len(bound)
        PROVE  /\ IsInjective(bound[c].texts)
               /\ {bound[c].index[v] : v \in DOMAIN bound[c].index}
                    = 1 .. Len(bound[c].texts)
    <3> DEFINE m == MapOf(c)
    <3>1. /\ bound[c].texts = EnumTexts(m) /\ bound[c].index = EnumIndex(m)
          /\ IsInjective(bound[c].texts)
      BY <2>2 DEF BoundInv
    <3>2. LabelMap(m)
      <4>1. Len(bound) > 0
        BY <2>2 DEF BoundInv, IsList
      <4> QED
        BY <2>1, <4>1, LabelsRead, MapFacts DEF MapOf
    <3> HIDE DEF m
    <3>3. /\ \A v \in DOMAIN EnumIndex(m) : EnumIndex(m)[v] \in 1 .. Len(EnumTexts(m))
          /\ \A i \in 1 .. Len(EnumTexts(m)) :
               \E v \in DOMAIN EnumIndex(m) : EnumIndex(m)[v] = i
      <4>1. /\ DOMAIN EnumIndex(m) = DOMAIN m
            /\ \A v \in DOMAIN m : EnumIndex(m)[v] \in 1 .. Len(EnumTexts(m))
            /\ \A i \in 1 .. Len(EnumTexts(m)) : \E v \in DOMAIN m : EnumIndex(m)[v] = i
        BY <3>2, EnumFacts
      <4> QED
        BY <4>1
    <3>4. {EnumIndex(m)[v] : v \in DOMAIN EnumIndex(m)} = 1 .. Len(EnumTexts(m))
      BY <3>3
    <3> QED
      BY <3>1, <3>4
  <2>7. pc \in {"write", "read", "bind", "scan", "done", "error"}
    BY <2>2 DEF FileInv
  <2> QED
    BY <2>3, <2>5, <2>6, <2>7 DEF TypeOK
<1> QED
  BY <1>1, LabelsInvariant, PTL

\* Whatever the offsets and texts of a table are, ReadValueLabelTable takes no
\* byte of a label from outside the text of the table.
THEOREM LabelsStayInBlob == Spec => []TextsStayInBlob
<1>1. LInv => TextsStayInBlob
  <2>1. SUFFICES ASSUME LInv, NEW i \in 1 .. Len(labels),
                        NEW v \in DOMAIN labels[i].mappings,
                        NEW k \in 1 .. Len(labels[i].mappings[v])
                 PROVE  labels[i].mappings[v][k] # Outside
    BY DEF TextsStayInBlob
  <2>2. FileInv /\ LabelsInv
    BY <2>1 DEF LInv
  <2>3. i \in 1 .. Len(file.tables) /\ labels[i].mappings = Mappings(file.tables[i])
    <3>1. Len(labels) \in Nat /\ Len(file.tables) \in Nat /\ Len(labels) <= Len(file.tables)
      BY <2>2, FileFacts DEF LabelsInv, IsList
    <3> QED
      BY <2>2, <3>1 DEF LabelsInv
  <2>4. LabelMap(labels[i].mappings)
    BY <2>2, <2>3, FileFacts, MappingsRead
  <2>5. labels[i].mappings[v] \in Seq(Bytes)
    BY <2>4 DEF LabelMap
  <2>6. labels[i].mappings[v][k] \in Bytes
    BY <2>5, SeqList
  <2> QED
    BY <2>6, LabelsAssumption
<1> QED
  BY <1>1, LabelsInvariant, PTL

\* A cell of a column of labels is missing or a number.
LEMMA CellFacts ==
  ASSUME FileInv, NEW c \in 1 .. Len(file.columns), NEW cell \in Cells(c)
  PROVE  cell = Null \/ cell \in Int
<1>1. CASE source.copied
  <2>1. Len(source.columns[c].texts) \in Nat
    <3>1. source.columns \in Copied /\ c \in 1 .. Len(source.columns)
      BY <1>1 DEF FileInv
    <3>2. source.columns[c] \in EnumColumns
      BY <3>1, CopiedFacts
    <3> QED
      BY <3>2 DEF EnumColumns, TextLists
  <2>2. \A i \in 1 .. Len(source.columns[c].texts) : 2 * (i - 1) \in Int
    BY <2>1
  <2> QED
    BY <1>1, <2>2 DEF Cells
<1>2. CASE ~ source.copied
  BY <1>2, LabelsAssumption DEF Cells
<1> QED
  BY <1>1, <1>2

\* Where the whole part of a number that does not fit 32 bits is no such
\* integer either, but for fractions just below the least one.
LEMMA WholePartFits ==
  ASSUME NEW h \in Int, ~ FitsInInt32(h), ~ h < -2 * (Int32Max + 1)
  PROVE  WholePart(h) \notin Int32
<1>1. h >= 2 * (Int32Max + 1) /\ Int32Max \in Nat
  BY LabelsAssumption DEF FitsInInt32
<1>2. h >= 0 /\ WholePart(h) = h \div 2
  BY <1>1 DEF WholePart
<1>3. h \div 2 >= Int32Max + 1
  BY <1>1, <1>2
<1> QED
  BY <1>1, <1>2, <1>3 DEF Int32

\* In a file of any program, whatever its tables, no cell that ReadDtaScan
\* decodes is shown under the label of another value, and none is shown as
\* NULL for which the table of its column has a label.
THEOREM CellsUnderTheirLabel == Spec => []CellsShowTheirLabel
<1>1. LInv => CellsShowTheirLabel
  <2>1. SUFFICES ASSUME LInv, pc = "done" PROVE CellsShowTheirLabel
    BY DEF CellsShowTheirLabel
  <2> DEFINE c == shown.column
             cell == shown.cell
             name == file.columns[c].labelName
             named == {i \in 1 .. Len(file.tables) : file.tables[i].name = name}
             first == CHOOSE i \in named : \A j \in named : i <= j
             t == file.tables[first]
             m == MappingsOf(name)
             w == WholePart(cell)
  <2>2. /\ FileInv /\ LabelsInv /\ BoundInv /\ Len(labels) = Len(file.tables)
        /\ c \in 1 .. Len(file.columns) /\ cell \in Cells(c)
        /\ bound[c].texts # <<>> /\ shown.text = Decoded(bound[c], cell)
    BY <2>1, LabelsRead DEF LInv, ShownInv
  <2>3. bound[c].texts = EnumTexts(m) /\ bound[c].index = EnumIndex(m)
    BY <2>1, <2>2 DEF BoundInv, MapOf
  <2>4. named = Named(name) /\ first = FirstTable(Named(name))
    BY Zenon DEF Named, FirstTable
  <2> HIDE DEF first, m, named
  <2>5. LabelMap(m)
    BY <2>2, MapFacts DEF m
  <2>6. m # <<>>
    <3>1. Cardinality(DOMAIN <<>>) = 0
      BY FS_EmptySet
    <3>2. IsList(EnumTexts(m)) /\ Len(EnumTexts(m)) = Cardinality(DOMAIN m)
      BY <2>5, EnumFacts
    <3> QED
      BY <2>2, <2>3, <3>1, <3>2, ListEmpty
  <2>7. first \in named /\ m = Mappings(t)
    BY <2>2, <2>4, <2>6, MapFacts DEF m
  <2>8. t \in Tables
    BY <2>2, <2>4, <2>7, FileFacts DEF Named
  <2> HIDE DEF t, w
  <2>9. cell = Null \/ cell \in Int
    BY <2>2, CellFacts
  <2>10. Null \notin Int /\ Null \notin Seq(Bytes)
    BY LabelsAssumption
  <2> DEFINE Right == IF shown.text # Null
                      THEN cell # Null /\ IsLabelOf(t, w, shown.text)
                      ELSE \/ cell = Null \/ cell < -2 * (Int32Max + 1)
                           \/ \A i \in 1 .. Len(t.entries) :
                                t.entries[i].val = w => t.entries[i].off >= Len(t.txt)
  <2>11. SUFFICES Right
    BY Zenon DEF CellsShowTheirLabel, t, first, named, w
  <2>12. CASE cell = Null
    BY <2>2, <2>12 DEF Decoded
  <2>13. CASE cell # Null /\ ~ FitsInInt32(cell)
    <3>1. shown.text = Null
      BY <2>2, <2>13 DEF Decoded
    <3>2. cell < -2 * (Int32Max + 1) \/ w \notin Int32
      BY <2>9, <2>13, WholePartFits DEF w
    <3> HIDE DEF cell
    <3> QED
      BY <2>8, <3>1, <3>2, TableFacts
  <2>14. CASE cell # Null /\ FitsInInt32(cell) /\ w \notin DOMAIN m
    <3>1. shown.text = Null
      BY <2>2, <2>3, <2>5, <2>14, EnumFacts DEF Decoded, w
    <3>2. \A i \in 1 .. Len(t.entries) : t.entries[i].val = w => t.entries[i].off >= Len(t.txt)
      BY <2>7, <2>8, <2>14, MappingsAre, TableFacts
    <3> QED
      BY <3>1, <3>2
  <2>15. CASE cell # Null /\ FitsInInt32(cell) /\ w \in DOMAIN m
    <3>1. shown.text = m[w]
      <4>1. EnumTexts(m)[EnumIndex(m)[w]] = m[w] /\ w \in DOMAIN EnumIndex(m)
        BY <2>5, <2>15, EnumFacts
      <4> QED
        BY <2>2, <2>3, <2>15, <4>1 DEF Decoded, w
    <3>2. shown.text # Null
      BY <2>5, <2>10, <2>15, <3>1 DEF LabelMap
    <3>3. IsLabelOf(t, w, m[w])
      <4>1. PICK i \in 1 .. Len(t.entries) :
              IsLastOf(t, w, i) /\ IsReadAt(m[w], t.txt, t.entries[i].off)
        BY <2>7, <2>8, <2>15, MappingsRead
      <4> QED
        BY <2>8, <4>1, ReadLabel
    <3> QED
      BY <2>15, <3>1, <3>2, <3>3
  <2> QED
    BY <2>12, <2>13, <2>14, <2>15
<1> QED
  BY <1>1, LabelsInvariant, PTL

\* The map of an ENUM column is that of the first column whose name agrees with
\* its own in the bytes that the file keeps.
LEMMA CopiedMap ==
  ASSUME LInv, source.copied, Len(labels) = Len(file.tables), pc # "write",
         NEW c \in 1 .. Len(source.columns)
  PROVE  \E d \in 1 .. c :
           /\ Field(source.columns[d].name) = Field(source.columns[c].name)
           /\ ~ Shadowed(c) => d = c
           /\ DOMAIN MapOf(c) = 0 .. Len(source.columns[d].texts) - 1
           /\ \A i \in 1 .. Len(source.columns[d].texts) :
                MapOf(c)[i - 1] = Kept(source.columns[d].texts[i])
           /\ EnumTexts(MapOf(c)) = KeptTexts(d)
<1> DEFINE columns == source.columns
           name == Field(columns[c].name)
           d == FirstTable(Named(name))
<1>1. /\ FileInv /\ LabelsInv /\ columns \in Copied /\ Len(file.tables) = Len(columns)
      /\ file.columns[c].labelName = name
      /\ \A i \in 1 .. Len(columns) : file.tables[i] = TableFor(columns[i])
  <2>1. /\ file.columns[c] = [labelName |-> name, floating |-> FALSE]
        /\ FileInv /\ LabelsInv /\ columns \in Copied /\ Len(file.tables) = Len(columns)
        /\ \A i \in 1 .. Len(columns) : file.tables[i] = TableFor(columns[i])
    BY DEF LInv, FileInv
  <2> HIDE DEF name
  <2> QED
    BY <2>1
<1>2. /\ Len(columns) \in Nat
      /\ \A i \in 1 .. Len(columns) :
           columns[i] \in EnumColumns /\ Len(columns[i].texts) <= Int32Max + 1
  BY <1>1, CopiedFacts DEF IsList
<1>3. \A i \in 1 .. Len(columns) : file.tables[i].name = Field(columns[i].name)
  BY <1>1, <1>2, TableForFacts
<1>4. c \in Named(name)
  BY <1>1, <1>3 DEF Named
<1>5. name # <<>>
  <2>1. columns[c].name \in Names /\ columns[c].name # <<>>
    BY <1>2 DEF EnumColumns
  <2> QED
    BY <2>1, FieldFacts
<1> HIDE DEF columns
<1>6. MapOf(c) = MappingsOf(name)
  BY <1>1 DEF MapOf
<1> HIDE DEF name
<1>7. /\ d \in Named(name) /\ d <= c
      /\ MapOf(c) = Mappings(file.tables[d])
  BY <1>1, <1>4, <1>5, <1>6, MapFacts
<1> HIDE DEF d
<1>8. d \in 1 .. Len(columns) /\ d \in 1 .. c /\ Field(columns[d].name) = name
  BY <1>1, <1>2, <1>3, <1>7 DEF Named
<1>9. ~ Shadowed(c) => d = c
  <2>1. SUFFICES ASSUME d # c PROVE Shadowed(c)
    OBVIOUS
  <2>2. d \in 1 .. c - 1
    BY <1>2, <1>8, <2>1
  <2> QED
    BY <1>8, <2>2 DEF Shadowed, Field, name, columns
<1>10. MapOf(c) = Mappings(TableFor(columns[d]))
  BY <1>1, <1>7, <1>8
<1>11. /\ DOMAIN MapOf(c) = 0 .. Len(columns[d].texts) - 1
       /\ \A i \in 1 .. Len(columns[d].texts) : MapOf(c)[i - 1] = Kept(columns[d].texts[i])
       /\ EnumTexts(MapOf(c)) = [i \in 1 .. Len(columns[d].texts) |->
                                   Kept(columns[d].texts[i])]
  BY <1>2, <1>8, <1>10, CopiedEnum
<1>12. EnumTexts(MapOf(c)) = KeptTexts(d)
  BY <1>11, Zenon DEF KeptTexts, columns
<1> QED
  BY <1>8, <1>9, <1>11, <1>12, Zenon DEF name, columns

\* Whatever ENUM columns COPY writes, read_dta binds each as the ENUM it was and
\* reads each cell back as its text, all up to a NUL, unless an earlier column
\* takes its name in the file; it refuses only texts that agree up to a NUL.
THEOREM EnumsReadBack == Spec => []EnumsSurvive
<1>1. LInv => EnumsSurvive
  <2>1. SUFFICES ASSUME LInv, source.copied PROVE EnumsSurvive
    BY DEF EnumsSurvive
  <2>2. FileInv /\ BoundInv /\ ShownInv /\ Len(file.columns) = Len(source.columns)
    BY <2>1 DEF LInv, FileInv
  <2>3. Len(source.columns) \in Nat
    BY <2>2, FileFacts
  <2>4. ASSUME pc = "error"
        PROVE  \E c \in 1 .. Len(source.columns) : ~ IsInjective(KeptTexts(c))
    <3>1. PICK c \in 1 .. Len(source.columns) : ~ IsInjective(EnumTexts(MapOf(c)))
      BY <2>2, <2>4 DEF BoundInv
    <3>2. Len(labels) = Len(file.tables)
      BY <2>1, <2>4, LabelsRead
    <3>3. PICK d \in 1 .. c : EnumTexts(MapOf(c)) = KeptTexts(d)
      BY <2>1, <2>4, <3>2, CopiedMap
    <3>4. d \in 1 .. Len(source.columns)
      BY <2>3
    <3> QED
      BY <3>1, <3>3, <3>4
  <2>5. ASSUME NEW c \in 1 .. Len(bound), ~ Shadowed(c)
        PROVE  bound[c].texts = KeptTexts(c)
    <3>1. c \in 1 .. Len(source.columns) /\ Len(bound) > 0
      BY <2>2, <2>3 DEF BoundInv, IsList
    <3>2. pc # "write" /\ Len(labels) = Len(file.tables)
      BY <2>1, <2>2, <3>1, LabelsRead, EmptyIsList DEF BoundInv
    <3>3. EnumTexts(MapOf(c)) = KeptTexts(c)
      BY <2>1, <2>5, <3>1, <3>2, CopiedMap
    <3> QED
      BY <2>2, <3>3 DEF BoundInv
  <2>6. ASSUME pc = "done", ~ Shadowed(shown.column)
        PROVE  shown.text = IF shown.cell = Null THEN Null
                            ELSE KeptTexts(shown.column)[shown.cell \div 2 + 1]
    <3> DEFINE c == shown.column
               cell == shown.cell
               texts == source.columns[c].texts
               m == MapOf(c)
    <3>1. /\ c \in 1 .. Len(source.columns) /\ cell \in Cells(c)
          /\ shown.text = Decoded(bound[c], cell)
          /\ Len(labels) = Len(file.tables)
          /\ bound[c].texts = EnumTexts(m) /\ bound[c].index = EnumIndex(m)
      BY <2>1, <2>2, <2>6, LabelsRead DEF ShownInv, BoundInv
    <3>2. CASE cell = Null
      BY <3>1, <3>2 DEF Decoded
    <3>3. CASE cell # Null
      <4>1. PICK i \in 1 .. Len(texts) : cell = 2 * (i - 1)
        BY <2>1, <3>1, <3>3 DEF Cells
      <4>2. Len(texts) \in Nat /\ Len(texts) <= Int32Max + 1
        <5>1. source.columns \in Copied
          BY <2>1, <2>2 DEF FileInv
        <5>2. source.columns[c] \in EnumColumns /\ Len(texts) <= Int32Max + 1
          BY <3>1, <5>1, CopiedFacts
        <5> QED
          BY <5>2 DEF EnumColumns, TextLists
      <4>3. /\ DOMAIN m = 0 .. Len(texts) - 1 /\ m[i - 1] = Kept(texts[i])
        <5>1. PICK d \in 1 .. c :
                /\ ~ Shadowed(c) => d = c
                /\ DOMAIN m = 0 .. Len(source.columns[d].texts) - 1
                /\ \A j \in 1 .. Len(source.columns[d].texts) :
                     m[j - 1] = Kept(source.columns[d].texts[j])
          <6>1. pc # "write"
            BY <2>6
          <6> QED
            BY <2>1, <3>1, <6>1, CopiedMap
        <5>2. d = c
          BY <2>6, <5>1
        <5> HIDE DEF m
        <5> QED
          BY <4>1, <5>1, <5>2
      <4>4. LabelMap(m)
        BY <2>1, <2>6, LabelsRead, MapFacts DEF MapOf
      <4> HIDE DEF m, texts, cell
      <4>5. FitsInInt32(cell) /\ WholePart(cell) = i - 1 /\ cell \div 2 + 1 = i
        BY <4>1, <4>2, LabelsAssumption DEF FitsInInt32, WholePart
      <4>6. i - 1 \in DOMAIN m
        BY <4>2, <4>3
      <4>7. i - 1 \in DOMAIN EnumIndex(m) /\ EnumTexts(m)[EnumIndex(m)[i - 1]] = m[i - 1]
        BY <4>4, <4>6, EnumFacts
      <4>8. Decoded(bound[c], cell) = Kept(texts[i])
        BY <3>1, <3>3, <4>3, <4>5, <4>7 DEF Decoded
      <4>9. KeptTexts(c)[i] = Kept(texts[i])
        BY DEF KeptTexts, texts
      <4> QED
        BY <3>1, <3>3, <4>5, <4>8, <4>9 DEF cell
    <3> QED
      BY <3>2, <3>3
  <2> QED
    BY <2>4, <2>5, <2>6, Zenon DEF EnumsSurvive
<1> QED
  BY <1>1, LabelsInvariant, PTL
=============================================================================
