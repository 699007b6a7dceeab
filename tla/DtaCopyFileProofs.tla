------------------------- MODULE DtaCopyFileProofs -------------------------
(***************************************************************************)
(* Proofs about the file COPY TO writes, at every moment of the writing:   *)
(* a file that was finalised reads back, a crash shows no row or all, and  *)
(* with a strL column the table appears in one step, as CopyContract says. *)
(***************************************************************************)
EXTENDS DtaCopyProofs

\* References are stored modulo VMod and OMod; within these they are exact.
KeysFit == HasStrLs => RowWidth < VMod /\ MaxRows < OMod

-----------------------------------------------------------------------------
(***************************************************************************)
(* A section in a file: its tag, its items, of one kind, and its closing   *)
(* tag.                                                                    *)
(***************************************************************************)
HoldsSection(f, pos, open, items, kind, close) ==
  /\ Len(f) >= pos + Len(items) + 2
  /\ f[pos + 1] = Tag(open)
  /\ \A j \in 1 .. Len(items) : f[pos + 1 + j] = items[j] /\ items[j].kind = kind
  /\ f[pos + Len(items) + 2] = Tag(close)

\* The first token after the tag that is of another kind.
LEMMA FirstOtherIs ==
  ASSUME NEW f, IsList(f), NEW pos \in Nat, NEW n \in Nat, n <= Len(f), NEW item,
         \A i \in pos + 1 .. pos + n : TokenAt(f, i).kind = item,
         TokenAt(f, pos + n + 1).kind # item
  PROVE  FirstOther(f, pos, item) = pos + n + 1
<1> DEFINE P(e) == /\ TokenAt(f, e).kind # item
                   /\ \A i \in pos + 1 .. e - 1 : TokenAt(f, i).kind = item
           last == pos + n + 1
<1>1. last \in pos + 1 .. pos + 1 + Len(f) /\ P(last)
  BY DEF IsList
<1>2. ASSUME NEW e \in pos + 1 .. pos + 1 + Len(f), P(e) PROVE e = last
  <2>1. e \in Nat /\ last \in Nat
    BY DEF IsList
  <2>2. ~ e < last
    BY <1>2, <2>1
  <2>3. ~ last < e
    BY <1>2, <2>1
  <2> QED
    BY <2>1, <2>2, <2>3
<1>3. FirstOther(f, pos, item) = CHOOSE e \in pos + 1 .. pos + 1 + Len(f) : P(e)
  BY DEF FirstOther
<1> HIDE DEF P, last
<1>4. FirstOther(f, pos, item) = last
  BY <1>1, <1>2, <1>3, Zenon
<1> QED
  BY <1>4 DEF last

LEMMA SectionIs ==
  ASSUME NEW f, IsList(f), NEW pos \in Nat, NEW items, IsList(items),
         NEW open, NEW close, NEW item, close # item,
         HoldsSection(f, pos, open, items, item, close)
  PROVE  /\ SectionLoads(f, pos, open, item, close)
         /\ Items(f, pos, item) = pos + 1 .. pos + Len(items)
         /\ \A i \in pos + 1 .. pos + Len(items) : f[i + 1] = items[i - pos]
<1> DEFINE n == Len(items)
<1>1. n \in Nat /\ Len(f) \in Nat /\ Len(f) >= pos + n + 2
  BY DEF HoldsSection, IsList
<1>2. ASSUME NEW i \in pos + 1 .. pos + n
      PROVE  f[i + 1] = items[i - pos] /\ TokenAt(f, i).kind = item
  <2>1. i - pos \in 1 .. n /\ pos + 1 + (i - pos) = i + 1 /\ i < Len(f)
    BY <1>1
  <2>2. f[i + 1] = items[i - pos] /\ items[i - pos].kind = item
    <3>1. f[pos + 1 + (i - pos)] = items[i - pos] /\ items[i - pos].kind = item
      BY <2>1 DEF HoldsSection
    <3> QED
      BY <2>1, <3>1
  <2> QED
    BY <2>1, <2>2 DEF TokenAt
<1>3. TokenAt(f, pos) = Tag(open)
  BY <1>1 DEF HoldsSection, TokenAt
<1>4. TokenAt(f, pos + n + 1) = Tag(close)
  <2>1. pos + n + 1 < Len(f) /\ pos + n + 1 + 1 = pos + n + 2
    BY <1>1
  <2> QED
    BY <2>1 DEF HoldsSection, TokenAt
<1>5. \A name : Tag(name).kind = name
  BY DEF Tag
<1> HIDE DEF n
<1>6. FirstOther(f, pos, item) = pos + n + 1
  <2>1. n <= Len(f) /\ TokenAt(f, pos + n + 1).kind # item
    BY <1>1, <1>4, <1>5
  <2>2. \A i \in pos + 1 .. pos + n : TokenAt(f, i).kind = item
    BY <1>2
  <2>3. \A m \in Nat :
          /\ m <= Len(f)
          /\ \A i \in pos + 1 .. pos + m : TokenAt(f, i).kind = item
          /\ TokenAt(f, pos + m + 1).kind # item
          => FirstOther(f, pos, item) = pos + m + 1
    BY FirstOtherIs
  <2> QED
    BY <1>1, <2>1, <2>2, <2>3, Zenon
<1>7. SectionLoads(f, pos, open, item, close)
  BY <1>3, <1>4, <1>5, <1>6 DEF SectionLoads
<1>8. Items(f, pos, item) = pos + 1 .. pos + n
  BY <1>1, <1>6 DEF Items
<1> QED
  BY <1>2, <1>7, <1>8 DEF n

-----------------------------------------------------------------------------
(***************************************************************************)
(* Strings: when no two have one key, a key finds its own.                 *)
(***************************************************************************)
KeyOf(string) == StrLKey(string.v, string.o)

KeysApart(strings) ==
  \A j, k \in 1 .. Len(strings) : KeyOf(strings[j]) = KeyOf(strings[k]) => j = k

LEMMA ResolveIs ==
  ASSUME NEW f, IsList(f), NEW pos \in Nat, f[StrLsSlot] = MapEntry(pos),
         NEW gsos, IsList(gsos), KeysApart(gsos),
         HoldsSection(f, pos, "<strls>", gsos, "GSO", "</strls>"),
         NEW j \in 1 .. Len(gsos)
  PROVE  ResolveStrL(f, KeyOf(gsos[j])) = gsos[j].value
<1> DEFINE hits == {i \in Items(f, f[StrLsSlot].pos, "GSO") :
                      StrLKey(f[i + 1].v, f[i + 1].o) = KeyOf(gsos[j])}
<1>1. f[StrLsSlot].pos = pos
  BY DEF MapEntry
<1>2. /\ Items(f, pos, "GSO") = pos + 1 .. pos + Len(gsos)
      /\ \A i \in pos + 1 .. pos + Len(gsos) : f[i + 1] = gsos[i - pos]
  <2>1. "</strls>" # "GSO"
    OBVIOUS
  <2>2. ASSUME NEW open, NEW close, NEW item, close # item,
               HoldsSection(f, pos, open, gsos, item, close)
        PROVE  /\ Items(f, pos, item) = pos + 1 .. pos + Len(gsos)
               /\ \A i \in pos + 1 .. pos + Len(gsos) : f[i + 1] = gsos[i - pos]
    BY <2>2, SectionIs
  <2> QED
    BY <2>1, <2>2, Zenon
<1>3. Len(gsos) \in Nat
  BY DEF IsList
<1>4. hits = {pos + j}
  <2>1. ASSUME NEW i \in hits PROVE i = pos + j
    <3>1. i \in pos + 1 .. pos + Len(gsos) /\ f[i + 1] = gsos[i - pos]
          /\ i - pos \in 1 .. Len(gsos)
      BY <1>1, <1>2, <1>3
    <3>2. KeyOf(gsos[i - pos]) = KeyOf(gsos[j])
      BY <2>1, <3>1 DEF KeyOf
    <3>3. i - pos = j
      BY <3>1, <3>2 DEF KeysApart
    <3> QED
      BY <3>1, <3>3
  <2>2. pos + j \in hits
    <3>1. pos + j \in pos + 1 .. pos + Len(gsos) /\ (pos + j) - pos = j
      BY <1>3
    <3>2. f[(pos + j) + 1] = gsos[j]
      BY <1>2, <3>1
    <3> QED
      BY <1>1, <1>2, <3>1, <3>2 DEF KeyOf
  <2> QED
    BY <2>1, <2>2
<1>5. f[(pos + j) + 1] = gsos[j]
  <2>1. pos + j \in pos + 1 .. pos + Len(gsos) /\ (pos + j) - pos = j
    BY <1>3
  <2> QED
    BY <1>2, <2>1
<1>6. ResolveStrL(f, KeyOf(gsos[j]))
        = IF hits = {} THEN "" ELSE f[(CHOOSE i \in hits : \A k \in hits : k <= i) + 1].value
  BY DEF ResolveStrL
<1>7. pos + j <= pos + j
  BY <1>3
<1> HIDE DEF hits
<1>8. (CHOOSE i \in hits : \A k \in hits : k <= i) = pos + j
  BY <1>4, <1>7, Zenon
<1> QED
  BY <1>4, <1>5, <1>6, <1>8, Zenon

-----------------------------------------------------------------------------
(***************************************************************************)
(* Labels: every ENUM column has a table, and all tables have Dictionary.  *)
(***************************************************************************)
LEMMA EnumColumnsFinite ==
  /\ IsFiniteSet(EnumColumns) /\ Cardinality(EnumColumns) \in Nat
  /\ EnumColumns \subseteq Nat
<1>1. IsFiniteSet(ColumnIds)
  BY FS_Interval, TableFacts
<1>2. IsFiniteSet(EnumColumns)
  BY <1>1, FS_Subset DEF EnumColumns
<1> QED
  BY <1>2, FS_CardinalityType, TableFacts DEF EnumColumns

LEMMA EnumColumnExists ==
  ASSUME NEW c \in EnumColumns
  PROVE  \E i \in 1 .. Cardinality(EnumColumns) : EnumColumn(i) = c
<1> DEFINE UpTo(e) == {d \in EnumColumns : d <= e}
           i == Cardinality(UpTo(c))
<1>1. \A e : UpTo(e) \subseteq EnumColumns
  OBVIOUS
<1>2. \A e : IsFiniteSet(UpTo(e)) /\ Cardinality(UpTo(e)) \in Nat
             /\ Cardinality(UpTo(e)) <= Cardinality(EnumColumns)
  BY <1>1, EnumColumnsFinite, FS_Subset, FS_CardinalityType
<1>3. c \in UpTo(c)
  BY EnumColumnsFinite
<1>4. i > 0
  <2>1. UpTo(c) # {}
    BY <1>3
  <2>2. Cardinality(UpTo(c)) # 0
    BY <1>2, <2>1, FS_EmptySet
  <2> QED
    BY <1>2, <2>2
<1>5. ASSUME NEW a \in EnumColumns, NEW b \in EnumColumns, a < b,
             Cardinality(UpTo(a)) = Cardinality(UpTo(b))
      PROVE  FALSE
  <2>1. a \in Nat /\ b \in Nat
    BY EnumColumnsFinite
  <2>2. \A d \in EnumColumns : d \in Nat
    BY EnumColumnsFinite
  <2>3. ASSUME NEW d \in UpTo(a) PROVE d \in UpTo(b)
    <3>1. d \in EnumColumns /\ d <= a /\ d \in Nat
      BY <2>2
    <3>2. d <= b
      BY <1>5, <2>1, <3>1
    <3> QED
      BY <3>1, <3>2
  <2>4. b \in UpTo(b) /\ b \notin UpTo(a)
    BY <1>5, <2>1
  <2> HIDE DEF UpTo
  <2>5. UpTo(a) = UpTo(b)
    BY <1>2, <1>5, <2>3, FS_Subset
  <2> QED
    BY <2>4, <2>5
<1>6. EnumColumn(i) = CHOOSE e \in EnumColumns : Cardinality(UpTo(e)) = i
  BY DEF EnumColumn
<1>7. ASSUME NEW e \in EnumColumns, Cardinality(UpTo(e)) = i PROVE e = c
  <2>1. e \in Nat /\ c \in Nat
    BY EnumColumnsFinite
  <2> HIDE DEF UpTo
  <2>2. ~ e < c /\ ~ c < e
    BY <1>5, <1>7
  <2> QED
    BY <2>1, <2>2
<1>8. i \in 1 .. Cardinality(EnumColumns)
  BY <1>2, <1>4, EnumColumnsFinite
<1>9. Cardinality(UpTo(c)) = i
  OBVIOUS
<1> HIDE DEF UpTo, i
<1>10. EnumColumn(i) = c
  BY <1>6, <1>7, <1>9, Zenon
<1> QED
  BY <1>8, <1>10

LEMMA LabelTablesFacts ==
  /\ IsList(LabelTables) /\ Len(LabelTables) = Cardinality(EnumColumns)
  /\ \A i \in 1 .. Len(LabelTables) :
       /\ LabelTables[i].kind = "lbl" /\ LabelTables[i].name = EnumColumn(i)
       /\ LabelTables[i].mappings = Dictionary
  BY EnumColumnsFinite DEF LabelTables, IsList

LEMMA LabelIs ==
  ASSUME NEW f, IsList(f), NEW pos \in Nat, f[LabelsSlot] = MapEntry(pos),
         HoldsSection(f, pos, "<value_labels>", LabelTables, "lbl", "</value_labels>"),
         NEW c \in EnumColumns, NEW code \in DOMAIN Dictionary
  PROVE  LabelOf(f, c, code) = Dictionary[code]
<1> DEFINE n == Len(LabelTables)
           tables == {i \in Items(f, f[LabelsSlot].pos, "lbl") : f[i + 1].name = c}
           first == CHOOSE i \in tables : \A j \in tables : i <= j
<1>1. f[LabelsSlot].pos = pos /\ n \in Nat
  BY LabelTablesFacts DEF MapEntry, IsList
<1>2. /\ Items(f, pos, "lbl") = pos + 1 .. pos + n
      /\ \A i \in pos + 1 .. pos + n : f[i + 1] = LabelTables[i - pos]
  <2>1. "</value_labels>" # "lbl"
    OBVIOUS
  <2>2. ASSUME NEW open, NEW close, NEW item, close # item,
               HoldsSection(f, pos, open, LabelTables, item, close)
        PROVE  /\ Items(f, pos, item) = pos + 1 .. pos + Len(LabelTables)
               /\ \A i \in pos + 1 .. pos + Len(LabelTables) : f[i + 1] = LabelTables[i - pos]
    BY <2>2, SectionIs, LabelTablesFacts
  <2> QED
    BY <2>1, <2>2, LabelTablesFacts, Zenon DEF n
<1>3. tables # {}
  <2>1. PICK i \in 1 .. n : EnumColumn(i) = c
    BY EnumColumnExists, LabelTablesFacts
  <2>2. pos + i \in pos + 1 .. pos + n /\ (pos + i) - pos = i
    BY <1>1
  <2>3. f[(pos + i) + 1].name = c
    BY <1>2, <2>1, <2>2, LabelTablesFacts
  <2> QED
    BY <1>1, <1>2, <2>2, <2>3
<1>4. tables \subseteq pos + 1 .. pos + n
  BY <1>1, <1>2
<1>5. ASSUME NEW i \in tables PROVE f[i + 1].mappings = Dictionary
  <2>1. i \in pos + 1 .. pos + n /\ i - pos \in 1 .. n
    BY <1>1, <1>4
  <2> QED
    BY <1>2, <2>1, LabelTablesFacts
<1>6. LabelOf(f, c, code) = IF tables = {} THEN code
                            ELSE IF code \in DOMAIN f[first + 1].mappings
                                 THEN f[first + 1].mappings[code] ELSE Null
  BY DEF LabelOf
<1> HIDE DEF tables
<1>7. tables \subseteq Nat
  BY <1>1, <1>4
<1>8. first \in tables
  BY <1>3, <1>7, LeastExists, Zenon
<1> HIDE DEF first
<1> QED
  BY <1>3, <1>5, <1>6, <1>8
-----------------------------------------------------------------------------
(***************************************************************************)
(* Cells and rows.                                                         *)
(***************************************************************************)
\* The cell of column c of row i, counted from the first cell of the rows.
Cell(i, c) == (i - 1) * RowWidth + c

LEMMA CellBounds ==
  ASSUME NEW n \in Nat, NEW i \in 1 .. n, NEW c \in 1 .. RowWidth
  PROVE  Cell(i, c) \in 1 .. n * RowWidth /\ Cell(i, c) \in Nat /\ n * RowWidth \in Nat
<1>1. RowWidth \in Nat /\ i - 1 \in Nat /\ i - 1 <= n - 1 /\ n - 1 \in Nat
  BY TableFacts
<1> DEFINE w == RowWidth
           j == i - 1
           m == n - 1
<1>2. j * w >= 0 /\ j * w <= m * w /\ j * w \in Nat /\ m * w \in Nat
  <2> HIDE DEF w, j, m
  <2>1. w \in Nat /\ j \in Nat /\ m \in Nat /\ j <= m
    BY <1>1 DEF w, j, m
  <2> QED
    BY <2>1, SMT
<1>3. m * w + w = n * w
  BY <1>1, SMT
<1> QED
  BY <1>1, <1>2, <1>3, TableFacts DEF Cell

\* strings has, for each registered string, its text and its reference.
IsCell(token, c, value, strings) ==
  CASE Columns[c] = "num" -> token = [kind |-> "num", value |-> value]
    [] Columns[c] = "enum" ->
         token = [kind |-> "enum", value |-> IF value = Null THEN Null ELSE CodeOf(value)]
    [] Columns[c] = "str" ->
         IF value \in {Null, ""} THEN token = [kind |-> "str", ref |-> <<0, 0>>]
         ELSE \E j \in 1 .. Len(strings) :
                strings[j].value = value /\ token = [kind |-> "str", ref |-> KeyOf(strings[j])]

HoldsRows(f, rows, strings) ==
  /\ Len(f) >= Len(Metadata) + Len(rows) * RowWidth
  /\ \A i \in 1 .. Len(rows), c \in 1 .. RowWidth :
       IsCell(f[Len(Metadata) + Cell(i, c)], c, rows[i][c], strings)

\* The parts of the file a reader looks at, with value labels or without.
HoldsTable(f, rows, strings, labels) ==
  /\ f[ObsSlot] = ObsCount(Len(rows)) /\ f[DataSlot] = MapEntry(Len(Metadata) - 1)
  /\ HoldsRows(f, rows, strings)
  /\ HasStrLs => \E pos \in Nat :
       /\ f[StrLsSlot] = MapEntry(pos)
       /\ HoldsSection(f, pos, "<strls>", strings, "GSO", "</strls>")
  /\ labels => \E pos \in Nat :
       /\ f[LabelsSlot] = MapEntry(pos)
       /\ HoldsSection(f, pos, "<value_labels>", LabelTables, "lbl", "</value_labels>")

\* A value of an ENUM column is one of its labels.
IsEnumValue(value) == value = Null \/ \E code \in DOMAIN Dictionary : value = Dictionary[code]

LEMMA CodeOfLabel ==
  ASSUME NEW value, value # Null, IsEnumValue(value)
  PROVE  /\ CodeOf(value) \in DOMAIN Dictionary /\ CodeOf(value) # Null
         /\ Dictionary[CodeOf(value)] = value
<1>1. \E code \in DOMAIN Dictionary : Dictionary[code] = value
  BY DEF IsEnumValue
<1>2. CodeOf(value) \in DOMAIN Dictionary /\ Dictionary[CodeOf(value)] = value
  BY <1>1, Zenon DEF CodeOf
<1> QED
  BY <1>2, DictionaryAssumption

\* A cell is shown as its value should be.
LEMMA DecodeIs ==
  ASSUME NEW f, IsList(f), NEW rows, NEW strings, IsList(strings), NEW labels \in BOOLEAN,
         HoldsTable(f, rows, strings, labels), HasStrLs => KeysApart(strings),
         \A j \in 1 .. Len(strings) : KeyOf(strings[j]) # <<0, 0>>,
         NEW c \in 1 .. RowWidth, NEW value, NEW token, IsCell(token, c, value, strings),
         Columns[c] = "enum" => IsEnumValue(value)
  PROVE  DecodeCell(f, c, token, labels) = ShownValue(c, value, labels)
<1>1. Columns[c] \in {"str", "num", "enum"} /\ c \in ColumnIds
  BY ColumnsAssumption, TableFacts DEF ColumnIds
<1>2. CASE Columns[c] = "num"
  <2>1. token = [kind |-> "num", value |-> value]
    BY <1>2 DEF IsCell
  <2>2. token.kind = "num" /\ token.value = value
    BY <2>1
  <2> QED
    BY <1>2, <2>2 DEF DecodeCell, ShownValue
<1>3. CASE Columns[c] = "enum"
  <2>1. token = [kind |-> "enum", value |-> IF value = Null THEN Null ELSE CodeOf(value)]
    BY <1>3 DEF IsCell
  <2>2. token.kind = "enum" /\ token.value = IF value = Null THEN Null ELSE CodeOf(value)
    BY <2>1
  <2>3. CASE value = Null
    BY <1>3, <2>2, <2>3 DEF DecodeCell, ShownValue
  <2>4. CASE value # Null
    <3>1. /\ CodeOf(value) \in DOMAIN Dictionary /\ CodeOf(value) # Null
          /\ Dictionary[CodeOf(value)] = value
      BY <1>3, <2>4, CodeOfLabel
    <3>2. CASE labels
      <4>1. PICK pos \in Nat :
              /\ f[LabelsSlot] = MapEntry(pos)
              /\ HoldsSection(f, pos, "<value_labels>", LabelTables, "lbl", "</value_labels>")
        BY <3>2, Zenon DEF HoldsTable
      <4>2. c \in EnumColumns
        BY <1>1, <1>3 DEF EnumColumns
      <4>3. LabelOf(f, c, CodeOf(value)) = Dictionary[CodeOf(value)]
        BY <3>1, <4>1, <4>2, LabelIs
      <4> QED
        BY <1>3, <2>2, <2>4, <3>1, <3>2, <4>3 DEF DecodeCell, ShownValue
    <3>3. CASE ~labels
      BY <1>3, <2>2, <2>4, <3>3 DEF DecodeCell, ShownValue
    <3> QED
      BY <3>2, <3>3
  <2> QED
    BY <2>3, <2>4
<1>4. CASE Columns[c] = "str"
  <2>1. CASE value \in {Null, ""}
    <3>1. token = [kind |-> "str", ref |-> <<0, 0>>]
      BY <1>4, <2>1 DEF IsCell
    <3>2. token.kind = "str" /\ token.ref = <<0, 0>>
      BY <3>1
    <3> QED
      BY <1>4, <2>1, <3>2 DEF DecodeCell, ShownValue
  <2>2. CASE value \notin {Null, ""}
    <3>1. PICK j \in 1 .. Len(strings) :
            strings[j].value = value /\ token = [kind |-> "str", ref |-> KeyOf(strings[j])]
      BY <1>4, <2>2 DEF IsCell
    <3>2. token.kind = "str" /\ token.ref = KeyOf(strings[j])
      BY <3>1
    <3>3. HasStrLs
      BY <1>1, <1>4 DEF HasStrLs
    <3>4. PICK pos \in Nat :
            /\ f[StrLsSlot] = MapEntry(pos)
            /\ HoldsSection(f, pos, "<strls>", strings, "GSO", "</strls>")
      BY <3>3, Zenon DEF HoldsTable
    <3>5. ResolveStrL(f, KeyOf(strings[j])) = strings[j].value
      <4>1. KeysApart(strings)
        BY <3>3
      <4>2. \A k \in 1 .. Len(strings) : ResolveStrL(f, KeyOf(strings[k])) = strings[k].value
        BY <3>4, <4>1, ResolveIs
      <4> QED
        BY <4>2, Zenon
    <3>6. KeyOf(strings[j]) # <<0, 0>>
      OBVIOUS
    <3> QED
      BY <1>4, <2>2, <3>1, <3>2, <3>5, <3>6 DEF DecodeCell, ShownValue
  <2> QED
    BY <2>1, <2>2
<1> QED
  BY <1>1, <1>2, <1>3, <1>4

\* A whole file is read back.
LEMMA ReadBackIs ==
  ASSUME NEW f, IsList(f), NEW rows, IsList(rows), NEW strings, IsList(strings),
         NEW labels \in BOOLEAN,
         HoldsTable(f, rows, strings, labels), HasStrLs => KeysApart(strings),
         \A j \in 1 .. Len(strings) : KeyOf(strings[j]) # <<0, 0>>,
         \A i \in 1 .. Len(rows), c \in EnumColumns : IsEnumValue(rows[i][c])
  PROVE  ReadBack(f, labels) = [ok |-> TRUE, rows |-> Shown(rows, labels)]
<1> DEFINE n == Len(rows)
<1>1. n \in Nat /\ Len(f) \in Nat /\ n * RowWidth \in Nat /\ Len(f) >= 7 + n * RowWidth
      /\ DOMAIN rows = 1 .. n
  BY TableFacts, MetadataFacts DEF HoldsTable, HoldsRows, IsList
<1>2. NumObs(f) = n /\ DataOffset(f) = 7
  BY MetadataFacts DEF HoldsTable, NumObs, DataOffset, ObsCount, MapEntry
<1> HIDE DEF n
<1>3. ReaderOpens(f)
  <2>1. n <= (Len(f) - 7) \div RowWidth
    <3>1. Len(f) - 7 \in Nat /\ n * RowWidth <= Len(f) - 7
      BY <1>1
    <3> QED
      BY <1>1, <3>1, TableFacts, QuotientBound
  <2>2. Len(f) >= 7
    BY <1>1
  <2> QED
    BY <1>1, <1>2, <2>1, <2>2, MetadataFacts DEF ReaderOpens
<1>4. HasStrLs => SectionLoads(f, f[StrLsSlot].pos, "<strls>", "GSO", "</strls>")
  <2> SUFFICES ASSUME HasStrLs
               PROVE  SectionLoads(f, f[StrLsSlot].pos, "<strls>", "GSO", "</strls>")
    OBVIOUS
  <2>1. PICK pos \in Nat : /\ f[StrLsSlot] = MapEntry(pos)
                           /\ HoldsSection(f, pos, "<strls>", strings, "GSO", "</strls>")
    BY Zenon DEF HoldsTable
  <2>2. "</strls>" # "GSO"
    OBVIOUS
  <2>3. SectionLoads(f, pos, "<strls>", "GSO", "</strls>")
    BY <2>1, <2>2, SectionIs, Zenon
  <2> QED
    BY <2>1, <2>3 DEF MapEntry
<1>5. labels => SectionLoads(f, f[LabelsSlot].pos, "<value_labels>", "lbl", "</value_labels>")
  <2> SUFFICES ASSUME labels
               PROVE  SectionLoads(f, f[LabelsSlot].pos, "<value_labels>", "lbl", "</value_labels>")
    OBVIOUS
  <2>1. PICK pos \in Nat :
          /\ f[LabelsSlot] = MapEntry(pos)
          /\ HoldsSection(f, pos, "<value_labels>", LabelTables, "lbl", "</value_labels>")
    BY Zenon DEF HoldsTable
  <2>2. "</value_labels>" # "lbl"
    OBVIOUS
  <2>3. SectionLoads(f, pos, "<value_labels>", "lbl", "</value_labels>")
    BY <2>1, <2>2, SectionIs, LabelTablesFacts, Zenon
  <2> QED
    BY <2>1, <2>3 DEF MapEntry
<1>6. BindSucceeds(f, labels)
  BY <1>3, <1>4, <1>5, Zenon DEF BindSucceeds
<1>7. ASSUME NEW i \in 1 .. n, NEW c \in ColumnIds
      PROVE  DecodeCell(f, c, TokenAt(f, DataOffset(f) + (i - 1) * RowWidth + c - 1), labels)
               = ShownValue(c, rows[i][c], labels)
  <2>1. c \in 1 .. RowWidth
    BY TableFacts
  <2>2. Cell(i, c) \in 1 .. n * RowWidth /\ Cell(i, c) \in Nat
    BY <1>1, <2>1, CellBounds
  <2>3. DataOffset(f) + (i - 1) * RowWidth + c - 1 = 6 + Cell(i, c)
    <3>1. (i - 1) * RowWidth \in Int /\ c \in Int
      BY <1>1, <2>1, TableFacts
    <3> QED
      BY <1>2, <3>1 DEF Cell
  <2>4. TokenAt(f, 6 + Cell(i, c)) = f[7 + Cell(i, c)]
    <3>1. 6 + Cell(i, c) < Len(f) /\ (6 + Cell(i, c)) + 1 = 7 + Cell(i, c)
      BY <1>1, <2>2
    <3> QED
      BY <3>1 DEF TokenAt
  <2>5. IsCell(f[7 + Cell(i, c)], c, rows[i][c], strings)
    BY <2>1, MetadataFacts DEF HoldsTable, HoldsRows, n
  <2>6. Columns[c] = "enum" => IsEnumValue(rows[i][c])
    BY DEF EnumColumns, n
  <2>7. DecodeCell(f, c, f[7 + Cell(i, c)], labels) = ShownValue(c, rows[i][c], labels)
    BY <2>1, <2>5, <2>6, DecodeIs
  <2> QED
    BY <2>3, <2>4, <2>7
<1>8. Shown(rows, labels)
        = [i \in 1 .. n |-> [c \in ColumnIds |-> ShownValue(c, rows[i][c], labels)]]
  BY <1>1 DEF Shown
<1> DEFINE back == [i \in 1 .. NumObs(f) |-> [c \in ColumnIds |->
                      DecodeCell(f, c, TokenAt(f, DataOffset(f) + (i - 1) * RowWidth + c - 1),
                                 labels)]]
<1>9. back = Shown(rows, labels)
  BY <1>2, <1>7, <1>8
<1>10. ReadBack(f, labels) = [ok |-> TRUE, rows |-> back]
  BY <1>6 DEF ReadBack
<1> QED
  BY <1>9, <1>10, Zenon

-----------------------------------------------------------------------------
(***************************************************************************)
(* The rows in the file, from the first cell on, are the rows written.     *)
(***************************************************************************)
CellsEnd == Len(Metadata) + Len(written) * RowWidth

RowsInv ==
  /\ phase = "metadata" => written = <<>>
  /\ phase \notin {"metadata", "dropped"} =>
       /\ offset.data = Len(Metadata) - 1
       /\ NoSinkThrew => /\ HoldsRows(file, written, strls)
                         /\ phase = "sink" => Len(file) = CellsEnd

(***************************************************************************)
(* After the rows: Finalize does the planned writes in their order.  Done  *)
(* of them are done, which gives the end of the file and its header.       *)
(***************************************************************************)
Planned == Appends(Trailer) \o HeaderRewrites(offset)
Done == Len(Planned) - Len(pending)

HeaderToken(s) ==
  IF s \in ObsSlot .. LabelsSlot /\ Len(Trailer) + s - 1 <= Done
  THEN HeaderRewrites(offset)[s - 1].token ELSE Metadata[s]

TrailerInv ==
  phase \in {"finalize", "sync", "closed"} =>
    /\ offset.strls = CellsEnd + 1 /\ offset.labels = CellsEnd + 3 + Len(strls)
    /\ Len(pending) <= Len(Planned) /\ (phase # "finalize" => Len(pending) = 0)
    /\ \A i \in 1 .. Len(pending) : pending[i] = Planned[Done + i]
    /\ Len(file) = CellsEnd + (IF Done <= Len(Trailer) THEN Done ELSE Len(Trailer))
    /\ \A i \in 1 .. Len(file) - CellsEnd : file[CellsEnd + i] = Trailer[i]
    /\ \A s \in 1 .. Len(Metadata) : file[s] = HeaderToken(s)

LEMMA CellsEndFacts ==
  ASSUME TypeInv
  PROVE  /\ Len(written) \in Nat /\ IsList(written) /\ Len(written) * RowWidth \in Nat
         /\ CellsEnd \in Nat /\ CellsEnd = 7 + Len(written) * RowWidth
<1>1. Len(written) \in Nat /\ IsList(written)
  BY DEF TypeInv, TypeOK, IsList
<1>2. Len(written) * RowWidth \in Nat
  BY <1>1, TableFacts
<1> QED
  BY <1>1, <1>2, MetadataFacts DEF CellsEnd

\* Cells that were there stay cells when strings are added, or get other fields,
\* and tokens that are not cells change.
LEMMA RowsStay ==
  ASSUME NEW f, NEW g, NEW rows, IsList(rows), NEW strings, NEW more,
         HoldsRows(f, rows, strings), IsList(strings), IsList(more),
         Len(g) >= 7 + Len(rows) * RowWidth,
         \A i \in 1 .. Len(rows) * RowWidth : g[7 + i] = f[7 + i],
         Len(strings) <= Len(more),
         \A j \in 1 .. Len(strings) : /\ more[j].value = strings[j].value
                                      /\ KeyOf(more[j]) = KeyOf(strings[j])
  PROVE  HoldsRows(g, rows, more)
<1>1. ASSUME NEW i \in 1 .. Len(rows), NEW c \in 1 .. RowWidth
      PROVE  IsCell(g[7 + Cell(i, c)], c, rows[i][c], more)
  <2>1. Cell(i, c) \in 1 .. Len(rows) * RowWidth
    BY CellBounds DEF IsList
  <2>2. g[7 + Cell(i, c)] = f[7 + Cell(i, c)]
    BY <2>1
  <2>3. IsCell(f[7 + Cell(i, c)], c, rows[i][c], strings)
    BY MetadataFacts DEF HoldsRows
  <2>4. ASSUME NEW token, NEW value, IsCell(token, c, value, strings)
        PROVE  IsCell(token, c, value, more)
    <3>1. c \in ColumnIds /\ Columns[c] \in {"str", "num", "enum"}
      BY ColumnsAssumption, TableFacts DEF ColumnIds
    <3>2. CASE Columns[c] \in {"num", "enum"} \/ value \in {Null, ""}
      BY <2>4, <3>1, <3>2 DEF IsCell
    <3>3. CASE Columns[c] = "str" /\ value \notin {Null, ""}
      <4>1. PICK j \in 1 .. Len(strings) :
              /\ strings[j].value = value
              /\ token = [kind |-> "str", ref |-> KeyOf(strings[j])]
        BY <2>4, <3>3 DEF IsCell
      <4>2. /\ j \in 1 .. Len(more) /\ more[j].value = strings[j].value
            /\ KeyOf(more[j]) = KeyOf(strings[j])
        BY DEF IsList
      <4> QED
        BY <3>3, <4>1, <4>2 DEF IsCell
    <3> QED
      BY <3>1, <3>2, <3>3
  <2> QED
    BY <2>2, <2>3, <2>4
<1> QED
  BY <1>1, MetadataFacts DEF HoldsRows

\* The cells of a row that was encoded.
LEMMA EncodedCell ==
  ASSUME NEW order, IsList(order), NEW c \in 1 .. RowWidth, NEW value,
         IsStrL(c, value) => \E j \in 1 .. Len(order) : order[j].value = value
  PROVE  IsCell(EncodeCell(order, c, value), c, value, order)
<1>1. c \in ColumnIds /\ Columns[c] \in {"str", "num", "enum"}
  BY ColumnsAssumption, TableFacts DEF ColumnIds
<1>2. CASE Columns[c] # "str"
  BY <1>1, <1>2 DEF IsCell, EncodeCell
<1>3. CASE Columns[c] = "str" /\ ~IsStrL(c, value)
  BY <1>3 DEF IsCell, EncodeCell, IsStrL
<1>4. CASE IsStrL(c, value)
  <2> DEFINE i == CHOOSE i \in DOMAIN order : order[i].value = value
  <2>1. i \in 1 .. Len(order) /\ order[i].value = value
    BY <1>4 DEF IsList
  <2>2. RefOf(order, value) = KeyOf(order[i])
    BY DEF RefOf, KeyOf
  <2> HIDE DEF i
  <2>3. EncodeCell(order, c, value) = [kind |-> "str", ref |-> KeyOf(order[i])]
    BY <1>4, <2>2 DEF EncodeCell, IsStrL
  <2>4. Columns[c] = "str" /\ value \notin {Null, ""}
    BY <1>4 DEF IsStrL
  <2> QED
    BY <2>1, <2>3, <2>4 DEF IsCell
<1> QED
  BY <1>1, <1>2, <1>3, <1>4

LEMMA SinkRowKeepsRows ==
  ASSUME TypeInv, RefsInv, RowsInv, NEW t \in Threads, SinkRow(t), phase = "sink"
  PROVE  RowsInv'
<1>1. UNCHANGED <<phase, pc, offset>> /\ (NoSinkThrew' <=> NoSinkThrew)
  BY DEF SinkRow, NoSinkThrew
<1> SUFFICES ASSUME NoSinkThrew
             PROVE  HoldsRows(file', written', strls') /\ Len(file') = CellsEnd'
  BY <1>1 DEF RowsInv
<1>2. PICK r \in InputRows :
        LET order == Register(r, ObsIndex(t), RowWidth) IN
        /\ strls' = order
        /\ file' = file \o [c \in ColumnIds |-> EncodeCell(order, c, r[c])]
        /\ written' = Append(written, r)
  BY DEF SinkRow
<1> DEFINE tokens == [c \in ColumnIds |-> EncodeCell(strls', c, r[c])]
           n == Len(written)
           m == n * RowWidth
<1>3. n \in Nat /\ IsList(written) /\ m \in Nat /\ CellsEnd = 7 + m
      /\ n = Len(written) /\ m = n * RowWidth
  BY CellsEndFacts
<1>4. /\ IsList(tokens) /\ Len(tokens) = RowWidth
      /\ \A c \in 1 .. RowWidth : tokens[c] = EncodeCell(strls', c, r[c])
  BY TableFacts DEF IsList
<1>5. HoldsRows(file, written, strls) /\ Len(file) = 7 + m
  BY <1>3 DEF RowsInv
<1>6. IsList(file) /\ IsList(strls)
  BY DEF TypeInv
<1>7. file' = file \o tokens
  BY <1>2
<1> HIDE DEF tokens, n, m
<1>8. /\ IsList(file') /\ Len(file') = 7 + m + RowWidth
      /\ \A i \in 1 .. 7 + m : file'[i] = file[i]
      /\ \A c \in 1 .. RowWidth : file'[7 + m + c] = tokens[c]
  <2>1. /\ IsList(file \o tokens) /\ Len(file \o tokens) = Len(file) + Len(tokens)
        /\ \A i \in 1 .. Len(file) : (file \o tokens)[i] = file[i]
        /\ \A i \in 1 .. Len(tokens) : (file \o tokens)[Len(file) + i] = tokens[i]
    BY <1>4, <1>6, ListConcat
  <2>2. Len(tokens) = RowWidth /\ Len(file) = 7 + m
    BY <1>4, <1>5
  <2> QED
    BY <1>7, <2>1, <2>2, Zenon
<1>9. /\ IsList(written') /\ Len(written') = n + 1 /\ written'[n + 1] = r
      /\ \A i \in 1 .. n : written'[i] = written[i]
  BY <1>2, <1>3, ListAppend DEF n
<1>10. (n + 1) * RowWidth = m + RowWidth
  BY <1>3, TableFacts DEF m
<1>11. Len(file') = CellsEnd'
  BY <1>8, <1>9, <1>10, <1>3, MetadataFacts, TableFacts DEF CellsEnd
<1>12. /\ IsList(strls') /\ Len(strls) <= Len(strls')
       /\ \A i \in 1 .. Len(strls) : strls'[i] = strls[i]
  BY <1>2, <1>6, RegisterExtends, TableFacts
<1>13. HoldsRows(file', written, strls')
  <2>1. Len(file') >= 7 + m /\ \A i \in 1 .. m : file'[7 + i] = file[7 + i]
    BY <1>3, <1>8, TableFacts
  <2>2. \A j \in 1 .. Len(strls) : /\ strls'[j].value = strls[j].value
                                   /\ KeyOf(strls'[j]) = KeyOf(strls[j])
    BY <1>12
  <2> QED
    BY <1>3, <1>5, <1>6, <1>12, <2>1, <2>2, RowsStay
<1>14. RefsUpTo(strls', written', n + 1, 0)
  <2>1. RefsInv' /\ NoSinkThrew'
    BY <1>1, SinkRowKeepsRefs
  <2> QED
    BY <1>9, <2>1 DEF RefsInv
<1>15. ASSUME NEW c \in 1 .. RowWidth
       PROVE  IsCell(file'[7 + Cell(n + 1, c)], c, r[c], strls')
  <2>1. 7 + Cell(n + 1, c) = 7 + m + c
    BY <1>3, TableFacts DEF Cell
  <2>2. IsStrL(c, r[c]) => \E j \in 1 .. Len(strls') : strls'[j].value = r[c]
    <3>1. Seen(n + 1, c, n + 1, 0)
      BY <1>3, TableFacts DEF Seen
    <3>2. n + 1 \in Nat /\ c \in Nat
      BY <1>3
    <3>3. IsStrL(c, written'[n + 1][c]) =>
            \E j \in 1 .. Len(strls') : strls'[j].value = written'[n + 1][c]
      BY <1>14, <3>1, <3>2, Zenon DEF RefsUpTo, HasAll
    <3> QED
      BY <1>9, <3>3
  <2>3. IsCell(EncodeCell(strls', c, r[c]), c, r[c], strls')
    BY <1>12, <2>2, EncodedCell
  <2>4. file'[7 + m + c] = EncodeCell(strls', c, r[c])
    BY <1>4, <1>8
  <2> QED
    BY <2>1, <2>3, <2>4
<1>16. \A i \in 1 .. n + 1, c \in 1 .. RowWidth :
         IsCell(file'[7 + Cell(i, c)], c, written'[i][c], strls')
  <2> SUFFICES ASSUME NEW i \in 1 .. n + 1, NEW c \in 1 .. RowWidth
               PROVE  IsCell(file'[7 + Cell(i, c)], c, written'[i][c], strls')
    OBVIOUS
  <2>1. CASE i = n + 1
    BY <1>9, <1>15, <2>1
  <2>2. CASE i \in 1 .. n
    <3>1. IsCell(file'[7 + Cell(i, c)], c, written[i][c], strls')
      BY <1>3, <1>13, <2>2, MetadataFacts DEF HoldsRows
    <3> QED
      BY <1>9, <2>2, <3>1
  <2> QED
    BY <1>3, <2>1, <2>2
<1>17. Len(file') >= 7 + (n + 1) * RowWidth
  BY <1>3, <1>8, <1>10, TableFacts
<1>18. HoldsRows(file', written', strls')
  BY <1>9, <1>16, <1>17, MetadataFacts DEF HoldsRows
<1> QED
  BY <1>11, <1>18

\* The other steps of the threads write nothing, or a sink has thrown.
LEMMA ThreadKeepsRows ==
  ASSUME TypeInv, RefsInv, FileInv, RowsInv, NEW t \in Threads, SinkStep(t)
  PROVE  RowsInv'
<1>1. phase = "sink" /\ phase' = "sink" /\ UNCHANGED offset
  BY DEF SinkStep, SinkCall, SinkBegin, SinkRow, SinkEnd, SinkThrows, RowWriteFails,
         ThreadEnds, FileInv, ThreadsInv
<1>2. CASE SinkRow(t)
  BY <1>1, <1>2, SinkRowKeepsRows
<1>3. CASE SinkThrows(t) \/ RowWriteFails(t)
  <2>1. pc'[t] = "failed"
    BY <1>3 DEF SinkThrows, RowWriteFails, TypeInv, TypeOK
  <2> QED
    BY <1>1, <2>1 DEF RowsInv, NoSinkThrew
<1>4. CASE SinkCall(t) \/ SinkBegin(t) \/ SinkEnd(t) \/ ThreadEnds(t)
  <2>1. UNCHANGED <<file, written, strls>> /\ (NoSinkThrew' => NoSinkThrew)
    BY <1>4 DEF SinkCall, SinkBegin, SinkEnd, ThreadEnds, NoSinkThrew, TypeInv, TypeOK
  <2>2. CellsEnd' = CellsEnd
    BY <2>1 DEF CellsEnd
  <2> QED
    BY <1>1, <2>1, <2>2 DEF RowsInv
<1> QED
  BY <1>2, <1>3, <1>4 DEF SinkStep

\* The metadata end with the tag of the data section, where the rows begin.
LEMMA MetadataKeepsRows ==
  ASSUME TypeInv, FileInv, RowsInv, WriteMetadata PROVE RowsInv'
<1>1. phase = "metadata" /\ written = <<>> /\ written' = <<>> /\ UNCHANGED strls
  BY DEF WriteMetadata, RowsInv
<1>2. IsList(pending) /\ Len(pending) > 0 /\ Len(file) + Len(pending) = 7 /\ IsList(file)
  BY <1>1, MetadataFacts DEF TypeInv, FileInv, MetadataInv, PendingInv
<1>3. CASE pending' # <<>>
  BY <1>1, <1>3 DEF WriteMetadata, RowsInv
<1>4. CASE pending' = <<>>
  <2>1. Len(pending) = 1 /\ Len(file) = 6
    <3>1. IsList(Tail(pending)) /\ Len(Tail(pending)) = Len(pending) - 1
      BY <1>2, ListTail
    <3>2. Len(Tail(pending)) = 0
      BY <1>4, <3>1, ListEmpty DEF WriteMetadata
    <3> QED
      BY <1>2, <3>1, <3>2 DEF IsList
  <2>2. phase' = "sink" /\ offset' = [offset EXCEPT !.data = 6]
    BY <1>4, <2>1 DEF WriteMetadata
  <2>3. offset'.data = Len(Metadata) - 1
    BY <2>2, MetadataFacts DEF TypeInv, TypeOK, NoOffset
  <2>4. Len(file') = 7
    <3>1. Head(pending) = pending[1] /\ pending[1].slot = 0
      <4>1. Head(pending) = pending[1]
        BY <1>2, ListTail
      <4>2. pending[1] = [slot |-> 0, token |-> Metadata[Len(file) + 1]]
        BY <1>1, <2>1 DEF FileInv, MetadataInv
      <4> QED
        BY <4>1, <4>2
    <3>2. file' = Append(file, pending[1].token)
      BY <3>1 DEF WriteMetadata, Write
    <3>3. Len(Append(file, pending[1].token)) = Len(file) + 1
      BY <1>2, ListAppend
    <3> QED
      BY <2>1, <3>2, <3>3
  <2>5. Len(written') = 0 /\ 0 * RowWidth = 0
    BY <1>1, TableFacts
  <2>6. CellsEnd' = 7
    BY <2>5, MetadataFacts DEF CellsEnd
  <2>7. HoldsRows(file', written', strls')
    BY <2>4, <2>5, MetadataFacts DEF HoldsRows
  <2> QED
    BY <2>2, <2>3, <2>4, <2>6, <2>7 DEF RowsInv
<1> QED
  BY <1>3, <1>4

\* What is written after the rows is behind them, or in the header.
LEMMA FinalizeWriteKeepsRows ==
  ASSUME TypeInv, FileInv, RowsInv, FinalizeWrite, NoSinkThrew,
         pending[1].slot \in {0} \cup ObsSlot .. LabelsSlot
  PROVE  HoldsRows(file', written, strls)
<1>1. phase = "finalize" /\ IsList(pending) /\ Len(pending) > 0
  BY DEF FinalizeWrite, FileInv, PendingInv
<1>2. Head(pending) = pending[1]
  BY <1>1, ListTail
<1>3. /\ HoldsRows(file, written, strls) /\ IsList(file) /\ IsList(strls)
      /\ IsList(written) /\ Len(written) * RowWidth \in Nat
      /\ Len(file) >= 7 + Len(written) * RowWidth
  BY <1>1, CellsEndFacts, MetadataFacts DEF RowsInv, TypeInv, HoldsRows
<1> DEFINE m == Len(written) * RowWidth
<1> HIDE DEF m
<1>4. m \in Nat /\ Len(file) >= 7 + m /\ Len(file) \in Nat
  BY <1>3 DEF m, IsList
<1>5. Len(file') >= 7 + m /\ \A i \in 1 .. m : file'[7 + i] = file[7 + i]
  <2>1. CASE pending[1].slot = 0
    <3>1. file' = Append(file, pending[1].token)
      BY <1>2, <2>1 DEF FinalizeWrite, Write
    <3>2. Len(file') = Len(file) + 1 /\ \A i \in 1 .. Len(file) : file'[i] = file[i]
      BY <1>3, <3>1, ListAppend
    <3>3. \A i \in 1 .. m : 7 + i \in 1 .. Len(file)
      BY <1>4
    <3> QED
      BY <1>4, <3>2, <3>3
  <2>2. CASE pending[1].slot \in ObsSlot .. LabelsSlot
    <3>1. pending[1].slot \in 2 .. 5 /\ pending[1].slot # 0
      BY <2>2 DEF ObsSlot, LabelsSlot
    <3>2. file' = [file EXCEPT ![pending[1].slot] = pending[1].token]
      BY <1>2, <3>1, Zenon DEF FinalizeWrite, Write
    <3>3. pending[1].slot \in 1 .. Len(file)
      BY <1>4, <3>1
    <3>4. Len(file') = Len(file)
          /\ \A i \in 1 .. Len(file) : i # pending[1].slot => file'[i] = file[i]
      BY <1>3, <3>2, <3>3, ListUpdate
    <3>5. \A i \in 1 .. m : 7 + i \in 1 .. Len(file) /\ 7 + i # pending[1].slot
      BY <1>4, <3>1
    <3> QED
      BY <1>4, <3>4, <3>5
  <2> QED
    BY <2>1, <2>2
<1>6. Len(strls) <= Len(strls)
  BY <1>3 DEF IsList
<1> QED
  BY <1>3, <1>5, <1>6, RowsStay DEF m
-----------------------------------------------------------------------------
(***************************************************************************)
(* The writes of Finalize.                                                 *)
(***************************************************************************)
LEMMA GSOsFacts ==
  ASSUME IsList(strls)
  PROVE  /\ IsList(GSOs) /\ Len(GSOs) = Len(strls)
         /\ \A j \in 1 .. Len(strls) :
              GSOs[j] = [kind |-> "GSO", v |-> strls[j].v, o |-> strls[j].o,
                         value |-> strls[j].value]
  BY DEF GSOs, IsList

LEMMA TrailerFacts ==
  ASSUME IsList(strls), NEW n, n = Len(strls), NEW l, l = Len(LabelTables)
  PROVE  /\ n \in Nat /\ l \in Nat /\ IsList(Trailer) /\ Len(Trailer) = n + l + 6
         /\ Trailer[2] = Tag("<strls>")
         /\ \A j \in 1 .. n : Trailer[2 + j] = GSOs[j]
         /\ Trailer[n + 3] = Tag("</strls>")
         /\ Trailer[n + 4] = Tag("<value_labels>")
         /\ \A j \in 1 .. l : Trailer[n + 4 + j] = LabelTables[j]
         /\ Trailer[n + l + 5] = Tag("</value_labels>")
<1> DEFINE a == << Tag("</data>"), Tag("<strls>") >>
           b == << Tag("</strls>"), Tag("<value_labels>") >>
           c == << Tag("</value_labels>"), Tag("</stata_dta>") >>
           ag == a \o GSOs
           agb == ag \o b
           agbl == agb \o LabelTables
<1>1. n \in Nat /\ l \in Nat /\ IsList(LabelTables) /\ IsList(GSOs) /\ Len(GSOs) = n
  BY GSOsFacts, LabelTablesFacts DEF IsList
<1>2. /\ IsList(a) /\ Len(a) = 2 /\ a[2] = Tag("<strls>")
      /\ IsList(b) /\ Len(b) = 2 /\ b[1] = Tag("</strls>") /\ b[2] = Tag("<value_labels>")
      /\ IsList(c) /\ Len(c) = 2 /\ c[1] = Tag("</value_labels>")
  BY DEF IsList
<1>3. Trailer = agbl \o c
  BY DEF Trailer
<1>c. ag = a \o GSOs /\ agb = ag \o b /\ agbl = agb \o LabelTables
  OBVIOUS
<1> HIDE DEF a, b, c, ag, agb, agbl
<1>4. /\ IsList(ag) /\ Len(ag) = 2 + n /\ ag[2] = Tag("<strls>")
      /\ \A j \in 1 .. n : ag[2 + j] = GSOs[j]
  <2>1. /\ IsList(ag) /\ Len(ag) = Len(a) + Len(GSOs)
        /\ \A i \in 1 .. Len(a) : ag[i] = a[i]
        /\ \A i \in 1 .. Len(GSOs) : ag[Len(a) + i] = GSOs[i]
    <3>1. IsList(a) /\ IsList(GSOs)
      BY <1>1, <1>2
    <3> DEFINE u == a \o GSOs
    <3>2. /\ IsList(u) /\ Len(u) = Len(a) + Len(GSOs)
          /\ \A i \in 1 .. Len(a) : u[i] = a[i]
          /\ \A i \in 1 .. Len(GSOs) : u[Len(a) + i] = GSOs[i]
      BY <3>1, ListConcat
    <3>3. ag = u
      BY <1>c
    <3> QED
      BY <3>2, <3>3, Zenon
  <2> QED
    BY <1>1, <1>2, <2>1
<1>5. /\ IsList(agb) /\ Len(agb) = n + 4
      /\ \A i \in 1 .. n + 2 : agb[i] = ag[i]
      /\ agb[n + 3] = Tag("</strls>") /\ agb[n + 4] = Tag("<value_labels>")
  <2>1. /\ IsList(agb) /\ Len(agb) = Len(ag) + Len(b)
        /\ \A i \in 1 .. Len(ag) : agb[i] = ag[i]
        /\ \A i \in 1 .. Len(b) : agb[Len(ag) + i] = b[i]
    <3>1. IsList(ag) /\ IsList(b)
      BY <1>2, <1>4
    <3> DEFINE u == ag \o b
    <3>2. /\ IsList(u) /\ Len(u) = Len(ag) + Len(b)
          /\ \A i \in 1 .. Len(ag) : u[i] = ag[i]
          /\ \A i \in 1 .. Len(b) : u[Len(ag) + i] = b[i]
      BY <3>1, ListConcat
    <3>3. agb = u
      BY <1>c
    <3> QED
      BY <3>2, <3>3, Zenon
  <2>2. agb[Len(ag) + 1] = b[1] /\ agb[Len(ag) + 2] = b[2]
    BY <1>2, <2>1
  <2> QED
    BY <1>1, <1>2, <1>4, <2>1, <2>2
<1>6. /\ IsList(agbl) /\ Len(agbl) = n + l + 4
      /\ \A i \in 1 .. n + 4 : agbl[i] = agb[i]
      /\ \A i \in 1 .. l : agbl[n + 4 + i] = LabelTables[i]
  <2>1. /\ IsList(agbl) /\ Len(agbl) = Len(agb) + Len(LabelTables)
        /\ \A i \in 1 .. Len(agb) : agbl[i] = agb[i]
        /\ \A i \in 1 .. Len(LabelTables) : agbl[Len(agb) + i] = LabelTables[i]
    <3>1. IsList(agb) /\ IsList(LabelTables)
      BY <1>1, <1>5
    <3> DEFINE u == agb \o LabelTables
    <3>2. /\ IsList(u) /\ Len(u) = Len(agb) + Len(LabelTables)
          /\ \A i \in 1 .. Len(agb) : u[i] = agb[i]
          /\ \A i \in 1 .. Len(LabelTables) : u[Len(agb) + i] = LabelTables[i]
      BY <3>1, ListConcat
    <3>3. agbl = u
      BY <1>c
    <3> QED
      BY <3>2, <3>3, Zenon
  <2> QED
    BY <1>1, <1>5, <2>1
<1>7. /\ IsList(Trailer) /\ Len(Trailer) = n + l + 6
      /\ \A i \in 1 .. n + l + 4 : Trailer[i] = agbl[i]
      /\ Trailer[n + l + 5] = Tag("</value_labels>")
  <2>1. /\ IsList(Trailer) /\ Len(Trailer) = Len(agbl) + Len(c)
        /\ \A i \in 1 .. Len(agbl) : Trailer[i] = agbl[i]
        /\ \A i \in 1 .. Len(c) : Trailer[Len(agbl) + i] = c[i]
    <3>1. IsList(agbl) /\ IsList(c)
      BY <1>2, <1>6
    <3> DEFINE u == agbl \o c
    <3>2. /\ IsList(u) /\ Len(u) = Len(agbl) + Len(c)
          /\ \A i \in 1 .. Len(agbl) : u[i] = agbl[i]
          /\ \A i \in 1 .. Len(c) : u[Len(agbl) + i] = c[i]
      BY <3>1, ListConcat
    <3>3. Trailer = u
      BY <1>3
    <3> QED
      BY <3>2, <3>3, Zenon
  <2>2. Trailer[Len(agbl) + 1] = c[1]
    BY <1>2, <2>1
  <2> QED
    BY <1>1, <1>2, <1>6, <2>1, <2>2
<1>8. \A i \in 1 .. n + 2 : Trailer[i] = ag[i]
  BY <1>1, <1>5, <1>6, <1>7
<1>9. Trailer[n + 3] = agb[n + 3] /\ Trailer[n + 4] = agb[n + 4]
  BY <1>1, <1>6, <1>7
<1>10. \A j \in 1 .. l : Trailer[n + 4 + j] = LabelTables[j]
  BY <1>1, <1>6, <1>7
<1>11. Trailer[2] = Tag("<strls>") /\ \A j \in 1 .. n : Trailer[2 + j] = GSOs[j]
  BY <1>1, <1>4, <1>8
<1> QED
  BY <1>1, <1>5, <1>7, <1>9, <1>10, <1>11

LEMMA RewritesFacts ==
  ASSUME NEW at
  PROVE  /\ IsList(HeaderRewrites(at)) /\ Len(HeaderRewrites(at)) = 4
         /\ \A k \in 1 .. 4 : HeaderRewrites(at)[k].slot = k + 1
         /\ HeaderRewrites(at)[1].token = ObsCount(rowsWritten)
         /\ HeaderRewrites(at)[2].token = MapEntry(at.data)
         /\ HeaderRewrites(at)[3].token = MapEntry(at.strls)
         /\ HeaderRewrites(at)[4].token = MapEntry(at.labels)
  BY DEF HeaderRewrites, IsList, ObsSlot, DataSlot, StrLsSlot, LabelsSlot

LEMMA PlanIs ==
  ASSUME IsList(strls), NEW at, NEW plan, plan = Appends(Trailer) \o HeaderRewrites(at)
  PROVE  /\ IsList(plan) /\ Len(Trailer) \in Nat /\ Len(plan) = Len(Trailer) + 4
         /\ \A i \in 1 .. Len(Trailer) : plan[i] = [slot |-> 0, token |-> Trailer[i]]
         /\ \A k \in 1 .. 4 : plan[Len(Trailer) + k] = HeaderRewrites(at)[k]
<1>1. Len(Trailer) \in Nat /\ DOMAIN Trailer = 1 .. Len(Trailer)
  BY TrailerIsList DEF IsList
<1>2. /\ IsList(Appends(Trailer)) /\ Len(Appends(Trailer)) = Len(Trailer)
      /\ \A i \in 1 .. Len(Trailer) :
           Appends(Trailer)[i] = [slot |-> 0, token |-> Trailer[i]]
  BY <1>1 DEF Appends, IsList
<1> DEFINE x == Appends(Trailer)
           y == HeaderRewrites(at)
<1>3. IsList(x) /\ IsList(y) /\ Len(x) = Len(Trailer) /\ Len(y) = 4
  BY <1>2, RewritesFacts
<1> HIDE DEF x, y
<1>4. plan = x \o y
  BY DEF x, y
<1>5. /\ IsList(plan) /\ Len(plan) = Len(x) + Len(y)
      /\ \A i \in 1 .. Len(x) : plan[i] = x[i]
      /\ \A i \in 1 .. Len(y) : plan[Len(x) + i] = y[i]
  <2>1. IsList(x) /\ IsList(y)
    BY <1>3
  <2> DEFINE u == x \o y
  <2>2. /\ IsList(u) /\ Len(u) = Len(x) + Len(y)
        /\ \A i \in 1 .. Len(x) : u[i] = x[i]
        /\ \A i \in 1 .. Len(y) : u[Len(x) + i] = y[i]
    BY <2>1, ListConcat
  <2>3. plan = u
    BY <1>4
  <2> QED
    BY <2>2, <2>3, Zenon
<1>6. \A i \in 1 .. Len(Trailer) : plan[i] = [slot |-> 0, token |-> Trailer[i]]
  BY <1>2, <1>3, <1>5, Zenon DEF x
<1>7. \A k \in 1 .. 4 : plan[Len(Trailer) + k] = HeaderRewrites(at)[k]
  BY <1>3, <1>5, Zenon DEF y
<1> QED
  BY <1>1, <1>3, <1>5, <1>6, <1>7, Zenon

LEMMA PlannedFacts ==
  ASSUME TypeInv
  PROVE  LET T == Len(Trailer) IN
         /\ IsList(Planned) /\ T \in Nat /\ T >= 6 /\ Len(Planned) = T + 4
         /\ \A i \in 1 .. T : Planned[i] = [slot |-> 0, token |-> Trailer[i]]
         /\ \A k \in 1 .. 4 : Planned[T + k] = HeaderRewrites(offset)[k]
<1>1. IsList(strls)
  BY DEF TypeInv
<1>2. Len(Trailer) \in Nat /\ Len(Trailer) >= 6
  <2>1. \A n, l : n = Len(strls) /\ l = Len(LabelTables) =>
               n \in Nat /\ l \in Nat /\ Len(Trailer) = n + l + 6
    BY <1>1, TrailerFacts
  <2> DEFINE n == Len(strls)
             l == Len(LabelTables)
  <2>2. n \in Nat /\ l \in Nat /\ Len(Trailer) = n + l + 6
    BY <2>1, Zenon
  <2> HIDE DEF n, l
  <2> QED
    BY <2>2
<1> QED
  BY <1>1, <1>2, PlanIs DEF Planned

\* Between Finalize and the end only pending and the file change.
LEMMA PlanStays ==
  ASSUME UNCHANGED <<rowsWritten, strls, offset, written>>
  PROVE  /\ Trailer' = Trailer /\ Planned' = Planned /\ CellsEnd' = CellsEnd
         /\ HeaderRewrites(offset)' = HeaderRewrites(offset)
<1>1. Trailer' = Trailer
  BY DEF Trailer, GSOs
<1>2. HeaderRewrites(offset)' = HeaderRewrites(offset)
  BY DEF HeaderRewrites
<1> QED
  BY <1>1, <1>2 DEF Planned, CellsEnd

LEMMA FinalizeStartsTrailer ==
  ASSUME TypeInv, FileInv, RowsInv, Finalize PROVE TrailerInv' /\ Done' = 0
<1>1. /\ phase = "sink" /\ AllEnded /\ NoSinkThrew
      /\ offset' = [offset EXCEPT !.strls = Len(file) + 1,
                                  !.labels = Len(file) + 3 + Len(strls)]
      /\ pending' = Appends(Trailer) \o HeaderRewrites(offset')
      /\ UNCHANGED <<rowsWritten, strls, file, written>> /\ phase' = "finalize"
  BY DEF Finalize, BeginTrailer, AllEnded, NoSinkThrew
<1>2. Len(file) = CellsEnd /\ CellsEnd \in Nat /\ IsList(strls)
  BY <1>1, CellsEndFacts DEF RowsInv, TypeInv
<1>3. Trailer' = Trailer /\ CellsEnd' = CellsEnd
  BY <1>1 DEF Trailer, GSOs, CellsEnd
<1>4. HeaderRewrites(offset)' = HeaderRewrites(offset')
  BY <1>1 DEF HeaderRewrites
<1>5. Planned' = pending'
  BY <1>1, <1>3, <1>4 DEF Planned
<1>6. Len(pending') \in Nat /\ Len(Trailer) \in Nat
  BY <1>1, <1>2, PlanIs DEF IsList
<1>7. Done' = 0
  BY <1>5, <1>6 DEF Done
<1>8. offset'.strls = CellsEnd' + 1 /\ offset'.labels = CellsEnd' + 3 + Len(strls')
  BY <1>1, <1>2, <1>3 DEF TypeInv, TypeOK, NoOffset
<1>9. \A i \in 1 .. Len(pending') : pending'[i] = Planned'[Done' + i]
  <2>1. \A i \in 1 .. Len(pending') : 0 + i = i
    OBVIOUS
  <2> QED
    BY <1>5, <1>7, <2>1, Zenon
<1>10. Len(file') = CellsEnd' + (IF Done' <= Len(Trailer') THEN Done' ELSE Len(Trailer'))
  BY <1>1, <1>2, <1>3, <1>6, <1>7
<1>11. \A i \in 1 .. Len(file') - CellsEnd' : file'[CellsEnd' + i] = Trailer'[i]
  BY <1>1, <1>2, <1>3
<1>12. \A s \in 1 .. Len(Metadata) : file'[s] = HeaderToken(s)'
  <2> SUFFICES ASSUME NEW s \in 1 .. 7 PROVE file'[s] = HeaderToken(s)'
    BY MetadataFacts
  <2>1. file[s] = Metadata[s]
    <3>1. HeaderUntouched /\ Len(file) >= 7
      BY <1>1, MetadataFacts DEF HeaderUntouched, FileInv, HeaderInv
    <3>2. s <= Len(file)
      BY <1>2, <3>1
    <3> QED
      BY <3>1, <3>2, MetadataFacts DEF FileInv, HeaderInv
  <2>2. ~ (s \in ObsSlot .. LabelsSlot /\ Len(Trailer') + s - 1 <= Done')
    BY <1>3, <1>6, <1>7 DEF ObsSlot
  <2>3. HeaderToken(s)' = Metadata[s]
    BY <2>2, Zenon DEF HeaderToken
  <2> QED
    BY <1>1, <2>1, <2>3
<1>13. Len(pending') <= Len(Planned') /\ ~(phase' # "finalize")
  BY <1>1, <1>5, <1>6
<1> QED
  BY <1>7, <1>8, <1>9, <1>10, <1>11, <1>12, <1>13, Zenon DEF TrailerInv

\* The write that comes next, as TrailerInv has it.
LEMMA NextWrite ==
  ASSUME TypeInv, FileInv, TrailerInv, phase = "finalize"
  PROVE  /\ Done \in Nat /\ Done < Len(Trailer) + 4 /\ IsList(pending) /\ Len(pending) > 0
         /\ Done < Len(Trailer) => pending[1] = [slot |-> 0, token |-> Trailer[Done + 1]]
         /\ Done >= Len(Trailer) =>
              /\ Done + 1 - Len(Trailer) \in 1 .. 4
              /\ pending[1] = HeaderRewrites(offset)[Done + 1 - Len(Trailer)]
<1> DEFINE T == Len(Trailer)
<1>1. /\ T \in Nat /\ Len(Planned) = T + 4
      /\ \A i \in 1 .. T : Planned[i] = [slot |-> 0, token |-> Trailer[i]]
      /\ \A k \in 1 .. 4 : Planned[T + k] = HeaderRewrites(offset)[k]
  BY PlannedFacts
<1>2. IsList(pending) /\ Len(pending) > 0 /\ Len(pending) \in Nat
  BY DEF FileInv, PendingInv, IsList
<1>3. Len(pending) <= Len(Planned) /\ pending[1] = Planned[Done + 1]
  BY <1>2 DEF TrailerInv
<1>4. Done \in Nat /\ Done < T + 4
  BY <1>1, <1>2, <1>3 DEF Done
<1> HIDE DEF T
<1>5. CASE Done < T
  <2>1. Done + 1 \in 1 .. T
    BY <1>1, <1>4, <1>5
  <2>2. pending[1] = [slot |-> 0, token |-> Trailer[Done + 1]]
    BY <1>1, <1>3, <2>1
  <2> QED
    BY <1>2, <1>4, <1>5, <2>2 DEF T
<1>6. CASE Done >= T
  <2>1. Done + 1 - T \in 1 .. 4 /\ T + (Done + 1 - T) = Done + 1
    BY <1>1, <1>4, <1>6
  <2>2. pending[1] = HeaderRewrites(offset)[Done + 1 - T]
    BY <1>1, <1>3, <2>1
  <2>3. ~ Done < T
    BY <1>1, <1>4, <1>6
  <2> QED
    BY <1>2, <1>4, <1>6, <2>1, <2>2, <2>3 DEF T
<1> QED
  BY <1>1, <1>4, <1>5, <1>6

LEMMA FinalizeWriteKeepsTrailer ==
  ASSUME TypeInv, FileInv, TrailerInv, FinalizeWrite
  PROVE  TrailerInv' /\ Done' = Done + 1
<1> DEFINE T == Len(Trailer)
           C == CellsEnd
           D == Done
<1>1. /\ phase = "finalize" /\ Write(pending[1]) /\ pending' = Tail(pending)
      /\ phase' = IF pending' = <<>> THEN "sync" ELSE phase
      /\ UNCHANGED <<rowsWritten, strls, offset, written>>
  BY ListTail DEF FinalizeWrite, FileInv, PendingInv
<1>2. /\ T \in Nat /\ IsList(Planned) /\ Len(Planned) = T + 4
      /\ C \in Nat /\ C >= 7 /\ IsList(file)
  BY PlannedFacts, CellsEndFacts DEF TypeInv
<1>3. /\ D \in Nat /\ D < T + 4 /\ IsList(pending) /\ Len(pending) > 0
      /\ D < T => pending[1] = [slot |-> 0, token |-> Trailer[D + 1]]
      /\ D >= T => /\ D + 1 - T \in 1 .. 4
                   /\ pending[1] = HeaderRewrites(offset)[D + 1 - T]
  BY <1>1, NextWrite
<1>4. /\ Trailer' = Trailer /\ Planned' = Planned /\ CellsEnd' = C
      /\ HeaderRewrites(offset)' = HeaderRewrites(offset)
  BY <1>1, PlanStays
<1>5. /\ IsList(pending') /\ Len(pending') = Len(pending) - 1 /\ Len(pending) \in Nat
      /\ \A i \in 1 .. Len(pending) - 1 : pending'[i] = pending[i + 1]
  BY <1>1, <1>3, ListTail DEF IsList
<1>6. Done' = D + 1 /\ D = Len(Planned) - Len(pending)
  BY <1>2, <1>4, <1>5 DEF Done
<1>7. /\ offset'.strls = CellsEnd' + 1 /\ offset'.labels = CellsEnd' + 3 + Len(strls')
  BY <1>1, <1>4 DEF TrailerInv
<1>8. Len(pending') <= Len(Planned') /\ (phase' # "finalize" => Len(pending') = 0)
  <2>1. pending' = <<>> <=> Len(pending') = 0
    BY <1>5, ListEmpty
  <2>2. Len(pending) <= Len(Planned)
    BY <1>1 DEF TrailerInv
  <2>3. Len(pending') <= Len(Planned')
    BY <1>2, <1>4, <1>5, <2>2
  <2> QED
    BY <1>1, <2>1, <2>3
<1>9. ASSUME NEW i \in 1 .. Len(pending') PROVE pending'[i] = Planned'[Done' + i]
  <2>1. i + 1 \in 1 .. Len(pending) /\ i \in 1 .. Len(pending) - 1 /\ D + (i + 1) = Done' + i
    BY <1>3, <1>5, <1>6
  <2>2. pending[i + 1] = Planned[D + (i + 1)]
    BY <1>1, <2>1 DEF TrailerInv
  <2> QED
    BY <1>4, <1>5, <2>1, <2>2
<1>10. /\ Len(file) = C + (IF D <= T THEN D ELSE T)
       /\ \A i \in 1 .. Len(file) - C : file[C + i] = Trailer[i]
       /\ \A s \in 1 .. 7 : file[s] = HeaderToken(s)
  BY <1>1, MetadataFacts DEF TrailerInv
<1> DEFINE Rewritten(s, d) == s \in 2 .. 5 /\ T + s - 1 <= d
<1>11. \A s : /\ HeaderToken(s) = IF Rewritten(s, D) THEN HeaderRewrites(offset)[s - 1].token
                                  ELSE Metadata[s]
              /\ HeaderToken(s)' = IF Rewritten(s, D + 1)
                                   THEN HeaderRewrites(offset)[s - 1].token ELSE Metadata[s]
  BY <1>4, <1>6 DEF HeaderToken, ObsSlot, LabelsSlot
<1> HIDE DEF T, C, D
<1>12. /\ Len(file') = C + (IF D + 1 <= T THEN D + 1 ELSE T)
       /\ \A i \in 1 .. Len(file') - C : file'[C + i] = Trailer[i]
       /\ \A s \in 1 .. 7 : file'[s] = HeaderToken(s)'
  <2>1. CASE D < T
    <3>1. pending[1].slot = 0 /\ pending[1].token = Trailer[D + 1]
      <4>1. pending[1] = [slot |-> 0, token |-> Trailer[D + 1]]
        BY <1>3, <2>1
      <4> QED
        BY <4>1
    <3>2. file' = Append(file, Trailer[D + 1])
      BY <1>1, <3>1 DEF Write
    <3>3. Len(file) = C + D
      BY <1>2, <1>3, <1>10, <2>1
    <3>4. /\ Len(file') = C + D + 1 /\ file'[C + D + 1] = Trailer[D + 1]
          /\ \A i \in 1 .. C + D : file'[i] = file[i]
      <4>1. /\ Len(file') = Len(file) + 1 /\ file'[Len(file) + 1] = Trailer[D + 1]
            /\ \A i \in 1 .. Len(file) : file'[i] = file[i]
        BY <1>2, <3>2, ListAppend
      <4> QED
        BY <3>3, <4>1
    <3>5. ASSUME NEW i \in 1 .. Len(file') - C PROVE file'[C + i] = Trailer[i]
      <4>1. i \in 1 .. D \/ i = D + 1
        BY <1>2, <1>3, <3>4
      <4>2. CASE i = D + 1
        <5>1. C + i = C + D + 1
          BY <1>2, <1>3, <4>2
        <5> QED
          BY <3>4, <4>2, <5>1
      <4>3. CASE i \in 1 .. D
        <5>1. C + i \in 1 .. C + D /\ i \in 1 .. Len(file) - C
          BY <1>2, <1>3, <3>3, <4>3
        <5> QED
          BY <1>10, <3>4, <5>1
      <4> QED
        BY <4>1, <4>2, <4>3
    <3>6. ASSUME NEW s \in 1 .. 7 PROVE file'[s] = HeaderToken(s)'
      <4>1. s \in 1 .. C + D /\ ~Rewritten(s, D) /\ ~Rewritten(s, D + 1)
        BY <1>2, <1>3, <2>1
      <4>2. HeaderToken(s)' = HeaderToken(s)
        BY <1>11, <4>1, Zenon
      <4> QED
        BY <1>10, <3>4, <4>1, <4>2
    <3>7. Len(file') = C + (IF D + 1 <= T THEN D + 1 ELSE T)
      BY <1>2, <1>3, <2>1, <3>4
    <3> QED
      BY <3>5, <3>6, <3>7
  <2>2. CASE D >= T
    <3> DEFINE k == D + 1 - T
    <3>1. k \in 1 .. 4 /\ pending[1] = HeaderRewrites(offset)[k]
      BY <1>3, <2>2
    <3>2. pending[1].slot = k + 1
      BY <3>1, RewritesFacts
    <3>3. k = D + 1 - T
      OBVIOUS
    <3> HIDE DEF k
    <3>4. k + 1 # 0 /\ k + 1 \in 2 .. 5
      BY <3>1
    <3>5. file' = [file EXCEPT ![k + 1] = pending[1].token]
      BY <1>1, <3>2, <3>4, Zenon DEF Write
    <3>6. Len(file) = C + T /\ Len(file') = C + T
          /\ \A i \in 1 .. Len(file) :
               file'[i] = IF i = k + 1 THEN HeaderRewrites(offset)[k].token ELSE file[i]
      <4>1. Len(file) = C + T
        BY <1>2, <1>3, <1>10, <2>2
      <4>2. k + 1 \in 1 .. Len(file)
        BY <1>2, <3>4, <4>1
      <4> QED
        BY <1>2, <3>1, <3>5, <4>1, <4>2, ListUpdate
    <3>7. ASSUME NEW i \in 1 .. Len(file') - C PROVE file'[C + i] = Trailer[i]
      <4>1. C + i \in 1 .. Len(file) /\ C + i # k + 1 /\ i \in 1 .. Len(file) - C
        BY <1>2, <3>4, <3>6
      <4> QED
        BY <1>10, <3>6, <4>1
    <3>8. ASSUME NEW s \in 1 .. 7 PROVE file'[s] = HeaderToken(s)'
      <4>1. s \in 1 .. Len(file)
        BY <1>2, <3>6
      <4>2. CASE s = k + 1
        <5>1. Rewritten(s, D + 1) /\ s - 1 = k
          BY <1>2, <1>3, <3>1, <3>3, <3>4, <4>2
        <5>2. HeaderToken(s)' = HeaderRewrites(offset)[k].token
          BY <1>11, <5>1, Zenon
        <5> QED
          BY <3>6, <4>1, <4>2, <5>2
      <4>3. CASE s # k + 1
        <5>1. Rewritten(s, D + 1) <=> Rewritten(s, D)
          <6>1. T + s - 1 # D + 1
            BY <1>2, <1>3, <3>3, <4>3
          <6>2. T + s - 1 \in Int /\ D \in Int
            BY <1>2, <1>3
          <6>3. T + s - 1 <= D + 1 <=> T + s - 1 <= D
            BY <6>1, <6>2
          <6> QED
            BY <6>3
        <5>2. HeaderToken(s)' = HeaderToken(s)
          BY <1>11, <5>1, Zenon
        <5> QED
          BY <1>10, <3>6, <4>1, <4>3, <5>2
      <4> QED
        BY <4>2, <4>3
    <3>9. Len(file') = C + (IF D + 1 <= T THEN D + 1 ELSE T)
      BY <1>2, <1>3, <2>2, <3>6
    <3> QED
      BY <3>7, <3>8, <3>9
  <2> QED
    BY <1>2, <1>3, <2>1, <2>2
<1>13. /\ Len(file') = CellsEnd' + (IF Done' <= Len(Trailer') THEN Done' ELSE Len(Trailer'))
       /\ \A i \in 1 .. Len(file') - CellsEnd' : file'[CellsEnd' + i] = Trailer'[i]
       /\ \A s \in 1 .. Len(Metadata) : file'[s] = HeaderToken(s)'
  BY <1>4, <1>6, <1>12, MetadataFacts DEF T
<1> QED
  BY <1>6, <1>7, <1>8, <1>9, <1>13, Zenon DEF TrailerInv, D

(***************************************************************************)
(* RowsInv and TrailerInv are invariants.                                  *)
(***************************************************************************)
LEMMA WriterKeepsRows ==
  ASSUME TypeInv, FileInv, RowsInv, TrailerInv, WriterStep PROVE RowsInv'
<1>1. CASE WriteMetadata
  BY <1>1, MetadataKeepsRows
<1>2. CASE FinalizeWrite
  <2>1. /\ phase = "finalize" /\ phase' \in {"finalize", "sync"}
        /\ UNCHANGED <<pc, offset, written, strls>>
    BY <1>2 DEF FinalizeWrite
  <2>2. pending[1].slot \in {0} \cup ObsSlot .. LabelsSlot
    <3>1. pending[1].slot \in {0} \cup 2 .. 5
      <4>1. Done \in Nat /\ Len(Trailer) \in Nat
        BY <2>1, NextWrite, PlannedFacts
      <4>2. CASE Done < Len(Trailer)
        <5>1. pending[1] = [slot |-> 0, token |-> Trailer[Done + 1]]
          BY <2>1, <4>2, NextWrite
        <5> QED
          BY <5>1
      <4>3. CASE Done >= Len(Trailer)
        <5>1. PICK k \in 1 .. 4 : pending[1] = HeaderRewrites(offset)[k]
          BY <2>1, <4>3, NextWrite
        <5>2. pending[1].slot = k + 1
          BY <5>1, RewritesFacts
        <5> QED
          BY <5>2
      <4> QED
        BY <4>1, <4>2, <4>3
    <3> QED
      BY <3>1 DEF ObsSlot, LabelsSlot
  <2>3. NoSinkThrew /\ NoSinkThrew'
    BY <2>1 DEF FileInv, ThreadsInv, AllEnded, NoSinkThrew
  <2>4. HoldsRows(file', written, strls)
    BY <1>2, <2>2, <2>3, FinalizeWriteKeepsRows
  <2> QED
    BY <2>1, <2>4 DEF RowsInv
<1>3. CASE Finalize \/ SyncAndClose \/ Drop \/ AppendFails
  <2>1. /\ UNCHANGED <<pc, file, written, strls>>
        /\ phase' \in {"finalize", "closed", "dropped"}
        /\ phase' # "dropped" => phase \in {"sink", "sync"}
    BY <1>3 DEF Finalize, BeginTrailer, SyncAndClose, Drop, AppendFails
  <2>2. offset'.data = offset.data
    BY <1>3 DEF Finalize, BeginTrailer, SyncAndClose, Drop, AppendFails, TypeInv, TypeOK, NoOffset
  <2> QED
    BY <2>1, <2>2 DEF RowsInv, NoSinkThrew
<1> QED
  BY <1>1, <1>2, <1>3 DEF WriterStep

LEMMA StepKeepsTrailer ==
  ASSUME TypeInv, FileInv, RowsInv, TrailerInv, Next PROVE TrailerInv'
<1>1. CASE Finalize
  BY <1>1, FinalizeStartsTrailer
<1>2. CASE FinalizeWrite
  BY <1>2, FinalizeWriteKeepsTrailer
<1>3. CASE SyncAndClose \/ Over
  <2>1. /\ UNCHANGED <<rowsWritten, strls, offset, pending, file, written>>
        /\ phase' \in {"finalize", "sync", "closed"} => phase \in {"sync", "closed"}
    BY <1>3 DEF SyncAndClose, Over, vars
  <2>2. /\ Trailer' = Trailer /\ Planned' = Planned /\ CellsEnd' = CellsEnd
        /\ HeaderRewrites(offset)' = HeaderRewrites(offset)
    BY <2>1, PlanStays
  <2>3. Done' = Done
    BY <2>1, <2>2 DEF Done
  <2>4. \A s : HeaderToken(s)' = HeaderToken(s)
    BY <2>2, <2>3, Zenon DEF HeaderToken
  <2> QED
    BY <2>1, <2>2, <2>3, <2>4 DEF TrailerInv
<1>4. CASE WriteMetadata \/ Drop \/ AppendFails \/ \E t \in Threads : SinkStep(t)
  <2>1. phase' \in {"metadata", "sink", "dropped"}
    BY <1>4 DEF WriteMetadata, Drop, AppendFails, SinkStep, SinkCall, SinkBegin, SinkRow,
                SinkEnd, SinkThrows, RowWriteFails, ThreadEnds, FileInv, ThreadsInv
  <2> QED
    BY <2>1 DEF TrailerInv
<1> QED
  BY <1>1, <1>2, <1>3, <1>4 DEF Next, WriterStep

LEMMA ContentsInvariant == Spec => [](RowsInv /\ TrailerInv)
<1>1. Init => RowsInv /\ TrailerInv
  BY DEF Init, RowsInv, TrailerInv
<1>2. TypeInv /\ FileInv /\ RefsInv /\ RowsInv /\ TrailerInv /\ [Next]_vars
        => RowsInv' /\ TrailerInv'
  <2> SUFFICES ASSUME TypeInv, FileInv, RefsInv, RowsInv, TrailerInv, [Next]_vars
               PROVE  RowsInv' /\ TrailerInv'
    OBVIOUS
  <2>1. CASE UNCHANGED vars
    <3>1. RowsInv'
      BY <2>1 DEF vars, RowsInv, CellsEnd, NoSinkThrew
    <3>2. TrailerInv'
      <4>1. /\ Trailer' = Trailer /\ Planned' = Planned /\ CellsEnd' = CellsEnd
            /\ HeaderRewrites(offset)' = HeaderRewrites(offset)
        BY <2>1, PlanStays DEF vars
      <4>2. Done' = Done
        BY <2>1, <4>1 DEF vars, Done
      <4>3. \A s : HeaderToken(s)' = HeaderToken(s)
        BY <4>1, <4>2, Zenon DEF HeaderToken
      <4> QED
        BY <2>1, <4>1, <4>2, <4>3 DEF TrailerInv, vars
    <3> QED
      BY <3>1, <3>2
  <2>2. CASE Next
    <3>1. RowsInv'
      <4>1. CASE Over
        BY <4>1 DEF Over, vars, RowsInv, CellsEnd, NoSinkThrew
      <4> QED
        BY <2>2, <4>1, ThreadKeepsRows, WriterKeepsRows DEF Next
    <3> QED
      BY <2>2, <3>1, StepKeepsTrailer
  <2> QED
    BY <2>1, <2>2
<1> QED
  BY <1>1, <1>2, TypesInvariant, FileInvariant, RefsInvariant, PTL DEF Spec

-----------------------------------------------------------------------------
(***************************************************************************)
(* The table in the file: readable when the header names all a reader      *)
(* needs, and not before.                                                  *)
(***************************************************************************)
LEMMA SmallRemainder ==
  ASSUME NEW a \in Nat, NEW b \in Nat \ {0}, a < b PROVE a % b = a
  BY Z3

\* References that fit are different for different strings, and never <<0, 0>>.
LEMMA StringsFit ==
  ASSUME TypeInv, RefsInv, NoSinkThrew, KeysFit
  PROVE  /\ KeysApart(GSOs)
         /\ \A j \in 1 .. Len(GSOs) : KeyOf(GSOs[j]) # <<0, 0>>
<1>1. /\ IsList(GSOs) /\ Len(GSOs) = Len(strls)
      /\ \A j \in 1 .. Len(strls) : KeyOf(GSOs[j]) = KeyOf(strls[j])
  <2>1. IsList(strls)
    BY DEF TypeInv
  <2>2. ASSUME NEW j \in 1 .. Len(strls) PROVE KeyOf(GSOs[j]) = KeyOf(strls[j])
    <3>1. GSOs[j] = [kind |-> "GSO", v |-> strls[j].v, o |-> strls[j].o,
                     value |-> strls[j].value]
      BY <2>1, GSOsFacts
    <3>2. GSOs[j].v = strls[j].v /\ GSOs[j].o = strls[j].o
      BY <3>1
    <3> QED
      BY <3>2 DEF KeyOf
  <2> QED
    BY <2>1, <2>2, GSOsFacts
<1>2. RefsUpTo(strls, written, Len(written), 0) /\ Len(written) \in Nat /\ Len(written) <= MaxRows
  BY DEF RefsInv, TypeInv, TypeOK
<1>3. ASSUME NEW j \in 1 .. Len(strls)
      PROVE  /\ strls[j].v \in Nat \ {0} /\ strls[j].o \in Nat \ {0}
             /\ KeyOf(strls[j]) = <<strls[j].v, strls[j].o>>
  <2> DEFINE v == strls[j].v
             o == strls[j].o
  <2>1. IsFirst(strls[j], written, Len(written), 0)
    BY <1>2 DEF RefsUpTo
  <2>2. /\ o \in Nat /\ v \in Nat /\ Seen(o, v, Len(written), 0)
        /\ Columns[v] = "str"
    BY <2>1 DEF IsFirst, Occurs
  <2>3. KeyOf(strls[j]) = <<v % VMod, o % OMod>>
    BY DEF KeyOf, StrLKey
  <2> HIDE DEF v, o
  <2>4. v \in 1 .. RowWidth /\ o \in 1 .. Len(written)
    BY <1>2, <2>2 DEF Seen
  <2>5. HasStrLs
    BY <2>2, <2>4, TableFacts DEF HasStrLs
  <2>6. v < VMod /\ o < OMod
    BY <1>2, <2>2, <2>4, <2>5, TableFacts, ReferenceAssumption, BoundsAssumption DEF KeysFit
  <2>7. v % VMod = v /\ o % OMod = o
    BY <2>2, <2>6, ReferenceAssumption, SmallRemainder
  <2>8. KeyOf(strls[j]) = <<v, o>> /\ v # 0 /\ o # 0
    BY <2>3, <2>4, <2>7
  <2> QED
    BY <2>2, <2>8 DEF v, o
<1>4. KeysApart(GSOs)
  <2> SUFFICES ASSUME NEW j \in 1 .. Len(strls), NEW k \in 1 .. Len(strls),
                      KeyOf(strls[j]) = KeyOf(strls[k])
               PROVE  j = k
    BY <1>1 DEF KeysApart
  <2>1. strls[j].v = strls[k].v /\ strls[j].o = strls[k].o
    BY <1>3
  <2>2. \A a, b \in 1 .. Len(strls) :
          a < b => Precedes(strls[a].o, strls[a].v, strls[b].o, strls[b].v)
    BY <1>2 DEF RefsUpTo, Ordered
  <2>3. ~ j < k /\ ~ k < j
    BY <1>3, <2>1, <2>2 DEF Precedes
  <2> QED
    BY <2>3
<1>5. \A j \in 1 .. Len(GSOs) : KeyOf(GSOs[j]) # <<0, 0>>
  BY <1>1, <1>3
<1> QED
  BY <1>4, <1>5

Late == phase \in {"finalize", "sync", "closed"}

AllInv == TypeInv /\ FileInv /\ RefsInv /\ RowsInv /\ TrailerInv

LEMMA LateFacts ==
  ASSUME AllInv, Late
  PROVE  NoSinkThrew /\ rowsWritten = Len(written)
<1>1. AllEnded
  BY DEF AllInv, Late, FileInv, ThreadsInv
<1>2. NoSinkThrew
  BY <1>1 DEF AllEnded, NoSinkThrew
<1>3. lock = NoThread
  BY <1>1 DEF AllEnded, AllInv, TypeInv, TypeOK
<1>4. rowsWritten + 0 = Len(written) /\ rowsWritten \in Nat
  BY <1>2, <1>3, BoundsAssumption DEF AllInv, TypeInv, TypeOK, CountInv
<1> QED
  BY <1>2, <1>4

\* The header at any time: as WriteMetadata wrote it, up to the rewrites done.
LEMMA HeaderIs ==
  ASSUME AllInv, NEW s \in 1 .. 7, s <= Len(file)
  PROVE  /\ Late => file[s] = HeaderToken(s)
         /\ ~Late => file[s] = Metadata[s]
<1>1. CASE Late
  BY <1>1, MetadataFacts DEF Late, AllInv, TrailerInv
<1>2. CASE ~Late
  <2>1. HeaderUntouched
    BY <1>2 DEF Late, HeaderUntouched, AllInv, TypeInv, TypeOK
  <2> QED
    BY <1>2, <2>1, MetadataFacts DEF AllInv, FileInv, HeaderInv
<1> QED
  BY <1>1, <1>2

\* A map entry that is not set points to the start of the file, which is no
\* section.
LEMMA UnsetMap ==
  ASSUME NEW f, Len(f) >= 1 => f[1] = Metadata[1], NEW item, NEW close, NEW open,
         open # "<stata_dta>", open # "eof"
  PROVE  ~SectionLoads(f, 0, open, item, close)
<1>1. TokenAt(f, 0).kind \in {"<stata_dta>", "eof"}
  BY DEF TokenAt, Metadata, Tag
<1> QED
  BY <1>1, Zenon DEF SectionLoads

LEMMA NotReadable ==
  ASSUME AllInv, NEW labels \in BOOLEAN,
         \/ HasStrLs /\ (Late => Done < Len(Trailer) + 3)
         \/ labels /\ (Late => Done < Len(Trailer) + 4)
  PROVE  ReadBack(file, labels) = [ok |-> FALSE, rows |-> <<>>]
<1>1. ASSUME BindSucceeds(file, labels) PROVE FALSE
  <2>1. Len(file) >= 6 /\ Len(file) \in Nat
    BY <1>1, MetadataFacts DEF BindSucceeds, ReaderOpens, AllInv, TypeInv, IsList
  <2>2. \A s \in 1 .. 5 : /\ Late => file[s] = HeaderToken(s)
                          /\ ~Late => file[s] = Metadata[s]
    <3> SUFFICES ASSUME NEW s \in 1 .. 5
                 PROVE  /\ Late => file[s] = HeaderToken(s)
                        /\ ~Late => file[s] = Metadata[s]
      OBVIOUS
    <3>1. s \in 1 .. 7 /\ s <= Len(file)
      BY <2>1
    <3> QED
      BY <3>1, HeaderIs
  <2>3. file[1] = Metadata[1]
    BY <2>2 DEF HeaderToken, ObsSlot
  <2>4. Late => Done \in Int /\ Len(Trailer) \in Nat
    BY PlannedFacts DEF AllInv, FileInv, PendingInv, IsList, Done
  <2>5. CASE HasStrLs /\ (Late => Done < Len(Trailer) + 3)
    <3>1. Late => ~ (Len(Trailer) + 4 - 1 <= Done)
      BY <2>4, <2>5
    <3>2. Late => HeaderToken(4) = Metadata[4]
      BY <3>1, Zenon DEF HeaderToken
    <3>3. file[4] = Metadata[4]
      <4>1. 4 \in 1 .. 5
        OBVIOUS
      <4> QED
        BY <2>2, <3>2, <4>1, Zenon
    <3>4. file[StrLsSlot].pos = 0
      BY <3>3 DEF StrLsSlot, Metadata, MapEntry
    <3>5. ~SectionLoads(file, 0, "<strls>", "GSO", "</strls>")
      BY <2>3, UnsetMap
    <3> QED
      BY <1>1, <2>5, <3>4, <3>5, Zenon DEF BindSucceeds
  <2>6. CASE labels /\ (Late => Done < Len(Trailer) + 4)
    <3>1. Late => ~ (Len(Trailer) + 5 - 1 <= Done)
      BY <2>4, <2>6
    <3>2. Late => HeaderToken(5) = Metadata[5]
      BY <3>1, Zenon DEF HeaderToken
    <3>3. file[5] = Metadata[5]
      <4>1. 5 \in 1 .. 5
        OBVIOUS
      <4> QED
        BY <2>2, <3>2, <4>1, Zenon
    <3>4. file[LabelsSlot].pos = 0
      BY <3>3 DEF LabelsSlot, Metadata, MapEntry
    <3>5. ~SectionLoads(file, 0, "<value_labels>", "lbl", "</value_labels>")
      BY <2>3, UnsetMap
    <3> QED
      BY <1>1, <2>6, <3>4, <3>5, Zenon DEF BindSucceeds
  <2> QED
    BY <2>5, <2>6
<1>2. BindSucceeds(file, labels) = FALSE
  BY <1>1, Zenon DEF BindSucceeds
<1> QED
  BY <1>2, Zenon DEF ReadBack

\* The sections after the rows, once all of them are written.
LEMMA SectionsWritten ==
  ASSUME AllInv, Late, Done >= Len(Trailer)
  PROVE  /\ CellsEnd + 1 \in Nat /\ CellsEnd + 3 + Len(strls) \in Nat
         /\ HoldsSection(file, CellsEnd + 1, "<strls>", GSOs, "GSO", "</strls>")
         /\ HoldsSection(file, CellsEnd + 3 + Len(strls), "<value_labels>", LabelTables,
                         "lbl", "</value_labels>")
<1> DEFINE n == Len(strls)
           l == Len(LabelTables)
           T == Len(Trailer)
           C == CellsEnd
<1>1. IsList(strls) /\ n = Len(strls) /\ l = Len(LabelTables)
  BY DEF AllInv, TypeInv
<1>2. C \in Nat /\ IsList(GSOs) /\ Len(GSOs) = n
  BY <1>1, CellsEndFacts, GSOsFacts DEF AllInv
<1>3. ASSUME NEW j \in 1 .. n PROVE GSOs[j].kind = "GSO"
  <2>1. GSOs[j] = [kind |-> "GSO", v |-> strls[j].v, o |-> strls[j].o,
                   value |-> strls[j].value]
    BY <1>1, GSOsFacts
  <2> QED
    BY <2>1
<1>4. \A j \in 1 .. l : LabelTables[j].kind = "lbl"
  BY LabelTablesFacts
<1>5. Done \in Int /\ T \in Nat /\ Done >= T
  BY PlannedFacts DEF AllInv, FileInv, PendingInv, IsList, Done
<1>6. /\ Len(file) = C + T
      /\ \A i \in 1 .. Len(file) - C : file[C + i] = Trailer[i]
  <2>1. /\ Len(file) = C + (IF Done <= T THEN Done ELSE T)
        /\ \A i \in 1 .. Len(file) - C : file[C + i] = Trailer[i]
    BY DEF AllInv, TrailerInv, Late
  <2>2. (IF Done <= T THEN Done ELSE T) = T
    BY <1>5
  <2> QED
    BY <2>1, <2>2
<1> HIDE DEF n, l
<1>7. /\ n \in Nat /\ l \in Nat /\ Len(Trailer) = n + l + 6
      /\ Trailer[2] = Tag("<strls>")
      /\ \A j \in 1 .. n : Trailer[2 + j] = GSOs[j]
      /\ Trailer[n + 3] = Tag("</strls>")
      /\ Trailer[n + 4] = Tag("<value_labels>")
      /\ \A j \in 1 .. l : Trailer[n + 4 + j] = LabelTables[j]
      /\ Trailer[n + l + 5] = Tag("</value_labels>")
  BY <1>1, TrailerFacts
<1> HIDE DEF T, C
<1>8. T = n + l + 6 /\ Len(file) = C + T /\ Len(file) - C = n + l + 6
  BY <1>2, <1>5, <1>6, <1>7 DEF T
<1>9. \A i \in 1 .. n + l + 6 : file[C + i] = Trailer[i]
  BY <1>6, <1>8
<1>10. HoldsSection(file, C + 1, "<strls>", GSOs, "GSO", "</strls>")
  <2>1. Len(file) >= C + 1 + n + 2
    BY <1>2, <1>7, <1>8
  <2>2. file[C + 1 + 1] = Tag("<strls>")
    <3>1. C + 1 + 1 = C + 2 /\ 2 \in 1 .. n + l + 6
      BY <1>2, <1>7
    <3> QED
      BY <1>7, <1>9, <3>1
  <2>3. ASSUME NEW j \in 1 .. n
        PROVE  file[C + 1 + 1 + j] = GSOs[j] /\ GSOs[j].kind = "GSO"
    <3>1. C + 1 + 1 + j = C + (2 + j) /\ 2 + j \in 1 .. n + l + 6
      BY <1>2, <1>7
    <3> QED
      BY <1>3, <1>7, <1>9, <3>1
  <2>4. file[C + 1 + n + 2] = Tag("</strls>")
    <3>1. C + 1 + n + 2 = C + (n + 3) /\ n + 3 \in 1 .. n + l + 6
      BY <1>2, <1>7
    <3> QED
      BY <1>7, <1>9, <3>1
  <2> QED
    BY <1>2, <2>1, <2>2, <2>3, <2>4, Zenon DEF HoldsSection
<1> DEFINE pos == C + 3 + n
<1>11. HoldsSection(file, pos, "<value_labels>", LabelTables, "lbl", "</value_labels>")
  <2>1. Len(file) >= pos + l + 2
    BY <1>2, <1>7, <1>8
  <2>2. file[pos + 1] = Tag("<value_labels>")
    <3>1. pos + 1 = C + (n + 4) /\ n + 4 \in 1 .. n + l + 6
      BY <1>2, <1>7
    <3> QED
      BY <1>7, <1>9, <3>1
  <2>3. ASSUME NEW j \in 1 .. l
        PROVE  file[pos + 1 + j] = LabelTables[j] /\ LabelTables[j].kind = "lbl"
    <3>1. pos + 1 + j = C + (n + 4 + j) /\ n + 4 + j \in 1 .. n + l + 6
      BY <1>2, <1>7
    <3> QED
      BY <1>4, <1>7, <1>9, <3>1
  <2>4. file[pos + l + 2] = Tag("</value_labels>")
    <3>1. pos + l + 2 = C + (n + l + 5) /\ n + l + 5 \in 1 .. n + l + 6
      BY <1>2, <1>7
    <3> QED
      BY <1>7, <1>9, <3>1
  <2> HIDE DEF pos
  <2> QED
    BY <1>1, <2>1, <2>2, <2>3, <2>4, Zenon DEF HoldsSection, l
<1>12. C + 1 \in Nat /\ pos \in Nat
  BY <1>2, <1>7
<1> QED
  BY <1>10, <1>11, <1>12 DEF C, n

LEMMA TableAppears ==
  ASSUME AllInv, KeysFit, Late, NEW labels \in BOOLEAN, Done >= Len(Trailer) + 2,
         HasStrLs => Done >= Len(Trailer) + 3, labels => Done >= Len(Trailer) + 4
  PROVE  ReadBack(file, labels) = [ok |-> TRUE, rows |-> Shown(written, labels)]
<1>1. /\ IsList(file) /\ IsList(written) /\ IsList(strls)
      /\ IsList(GSOs) /\ Len(GSOs) = Len(strls)
  BY CellsEndFacts, GSOsFacts DEF AllInv, TypeInv
<1>2. NoSinkThrew /\ rowsWritten = Len(written)
  BY LateFacts
<1>3. /\ Done \in Int /\ Len(Trailer) \in Nat
  BY PlannedFacts DEF AllInv, FileInv, PendingInv, IsList, Done
<1>4. \A s \in 1 .. 7 : file[s] = HeaderToken(s)
  BY MetadataFacts DEF AllInv, TrailerInv, Late
<1>5. \A s \in 2 .. 5 : Len(Trailer) + s - 1 <= Done =>
        file[s] = HeaderRewrites(offset)[s - 1].token
  BY <1>4 DEF HeaderToken, ObsSlot, LabelsSlot
<1>6. file[2] = ObsCount(Len(written))
  <2>1. Len(Trailer) + 2 - 1 <= Done /\ 2 - 1 = 1
    BY <1>3
  <2>2. file[2] = HeaderRewrites(offset)[1].token
    BY <1>5, <2>1
  <2>3. HeaderRewrites(offset)[1].token = ObsCount(rowsWritten)
    BY RewritesFacts
  <2> QED
    BY <1>2, <2>2, <2>3
<1>7. file[3] = MapEntry(6)
  <2>1. Len(Trailer) + 3 - 1 <= Done /\ 3 - 1 = 2
    BY <1>3
  <2>2. offset.data = 6
    BY MetadataFacts DEF AllInv, RowsInv, Late
  <2>3. file[3] = HeaderRewrites(offset)[2].token
    BY <1>5, <2>1
  <2>4. HeaderRewrites(offset)[2].token = MapEntry(offset.data)
    BY RewritesFacts
  <2> QED
    BY <2>2, <2>3, <2>4
<1>8. HasStrLs => file[4] = MapEntry(CellsEnd + 1)
  <2>1. HasStrLs => Len(Trailer) + 4 - 1 <= Done /\ 4 - 1 = 3
    BY <1>3
  <2>2. offset.strls = CellsEnd + 1
    BY DEF AllInv, TrailerInv, Late
  <2> QED
    BY <1>5, <2>1, <2>2, RewritesFacts
<1>9. labels => file[5] = MapEntry(CellsEnd + 3 + Len(strls))
  <2>1. labels => Len(Trailer) + 5 - 1 <= Done /\ 5 - 1 = 4
    BY <1>3
  <2>2. offset.labels = CellsEnd + 3 + Len(strls)
    BY DEF AllInv, TrailerInv, Late
  <2> QED
    BY <1>5, <2>1, <2>2, RewritesFacts
<1>10. HoldsRows(file, written, GSOs)
  <2>1. HoldsRows(file, written, strls)
    BY <1>2 DEF AllInv, RowsInv, Late
  <2>2. ASSUME NEW j \in 1 .. Len(strls)
        PROVE  GSOs[j].value = strls[j].value /\ KeyOf(GSOs[j]) = KeyOf(strls[j])
    <3>1. GSOs[j] = [kind |-> "GSO", v |-> strls[j].v, o |-> strls[j].o,
                     value |-> strls[j].value]
      BY <1>1, GSOsFacts
    <3>2. /\ GSOs[j].v = strls[j].v /\ GSOs[j].o = strls[j].o
          /\ GSOs[j].value = strls[j].value
      BY <3>1
    <3> QED
      BY <3>2 DEF KeyOf
  <2>3. Len(file) >= 7 + Len(written) * RowWidth /\ Len(strls) <= Len(GSOs)
    BY <1>1, <2>1, MetadataFacts DEF HoldsRows, IsList
  <2> QED
    BY <1>1, <2>1, <2>2, <2>3, RowsStay
<1>11. Done >= Len(Trailer)
  BY <1>3
<1>12. HoldsTable(file, written, GSOs, labels)
  <2>1. file[ObsSlot] = ObsCount(Len(written)) /\ file[DataSlot] = MapEntry(Len(Metadata) - 1)
    BY <1>6, <1>7, MetadataFacts DEF ObsSlot, DataSlot
  <2>2. HasStrLs => \E pos \in Nat :
          /\ file[StrLsSlot] = MapEntry(pos)
          /\ HoldsSection(file, pos, "<strls>", GSOs, "GSO", "</strls>")
    BY <1>8, <1>11, SectionsWritten, Zenon DEF StrLsSlot
  <2>3. labels => \E pos \in Nat :
          /\ file[LabelsSlot] = MapEntry(pos)
          /\ HoldsSection(file, pos, "<value_labels>", LabelTables, "lbl", "</value_labels>")
    BY <1>9, <1>11, SectionsWritten, Zenon DEF LabelsSlot
  <2> QED
    BY <1>10, <2>1, <2>2, <2>3, Zenon DEF HoldsTable
<1>13. KeysApart(GSOs) /\ \A j \in 1 .. Len(GSOs) : KeyOf(GSOs[j]) # <<0, 0>>
  BY <1>2, StringsFit DEF AllInv
<1>14. \A i \in 1 .. Len(written), c \in EnumColumns : IsEnumValue(written[i][c])
  <2>1. \A i \in 1 .. Len(written) : written[i] \in InputRows
    BY DEF AllInv, TypeInv, TypeOK
  <2> QED
    BY <2>1, EnumAssumption, Zenon DEF IsEnumValue
<1> QED
  BY <1>1, <1>12, <1>13, <1>14, ReadBackIs, Zenon

-----------------------------------------------------------------------------
LEMMA AllInvariant == Spec => []AllInv
  BY TypesInvariant, FileInvariant, RefsInvariant, ContentsInvariant, PTL DEF AllInv

(***************************************************************************)
(* A file that was finalised and closed reads back as the rows that were   *)
(* written, with value labels and without, whatever the interleaving of    *)
(* the threads: for every table, provided that the references of its       *)
(* strings fit into 24 and 40 bits.  Without that it is false: the run     *)
(* copy_wide shows a table with as many columns as references have values. *)
(***************************************************************************)
THEOREM CopyFinalizedReadsBack ==
  ASSUME KeysFit PROVE Spec => []FinalizedReadsBack
<1>1. AllInv => FinalizedReadsBack
  <2> SUFFICES ASSUME AllInv, phase = "closed", NEW labels \in BOOLEAN
               PROVE  ReadBack(file, labels) = [ok |-> TRUE, rows |-> Shown(written, labels)]
    BY DEF FinalizedReadsBack
  <2>1. Late /\ Len(pending) = 0
    BY DEF Late, AllInv, TrailerInv
  <2>2. Len(Planned) = Len(Trailer) + 4 /\ Len(Trailer) \in Nat
    BY PlannedFacts DEF AllInv
  <2>3. Done = Len(Trailer) + 4
    BY <2>1, <2>2 DEF Done
  <2>4. Done >= Len(Trailer) + 2 /\ Done >= Len(Trailer) + 3 /\ Done >= Len(Trailer) + 4
    BY <2>2, <2>3
  <2> QED
    BY <2>1, <2>4, TableAppears
<1> QED
  BY <1>1, AllInvariant, PTL

(***************************************************************************)
(* Whatever moment the process dies at, the file it leaves shows no row or *)
(* every row, or is rejected; the one exception is the moment between the  *)
(* writes of N and of the map, and only in a file without strL columns     *)
(* that is read without value labels.                                      *)
(***************************************************************************)
THEOREM CopyCrashShowsNothingOrAll ==
  ASSUME KeysFit PROVE Spec => []CrashShowsNothingOrAll
<1>1. AllInv => CrashShowsNothingOrAll
  <2> SUFFICES ASSUME AllInv, NEW labels \in BOOLEAN, ReadBack(file, labels).ok
               PROVE  \/ ReadBack(file, labels).rows \in {<<>>, Shown(written, labels)}
                      \/ TornHeader /\ ~HasStrLs /\ ~labels
    BY DEF CrashShowsNothingOrAll
  <2> DEFINE T == Len(Trailer)
  <2>1. Done \in Int /\ T \in Nat
    BY PlannedFacts DEF AllInv, FileInv, PendingInv, IsList, Done
  <2>2. ASSUME NumObs(file) = 0 PROVE ReadBack(file, labels).rows = <<>>
    BY <2>2 DEF ReadBack
  <2>3. BindSucceeds(file, labels)
    BY DEF ReadBack
  <2>4. Len(file) >= 6 /\ Len(file) \in Nat
    BY <2>3, MetadataFacts DEF BindSucceeds, ReaderOpens, AllInv, TypeInv, IsList
  <2>5. \A s \in 2 .. 3 : /\ Late => file[s] = HeaderToken(s)
                          /\ ~Late => file[s] = Metadata[s]
    <3> SUFFICES ASSUME NEW s \in 2 .. 3
                 PROVE  /\ Late => file[s] = HeaderToken(s)
                        /\ ~Late => file[s] = Metadata[s]
      OBVIOUS
    <3>1. s \in 1 .. 7 /\ s <= Len(file)
      BY <2>4
    <3> QED
      BY <3>1, HeaderIs
  <2>6. 2 \in 2 .. 3 /\ 3 \in 2 .. 3 /\ 2 \in ObsSlot .. LabelsSlot /\ 3 \in ObsSlot .. LabelsSlot
    BY DEF ObsSlot, LabelsSlot
  <2>7. Metadata[2] = ObsCount(0) /\ Metadata[3] = MapEntry(0)
    BY DEF Metadata
  <2> HIDE DEF T
  <2>8. CASE ~Late \/ Done <= T
    <3>1. Late => ~ (Len(Trailer) + 2 - 1 <= Done)
      BY <2>1, <2>8 DEF T
    <3>2. Late => HeaderToken(2) = Metadata[2]
      BY <3>1, Zenon DEF HeaderToken
    <3>3. file[2] = ObsCount(0)
      BY <2>5, <2>6, <2>7, <3>2, Zenon
    <3>4. NumObs(file) = 0
      BY <3>3 DEF NumObs, ObsSlot, ObsCount
    <3> QED
      BY <2>2, <3>4
  <2>9. CASE Late /\ Done = T + 1
    <3>1. ~HasStrLs /\ ~labels
      <4>1. Done < Len(Trailer) + 3 /\ Done < Len(Trailer) + 4
        BY <2>1, <2>9 DEF T
      <4>2. HasStrLs \/ labels => ReadBack(file, labels) = [ok |-> FALSE, rows |-> <<>>]
        BY <4>1, NotReadable
      <4> QED
        BY <4>2
    <3>2. Len(Trailer) + 2 - 1 <= Done /\ ~ (Len(Trailer) + 3 - 1 <= Done)
      BY <2>1, <2>9 DEF T
    <3>3. HeaderToken(2) = HeaderRewrites(offset)[2 - 1].token /\ HeaderToken(3) = Metadata[3]
      BY <2>6, <3>2, Zenon DEF HeaderToken
    <3>4. HeaderRewrites(offset)[2 - 1].token = ObsCount(rowsWritten)
      BY RewritesFacts
    <3>5. file[2] = ObsCount(rowsWritten) /\ file[3] = MapEntry(0)
      BY <2>5, <2>6, <2>7, <2>9, <3>3, <3>4, Zenon
    <3>6. NumObs(file) = rowsWritten /\ file[ObsSlot].n = rowsWritten /\ file[DataSlot].pos = 0
      BY <3>5 DEF NumObs, ObsSlot, DataSlot, ObsCount, MapEntry
    <3>7. rowsWritten \in Nat
      BY BoundsAssumption DEF AllInv, TypeInv, TypeOK
    <3>8. rowsWritten = 0 \/ TornHeader
      BY <3>6, <3>7 DEF TornHeader
    <3> QED
      BY <2>2, <3>1, <3>6, <3>8
  <2>10. CASE Late /\ Done >= T + 2
    <3>1. HasStrLs => Done >= Len(Trailer) + 3
      <4>1. HasStrLs /\ Done < Len(Trailer) + 3
              => ReadBack(file, labels) = [ok |-> FALSE, rows |-> <<>>]
        BY NotReadable
      <4> QED
        BY <2>1, <4>1 DEF T
    <3>2. labels => Done >= Len(Trailer) + 4
      <4>1. labels /\ Done < Len(Trailer) + 4
              => ReadBack(file, labels) = [ok |-> FALSE, rows |-> <<>>]
        BY NotReadable
      <4>2. ReadBack(file, labels) # [ok |-> FALSE, rows |-> <<>>]
        OBVIOUS
      <4>3. Done < Len(Trailer) + 4 \/ Done >= Len(Trailer) + 4
        BY <2>1 DEF T
      <4> QED
        BY <4>1, <4>2, <4>3, Zenon
    <3>3. ReadBack(file, labels) = [ok |-> TRUE, rows |-> Shown(written, labels)]
      BY <2>10, <3>1, <3>2, TableAppears DEF T
    <3> QED
      BY <3>3
  <2> QED
    BY <2>1, <2>8, <2>9, <2>10
<1> QED
  BY <1>1, AllInvariant, PTL

-----------------------------------------------------------------------------
(***************************************************************************)
(* With a strL column: the table appears in one step.                      *)
(***************************************************************************)
Published == Late /\ Done >= Len(Trailer) + 3

Table == IF Published THEN [ok |-> TRUE, rows |-> Shown(written, FALSE)]
         ELSE Contract!Unreadable

Failed == phase = "dropped" \/ ~NoSinkThrew

TableInv == ReadBack(file, FALSE) = Table

LEMMA TableInvariant ==
  ASSUME HasStrLs, KeysFit PROVE Spec => []TableInv
<1>1. AllInv => TableInv
  <2> SUFFICES ASSUME AllInv PROVE ReadBack(file, FALSE) = Table
    BY DEF TableInv
  <2>1. Late => Done \in Int /\ Len(Trailer) \in Nat
    BY PlannedFacts DEF AllInv, FileInv, PendingInv, IsList, Done
  <2>2. CASE Published
    <3>1. Done >= Len(Trailer) + 2 /\ Late /\ FALSE \in BOOLEAN
      BY <2>1, <2>2 DEF Published
    <3>2. ReadBack(file, FALSE) = [ok |-> TRUE, rows |-> Shown(written, FALSE)]
      BY <2>2, <3>1, TableAppears DEF Published
    <3> QED
      BY <2>2, <3>2 DEF Table
  <2>3. CASE ~Published
    <3>1. Late => Done < Len(Trailer) + 3
      BY <2>1, <2>3 DEF Published
    <3>2. ReadBack(file, FALSE) = [ok |-> FALSE, rows |-> <<>>]
      BY <3>1, NotReadable
    <3> QED
      BY <2>3, <3>2 DEF Table, Contract!Unreadable
  <2> QED
    BY <2>2, <2>3
<1> QED
  BY <1>1, AllInvariant, PTL

\* A row that is appended is shown behind the others.
LEMMA ShownAppend ==
  ASSUME NEW rows, IsList(rows), NEW r, NEW labels \in BOOLEAN
  PROVE  Shown(Append(rows, r), labels)
           = Append(Shown(rows, labels), Shown(<<r>>, labels)[1])
<1> DEFINE more == Append(rows, r)
           n == Len(rows)
           shown(x) == [c \in ColumnIds |-> ShownValue(c, x[c], labels)]
<1>1. /\ IsList(more) /\ Len(more) = n + 1 /\ more[n + 1] = r
      /\ \A i \in 1 .. n : more[i] = rows[i]
  BY ListAppend
<1>2. n \in Nat /\ DOMAIN rows = 1 .. n /\ DOMAIN more = 1 .. n + 1
  BY <1>1 DEF IsList
<1> HIDE DEF more, n
<1>3. Shown(more, labels) = [i \in 1 .. n + 1 |-> shown(more[i])]
  BY <1>2 DEF Shown
<1>4. Shown(rows, labels) = [i \in 1 .. n |-> shown(rows[i])]
  BY <1>2 DEF Shown
<1>5. Shown(<<r>>, labels)[1] = shown(r)
  BY DEF Shown
<1> HIDE DEF shown
<1>6. Shown(more, labels) = Append(Shown(rows, labels), shown(r))
  BY <1>1, <1>2, <1>3, <1>4
<1> QED
  BY <1>5, <1>6 DEF more

LEMMA CopyContractInit == Init => Contract!Init
<1> SUFFICES ASSUME Init PROVE Contract!Init
  OBVIOUS
<1>1. Shown(written, FALSE) = <<>>
  BY DEF Init, Shown
<1>2. ~BindSucceeds(file, FALSE)
  BY DEF Init, BindSucceeds, ReaderOpens, Metadata
<1>3. BindSucceeds(file, FALSE) = FALSE
  BY <1>2, Zenon DEF BindSucceeds
<1>4. ReadBack(file, FALSE) = Contract!Unreadable
  BY <1>3, Zenon DEF ReadBack, Contract!Unreadable
<1>5. (phase = "dropped" \/ ~NoSinkThrew) = FALSE
  BY DEF Init, NoSinkThrew
<1> QED
  BY <1>1, <1>4, <1>5, Zenon DEF Contract!Init

\* What the contract's steps are in terms of the table.
LEMMA ContractSteps ==
  ASSUME TableInv, TableInv'
  PROVE  /\ UNCHANGED written /\ (Failed' <=> Failed) /\ (Published' <=> Published)
              => UNCHANGED Contract!vars
         /\ UNCHANGED written /\ Failed' /\ ~Published /\ ~Published' => Contract!Fail
         /\ UNCHANGED written /\ ~Failed /\ ~Failed' /\ ~Published /\ Published'
              => Contract!Publish
<1>1. (phase = "dropped" \/ ~NoSinkThrew) = Failed
      /\ (phase' = "dropped" \/ ~NoSinkThrew') = Failed'
  BY DEF Failed
<1>2. ReadBack(file, FALSE) = Table /\ ReadBack(file', FALSE) = Table'
  BY DEF TableInv
<1>3. UNCHANGED written => Shown(written', FALSE) = Shown(written, FALSE)
  OBVIOUS
<1>4. UNCHANGED written /\ (Published' <=> Published) => Table' = Table
  BY <1>3, Zenon DEF Table, Contract!Unreadable
<1>5. (~Published => Table = Contract!Unreadable)
      /\ (~Published' => Table' = Contract!Unreadable)
      /\ (Published' => Table' = [ok |-> TRUE, rows |-> Shown(written', FALSE)])
  BY DEF Table, Contract!Unreadable
<1>6. Failed \in BOOLEAN /\ Failed' \in BOOLEAN
  BY DEF Failed
<1>7. ASSUME UNCHANGED written, Failed' <=> Failed, Published' <=> Published
      PROVE  UNCHANGED Contract!vars
  <2>1. Failed' = Failed
    BY <1>6, <1>7
  <2> QED
    BY <1>1, <1>2, <1>3, <1>4, <1>7, <2>1 DEF Contract!vars
<1>8. ASSUME UNCHANGED written, Failed', ~Published, ~Published' PROVE Contract!Fail
  <2>1. Failed' = TRUE
    BY <1>6, <1>8
  <2> QED
    BY <1>1, <1>2, <1>3, <1>5, <1>8, <2>1 DEF Contract!Fail
<1>9. ASSUME UNCHANGED written, ~Failed, ~Failed', ~Published, Published'
      PROVE  Contract!Publish
  <2>1. Failed' = Failed
    BY <1>6, <1>9
  <2> QED
    BY <1>1, <1>2, <1>3, <1>5, <1>9, <2>1 DEF Contract!Publish
<1> QED
  BY <1>7, <1>8, <1>9

\* A row that is written is accepted.
LEMMA SinkRowAccepts ==
  ASSUME AllInv, TableInv, TableInv', NEW t \in Threads, SinkRow(t)
  PROVE  Contract!Accept
<1>1. PICK r \in InputRows : written' = Append(written, r)
  BY DEF SinkRow
<1>2. phase = "sink" /\ UNCHANGED <<phase, pc>>
  BY DEF SinkRow, AllInv, FileInv, ThreadsInv
<1>3. ~Published /\ ~Published'
  BY <1>2 DEF Published, Late
<1>4. /\ ReadBack(file, FALSE) = Contract!Unreadable
      /\ ReadBack(file', FALSE) = Contract!Unreadable
  BY <1>3, Zenon DEF TableInv, Table, Contract!Unreadable
<1>5. IsList(written)
  BY CellsEndFacts DEF AllInv
<1>6. Shown(written', FALSE) = Append(Shown(written, FALSE), Shown(<<r>>, FALSE)[1])
  <2>1. Shown(Append(written, r), FALSE)
          = Append(Shown(written, FALSE), Shown(<<r>>, FALSE)[1])
    <3>1. \A labels \in BOOLEAN :
            Shown(Append(written, r), labels)
              = Append(Shown(written, labels), Shown(<<r>>, labels)[1])
      BY <1>5, ShownAppend
    <3>2. FALSE \in BOOLEAN
      OBVIOUS
    <3> QED
      BY <3>1, <3>2, Zenon
  <2> QED
    BY <1>1, <2>1
<1>7. Shown(<<r>>, FALSE)[1] \in {Shown(<<q>>, FALSE)[1] : q \in InputRows}
  OBVIOUS
<1>8. UNCHANGED (phase = "dropped" \/ ~NoSinkThrew)
  BY <1>2 DEF NoSinkThrew
<1> QED
  BY <1>4, <1>6, <1>7, <1>8, Zenon DEF Contract!Accept

LEMMA CopyContractStep ==
  ASSUME AllInv, TableInv, TableInv', [Next]_vars
  PROVE  [Contract!Next]_(Contract!vars)
<1>1. CASE UNCHANGED vars
  <2>1. Failed' <=> Failed
    BY <1>1 DEF vars, Failed, NoSinkThrew
  <2>2. Published' <=> Published
    BY <1>1 DEF vars, Published, Late, Done, Planned, Trailer, GSOs, HeaderRewrites
  <2> QED
    BY <1>1, <2>1, <2>2, ContractSteps DEF vars
<1>2. ASSUME NEW t \in Threads, SinkStep(t) PROVE [Contract!Next]_(Contract!vars)
  <2>1. phase = "sink" /\ phase' = "sink"
    BY <1>2 DEF SinkStep, SinkCall, SinkBegin, SinkRow, SinkEnd, SinkThrows, RowWriteFails,
                ThreadEnds, AllInv, FileInv, ThreadsInv
  <2>2. ~Published /\ ~Published'
    BY <2>1 DEF Published, Late
  <2>3. CASE SinkRow(t)
    BY <2>3, SinkRowAccepts DEF Contract!Next
  <2>4. CASE SinkThrows(t) \/ RowWriteFails(t)
    <3>1. pc'[t] = "failed" /\ UNCHANGED written
      BY <2>4 DEF SinkThrows, RowWriteFails, AllInv, TypeInv, TypeOK
    <3>2. Failed'
      BY <3>1 DEF Failed, NoSinkThrew
    <3> QED
      BY <2>2, <3>1, <3>2, ContractSteps DEF Contract!Next
  <2>5. CASE SinkCall(t) \/ SinkBegin(t) \/ SinkEnd(t) \/ ThreadEnds(t)
    <3>1. UNCHANGED written
      BY <2>5 DEF SinkCall, SinkBegin, SinkEnd, ThreadEnds
    <3>2. NoSinkThrew' <=> NoSinkThrew
      BY <2>5 DEF SinkCall, SinkBegin, SinkEnd, ThreadEnds, NoSinkThrew, AllInv, TypeInv, TypeOK
    <3>3. Failed' <=> Failed
      BY <2>1, <3>2 DEF Failed
    <3> QED
      BY <2>2, <3>1, <3>3, ContractSteps
  <2> QED
    BY <1>2, <2>3, <2>4, <2>5 DEF SinkStep
<1>3. ASSUME WriterStep PROVE [Contract!Next]_(Contract!vars)
  <2>1. UNCHANGED <<written, pc>> /\ (NoSinkThrew' <=> NoSinkThrew)
    BY <1>3 DEF WriterStep, WriteMetadata, Finalize, BeginTrailer, FinalizeWrite,
                SyncAndClose, Drop, AppendFails, NoSinkThrew
  <2>2. phase' # "dropped" /\ phase # "dropped" => (Failed' <=> Failed)
    BY <2>1 DEF Failed
  <2>3. Late => Done \in Int /\ Len(Trailer) \in Nat /\ Len(Trailer) >= 6
    BY PlannedFacts DEF AllInv, FileInv, PendingInv, IsList, Done
  <2>4. CASE WriteMetadata
    <3>1. phase = "metadata" /\ phase' \in {"metadata", "sink"}
      BY <2>4 DEF WriteMetadata
    <3>2. ~Published /\ ~Published'
      BY <3>1 DEF Published, Late
    <3> QED
      BY <2>1, <2>2, <3>1, <3>2, ContractSteps
  <2>5. CASE Finalize
    <3>1. phase = "sink" /\ phase' = "finalize" /\ UNCHANGED strls
      BY <2>5 DEF Finalize, BeginTrailer
    <3>2. Done' = 0 /\ Trailer' = Trailer
      BY <2>5, <3>1, FinalizeStartsTrailer DEF AllInv, Trailer, GSOs
    <3>3. Len(Trailer) \in Nat
      BY TrailerIsList DEF AllInv, TypeInv, IsList
    <3>4. ~Published /\ ~Published'
      BY <3>1, <3>2, <3>3 DEF Published, Late
    <3> QED
      BY <2>1, <2>2, <3>1, <3>4, ContractSteps
  <2>6. CASE FinalizeWrite
    <3>1. phase = "finalize" /\ phase' \in {"finalize", "sync"}
          /\ UNCHANGED <<rowsWritten, strls, offset, written>>
      BY <2>6 DEF FinalizeWrite
    <3>2. Late /\ Late'
      BY <3>1 DEF Late
    <3>3. Done' = Done + 1 /\ Trailer' = Trailer
      BY <2>6, <3>1, FinalizeWriteKeepsTrailer, PlanStays DEF AllInv
    <3>4. ~Failed /\ ~Failed'
      BY <2>1, <3>1, <3>2, LateFacts DEF Failed
    <3>5. Published => Published'
      BY <2>3, <3>2, <3>3 DEF Published
    <3>6. CASE Published' <=> Published
      BY <2>1, <3>4, <3>6, ContractSteps
    <3>7. CASE ~Published /\ Published'
      BY <2>1, <3>4, <3>7, ContractSteps DEF Contract!Next
    <3> QED
      BY <3>5, <3>6, <3>7
  <2>7. CASE SyncAndClose
    <3>1. phase = "sync" /\ phase' = "closed"
          /\ UNCHANGED <<rowsWritten, strls, offset, written, pending>>
      BY <2>7 DEF SyncAndClose
    <3>2. Trailer' = Trailer /\ Planned' = Planned
      BY <3>1, PlanStays
    <3>3. Published' <=> Published
      BY <3>1, <3>2 DEF Published, Late, Done
    <3> QED
      BY <2>1, <2>2, <3>1, <3>3, ContractSteps
  <2>8. CASE Drop
    <3>1. phase = "sink" /\ phase' = "dropped" /\ ~NoSinkThrew
      BY <2>8 DEF Drop, CopyGivenUp, NoSinkThrew
    <3>2. Failed /\ Failed' /\ ~Published /\ ~Published'
      BY <2>1, <3>1 DEF Failed, Published, Late
    <3> QED
      BY <2>1, <3>2, ContractSteps
  <2>9. CASE AppendFails
    <3>1. phase \in {"metadata", "finalize"} /\ phase' = "dropped" /\ Head(pending).slot = 0
      BY <2>9 DEF AppendFails
    <3>2. ~Published
      <4>1. CASE phase = "metadata"
        BY <4>1 DEF Published, Late
      <4>2. CASE phase = "finalize"
        <5>1. Head(pending) = pending[1] /\ Late
          BY <4>2, ListTail DEF AllInv, FileInv, PendingInv, Late
        <5>2. ASSUME Done >= Len(Trailer) PROVE FALSE
          <6>1. PICK k \in 1 .. 4 : pending[1] = HeaderRewrites(offset)[k]
            BY <4>2, <5>2, NextWrite DEF AllInv
          <6>2. pending[1].slot = k + 1
            BY <6>1, RewritesFacts
          <6> QED
            BY <3>1, <5>1, <6>2
        <5> QED
          BY <2>3, <5>1, <5>2 DEF Published
      <4> QED
        BY <3>1, <4>1, <4>2
    <3>3. Failed' /\ ~Published'
      BY <3>1 DEF Failed, Published, Late
    <3> QED
      BY <2>1, <3>2, <3>3, ContractSteps DEF Contract!Next
  <2> QED
    BY <1>3, <2>4, <2>5, <2>6, <2>7, <2>8, <2>9 DEF WriterStep
<1> QED
  BY <1>1, <1>2, <1>3 DEF Next, Over

(***************************************************************************)
(* With a strL column COPY implements CopyContract: rows are accepted one  *)
(* by one, and the table of all of them appears in one step, the write of  *)
(* the map entry of the strLs, unless the COPY failed.  Without such a     *)
(* column a file is readable, with no rows, once its header is complete.   *)
(***************************************************************************)
THEOREM CopyImplementsContract ==
  ASSUME HasStrLs, KeysFit PROVE Spec => ImplementsContract
<1>1. Init => Contract!Init
  BY CopyContractInit
<1>2. AllInv /\ TableInv /\ TableInv' /\ [Next]_vars => [Contract!Next]_(Contract!vars)
  BY CopyContractStep
<1>3. Spec => []TableInv
  BY TableInvariant
<1> QED
  BY <1>1, <1>2, <1>3, AllInvariant, PTL DEF Spec, ImplementsContract, Contract!Spec
=============================================================================
