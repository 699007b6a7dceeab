--------------------------- MODULE DtaOpenProofs ---------------------------
(***************************************************************************)
(* Proofs about the opening of a file, for every set of files with any     *)
(* contents: types, what is allocated, and that a file that was bound is   *)
(* safe to scan.  The constructor checks the rows against the size of the  *)
(* file with the width it has added up; the bind adds the widths up again, *)
(* column by column.  The invariant ties both sums to one function.        *)
(***************************************************************************)
EXTENDS DtaOpen, ProofLemmas, FiniteSetTheorems, TLAPS

-----------------------------------------------------------------------------
(***************************************************************************)
(* The inductive invariant.                                                *)
(***************************************************************************)
HeaderPoints ==
  {"first", "release", "byteorder", "K", "N", "label", "labelText", "timestamp",
   "headerEnd", "legacy"}

EarlyPoints ==
  HeaderPoints \cup
  {"map", "types", "names", "sortlist", "formats", "labelNames", "varLabels",
   "characteristics", "expansion"}

LatePoints ==
  {"bind", "labels", "nextTable", "table", "tableEnd", "seekStrLs", "strls",
   "nextStrL", "strl", "columns", "bound"}

Points == EarlyPoints \cup {"width", "error"} \cup LatePoints

ReaderFields ==
  {"version", "modern", "k", "length", "nObs", "dataOffset", "strlsOffset",
   "labelsOffset", "rowWidth"}

ReaderInv ==
  /\ DOMAIN reader = ReaderFields
  /\ reader.version \in Nat /\ reader.modern \in BOOLEAN
  /\ reader.k \in 0 .. Mod32 - 1
  /\ reader.length \in 0 .. MaxLength
  /\ reader.nObs \in Nat /\ reader.rowWidth \in Nat
  /\ reader.dataOffset \in 0 .. Mod64 - 1
  /\ reader.strlsOffset \in 0 .. Mod64 - 1
  /\ reader.labelsOffset \in 0 .. Mod64 - 1

ScalarsInv ==
  /\ file \in Files /\ wantLabels \in BOOLEAN
  /\ pc \in Points
  /\ pos \in Nat
  /\ ReaderInv
  /\ allocated \in Nat /\ AllocationsFitFile

ColumnsInv ==
  /\ IsList(columns)
  /\ NumVars <= reader.k
  /\ \A i \in 1 .. NumVars : DOMAIN columns[i] = {"type", "name", "labelName"}
  /\ pc \in HeaderPoints => NumVars = 0
  /\ pc # "error" => \A i \in 1 .. NumVars :
       columns[i].type \in {0, Alias} \/ TypeWidth(columns[i].type) > 0

TablesInv ==
  /\ IsList(labels) /\ IsList(mapped)
  /\ Len(mapped) <= NumVars
  /\ \A i \in 1 .. Len(mapped) :
       mapped[i].offset \in Nat /\ mapped[i].table \in 0 .. Len(labels)

IndexInv ==
  /\ index \in 1 .. NumVars + 1
  /\ pc \in EarlyPoints => index = 1 /\ reader.rowWidth = 0
  /\ pc \in EarlyPoints \cup {"width", "bind"} => Len(mapped) = 0
  /\ pc \in LatePoints \ {"bind"} => Len(mapped) = index - 1
  /\ pc = "bound" => index = NumVars + 1

\* w[i] is the sum of the widths of the first i columns.
Sums(w, n) ==
  /\ w \in [0 .. n -> Nat]
  /\ w[0] = 0
  /\ \A i \in 1 .. n : w[i] = w[i - 1] + TypeWidth(columns[i].type)
  /\ \A i, j \in 0 .. n : i <= j => w[i] <= w[j]

WidthInv ==
  pc = "width" => \E w : Sums(w, index - 1) /\ reader.rowWidth = w[index - 1]

OffsetsInv ==
  pc \in LatePoints =>
    /\ RowsFit
    /\ \E w : /\ Sums(w, NumVars)
              /\ reader.rowWidth = w[NumVars]
              /\ \A i \in 1 .. Len(mapped) : mapped[i].offset = w[i - 1]

OInv ==
  ScalarsInv /\ ColumnsInv /\ TablesInv /\ IndexInv /\ WidthInv /\ OffsetsInv

-----------------------------------------------------------------------------
(***************************************************************************)
(* Arithmetic and helpers.                                                 *)
(***************************************************************************)
LEMMA MaxLengthType == MaxLength \in Nat
  BY DEF MaxLength

\* The width of a column, whatever its type code, is a number.
LEMMA WidthType == ASSUME NEW code PROVE TypeWidth(code) \in Nat
<1>1. MaxStr \in Nat
  BY DEF MaxStr
<1> QED
  BY <1>1 DEF TypeWidth, StrL

\* What a field may hold is a number of its width.
LEMMA FieldType ==
  ASSUME file \in Files, NEW kind \in Numbers, NEW skip
  PROVE  Field(kind, skip) \subseteq NumbersOf(kind)
<1>1. CASE TokenAt(pos + skip).kind = kind
  <2>1. pos + skip \in DOMAIN Content(file)
    <3>1. SUFFICES ASSUME pos + skip \notin DOMAIN Content(file) PROVE FALSE
      OBVIOUS
    <3>2. TokenAt(pos + skip).kind = "none"
      BY <3>1 DEF TokenAt, NoToken
    <3> QED
      BY <1>1, <3>2 DEF Numbers
  <2>2. Content(file)[pos + skip].kind = kind
    BY <1>1, <2>1 DEF TokenAt
  <2>3. Content(file)[pos + skip].value \in NumbersOf(kind)
    BY <2>1, <2>2, ContentAssumption
  <2> QED
    BY <1>1, <2>1, <2>3 DEF Field, TokenAt
<1>2. CASE TokenAt(pos + skip).kind # kind
  BY <1>2, SamplesAssumption DEF Field
<1> QED
  BY <1>1, <1>2

\* The widths that a format gives to its fields.
LEMMA ParamsType ==
  /\ P.name \in Nat /\ P.sort \in Nat /\ P.format \in Nat /\ P.labelName \in Nat
  /\ P.varLabel \in Nat /\ P.k \in Nat /\ P.n \in Nat /\ P.dataLabel \in Nat
  /\ MinBytesPerVar \in Nat /\ 0 < MinBytesPerVar /\ MinBytesPerVar <= 638
  BY DEF P, Params, MinBytesPerVar, TypeBytes

\* The members of Tags, one by one.
LEMMA TagsListed ==
  /\ "" \in Tags
  /\ "</K>" \in Tags
  /\ "</N>" \in Tags
  /\ "</byteorder>" \in Tags
  /\ "</formats>" \in Tags
  /\ "</label>" \in Tags
  /\ "</lbl>" \in Tags
  /\ "</map>" \in Tags
  /\ "</release>" \in Tags
  /\ "</sortlist>" \in Tags
  /\ "</timestamp></header>" \in Tags
  /\ "</value_label_names>" \in Tags
  /\ "</variable_labels>" \in Tags
  /\ "</variable_types>" \in Tags
  /\ "</varnames>" \in Tags
  /\ "<K>" \in Tags
  /\ "<N>" \in Tags
  /\ "<byteorder>" \in Tags
  /\ "<formats>" \in Tags
  /\ "<label>" \in Tags
  /\ "<lbl>" \in Tags
  /\ "<map>" \in Tags
  /\ "<sortlist>" \in Tags
  /\ "<stata_dta><header><release>" \in Tags
  /\ "<strls>" \in Tags
  /\ "<timestamp>" \in Tags
  /\ "<value_label_names>" \in Tags
  /\ "<value_labels>" \in Tags
  /\ "<variable_labels>" \in Tags
  /\ "<variable_types>" \in Tags
  /\ "<varnames>" \in Tags
  BY Zenon DEF Tags

LEMMA LayoutType ==
  ASSUME NEW open \in Tags, NEW close \in Tags, NEW n \in Nat
  PROVE  /\ Layout(open, n, close).bytes \in Nat
         /\ Layout(open, n, close).open \in Tags
         /\ Layout(open, n, close).close \in Tags
  BY DEF Layout

LEMMA ListType ==
  ASSUME NEW open \in Tags, NEW close \in Tags, NEW n \in Nat
  PROVE  /\ List(open, n, close).bytes \in Nat
         /\ List(open, n, close).open \in Tags
         /\ List(open, n, close).close \in Tags
<1>1. "" \in Tags
  BY DEF Tags
<1> QED
  BY <1>1, LayoutType DEF List

\* What is expected takes a number of bytes, and lies between tags.
LEMMA ExpectedType ==
  ASSUME ScalarsInv, IsList(columns), pc \in ReadPoints
  PROVE  Expected.bytes \in Nat /\ Expected.open \in Tags /\ Expected.close \in Tags
<1>1. reader.length \in Nat /\ NumVars \in Nat
  BY MaxLengthType DEF ScalarsInv, ReaderInv, IsList, NumVars
<1>2. /\ TypeBytes \in Nat /\ SortEntries \in Nat /\ LabelTableHead \in Nat
      /\ LabelTableHead + 8 \in Nat /\ StrLHead \in Nat
  BY <1>1, ParamsType DEF TypeBytes, SortEntries, LabelTableHead, StrLHead
<1>3. \A n \in Nat : NumVars * n \in Nat
  BY <1>1
<1>4. SortEntries * P.sort \in Nat
  BY <1>2, ParamsType
<1> HIDE DEF TypeBytes, SortEntries, LabelTableHead, StrLHead, P
<1>5. CASE pc = "first"
  <2>1. Expected = Layout("", 1, "")
    BY <1>5 DEF Expected
  <2> QED
    BY <2>1, TagsListed, LayoutType
<1>6. CASE pc = "release"
  <2>1. Expected = Layout("<stata_dta><header><release>", 3, "</release>")
    BY <1>6 DEF Expected
  <2> QED
    BY <2>1, TagsListed, LayoutType
<1>7. CASE pc = "byteorder"
  <2>1. Expected = Layout("<byteorder>", 3, "</byteorder>")
    BY <1>7 DEF Expected
  <2> QED
    BY <2>1, TagsListed, LayoutType
<1>8. CASE pc = "K"
  <2>1. Expected = Layout("<K>", P.k, "</K>")
    BY <1>8 DEF Expected
  <2> QED
    BY ParamsType, <2>1, TagsListed, LayoutType
<1>9. CASE pc = "N"
  <2>1. Expected = Layout("<N>", P.n, "</N>")
    BY <1>9 DEF Expected
  <2> QED
    BY ParamsType, <2>1, TagsListed, LayoutType
<1>10. CASE pc = "label"
  <2>1. Expected = Layout("<label>", P.dataLabel, "")
    BY <1>10 DEF Expected
  <2> QED
    BY ParamsType, <2>1, TagsListed, LayoutType
<1>11. CASE pc = "labelText"
  <2>1. Expected = Layout("", reader.length, "</label>")
    BY <1>11 DEF Expected
  <2> QED
    BY <1>1, <2>1, TagsListed, LayoutType
<1>12. CASE pc = "timestamp"
  <2>1. Expected = Layout("<timestamp>", 1, "")
    BY <1>12 DEF Expected
  <2> QED
    BY <2>1, TagsListed, LayoutType
<1>13. CASE pc = "headerEnd"
  <2>1. Expected = Layout("", reader.length, "</timestamp></header>")
    BY <1>13 DEF Expected
  <2> QED
    BY <1>1, <2>1, TagsListed, LayoutType
<1>14. CASE pc = "legacy"
  <2>1. Expected = Layout("", 109, "")
    BY <1>14 DEF Expected
  <2> QED
    BY <2>1, TagsListed, LayoutType
<1>15. CASE pc = "map"
  <2>1. Expected = Layout("<map>", 112, "</map>")
    BY <1>15 DEF Expected
  <2> QED
    BY <2>1, TagsListed, LayoutType
<1>16. CASE pc = "types"
  <2>1. Expected = List("<variable_types>", NumVars * TypeBytes, "</variable_types>")
    BY <1>16 DEF Expected
  <2> QED
    BY <1>2, <1>3, <2>1, TagsListed, ListType
<1>17. CASE pc = "names"
  <2>1. Expected = List("<varnames>", NumVars * P.name, "</varnames>")
    BY <1>17 DEF Expected
  <2> QED
    BY <1>3, ParamsType, <2>1, TagsListed, ListType
<1>18. CASE pc = "sortlist"
  <2>1. Expected = List("<sortlist>", SortEntries * P.sort, "</sortlist>")
    BY <1>18 DEF Expected
  <2> QED
    BY <1>4, <2>1, TagsListed, ListType
<1>19. CASE pc = "formats"
  <2>1. Expected = List("<formats>", NumVars * P.format, "</formats>")
    BY <1>19 DEF Expected
  <2> QED
    BY <1>3, ParamsType, <2>1, TagsListed, ListType
<1>20. CASE pc = "labelNames"
  <2>1. Expected = List("<value_label_names>", NumVars * P.labelName, "</value_label_names>")
    BY <1>20 DEF Expected
  <2> QED
    BY <1>3, ParamsType, <2>1, TagsListed, ListType
<1>21. CASE pc = "varLabels"
  <2>1. Expected = List("<variable_labels>", NumVars * P.varLabel, "</variable_labels>")
    BY <1>21 DEF Expected
  <2> QED
    BY <1>3, ParamsType, <2>1, TagsListed, ListType
<1>22. CASE pc = "expansion"
  <2>1. Expected = Layout("", 5, "")
    BY <1>22 DEF Expected
  <2> QED
    BY <2>1, TagsListed, LayoutType
<1>23. CASE pc = "labels"
  <2>1. Expected = Layout(IF Mapped THEN "<value_labels>" ELSE "", 0, "")
    BY <1>23 DEF Expected
  <2> QED
    BY <2>1, TagsListed, LayoutType
<1>24. CASE pc = "table"
  <2>1. Expected = Layout("", LabelTableHead + 8, "")
    BY <1>24 DEF Expected
  <2> QED
    BY <1>2, <2>1, TagsListed, LayoutType
<1>25. CASE pc = "tableEnd"
  <2>1. Expected = Layout("", 0, IF Mapped THEN "</lbl>" ELSE "")
    BY <1>25 DEF Expected
  <2> QED
    BY <2>1, TagsListed, LayoutType
<1>26. CASE pc = "strls"
  <2>1. Expected = Layout("<strls>", 0, "")
    BY <1>26 DEF Expected
  <2> QED
    BY <2>1, TagsListed, LayoutType
<1>27. CASE pc = "strl"
  <2>1. Expected = Layout("", StrLHead, "")
    BY <1>27 DEF Expected
  <2> QED
    BY <1>2, <2>1, TagsListed, LayoutType
<1> QED
  BY <1>5, <1>6, <1>7, <1>8, <1>9, <1>10, <1>11, <1>12, <1>13, <1>14, <1>15, <1>16,
     <1>17, <1>18, <1>19, <1>20, <1>21, <1>22, <1>23, <1>24, <1>25, <1>26, <1>27
     DEF ReadPoints

\* So a read moves the handle to a position, and not past the file.
LEMMA AdvanceType ==
  ASSUME ScalarsInv, IsList(columns), pc \in ReadPoints, NEW more \in Nat, Advance(more)
  PROVE  /\ pos' \in Nat
         /\ Readable => pos' <= Size(file) + more
<1>1. Bytes(Expected) \in Nat
  BY ExpectedType, TagAssumption DEF Bytes
<1>2. pos \in Nat /\ Size(file) \in Nat
  BY SizeAssumption DEF ScalarsInv
<1>3. pos' = pos + Bytes(Expected) + more
  BY DEF Advance
<1>4. Readable => pos + Bytes(Expected) <= Size(file)
  BY DEF Readable
<1> HIDE DEF Bytes
<1> QED
  BY <1>1, <1>2, <1>3, <1>4

-----------------------------------------------------------------------------
(***************************************************************************)
(* Steps by what they leave alone.                                         *)
(***************************************************************************)
\* Steps of the constructor before the widths are added up.
LEMMA EarlyStep ==
  ASSUME OInv, pc \in EarlyPoints,
         pc' \in EarlyPoints \cup {"width", "error"},
         ScalarsInv', ColumnsInv', reader'.rowWidth = reader.rowWidth,
         UNCHANGED <<index, labels, mapped>>
  PROVE  OInv'
<1>1. /\ index = 1 /\ reader'.rowWidth = 0
      /\ Len(mapped) = 0
  BY DEF OInv, IndexInv
<1>2. NumVars' \in Nat
  BY DEF ColumnsInv, IsList, NumVars
<1>3. TablesInv'
  BY <1>1, <1>2 DEF OInv, TablesInv, IsList, NumVars
<1>4. IndexInv'
  <2>1. pc' \notin LatePoints
    BY DEF LatePoints, EarlyPoints, HeaderPoints
  <2>2. pc' # "bound"
    BY DEF EarlyPoints, HeaderPoints
  <2>3. index' \in 1 .. NumVars' + 1
    <3>1. \A n \in Nat : 1 \in 1 .. n + 1
      OBVIOUS
    <3>2. index' = 1
      BY <1>1
    <3> QED
      BY <1>2, <3>1, <3>2, Zenon
  <2>4. index' = 1 /\ reader'.rowWidth = 0 /\ Len(mapped') = 0
    BY <1>1
  <2> QED
    BY <2>1, <2>2, <2>3, <2>4, Zenon DEF IndexInv
<1>5. WidthInv'
  <2> DEFINE w == [i \in 0 .. 0 |-> 0]
  <2>1. Sums(w, 0)'
    BY DEF Sums
  <2>2. reader'.rowWidth = w[index' - 1]
    BY <1>1
  <2> HIDE DEF w
  <2> QED
    BY <1>1, <2>1, <2>2 DEF WidthInv
<1>6. OffsetsInv'
  BY DEF OffsetsInv, LatePoints, EarlyPoints, HeaderPoints
<1> QED
  BY <1>3, <1>4, <1>5, <1>6 DEF OInv

\* ... which do not touch the columns either.
LEMMA SameColumns ==
  ASSUME ColumnsInv, UNCHANGED columns, reader'.k = reader.k, pc # "error",
         pc' \in HeaderPoints => pc \in HeaderPoints
  PROVE  ColumnsInv'
  BY DEF ColumnsInv, NumVars, IsList

\* An exception is thrown.
LEMMA ErrorStep ==
  ASSUME OInv, pc' = "error", ScalarsInv', UNCHANGED <<index, columns, mapped>>,
         reader'.k = reader.k, IsList(labels'), Len(labels) <= Len(labels')
  PROVE  OInv'
<1>1. ColumnsInv'
  BY DEF OInv, ColumnsInv, NumVars, IsList, HeaderPoints
<1>2. TablesInv'
  BY DEF OInv, TablesInv, ColumnsInv, NumVars, IsList
<1>3. IndexInv'
  BY DEF OInv, IndexInv, NumVars, LatePoints, EarlyPoints, HeaderPoints
<1>4. WidthInv' /\ OffsetsInv'
  BY DEF WidthInv, OffsetsInv, LatePoints
<1> QED
  BY <1>1, <1>2, <1>3, <1>4 DEF OInv

\* Steps of the loaders and of the bind, which leave reader and columns alone.
LEMMA LateStep ==
  ASSUME OInv, pc \in LatePoints,
         pc' \in LatePoints \ {"bind", "bound"},
         ScalarsInv', UNCHANGED <<file, reader, columns, mapped>>,
         IsList(labels'), Len(labels) <= Len(labels'),
         index' \in 1 .. NumVars + 1, Len(mapped) = index' - 1
  PROVE  OInv'
<1>1. NumVars' = NumVars
  BY DEF NumVars
<1>2. ColumnsInv'
  BY DEF OInv, ColumnsInv, NumVars, IsList, HeaderPoints, LatePoints
<1>3. TablesInv'
  <2>1. 0 .. Len(labels) \subseteq 0 .. Len(labels')
    BY DEF OInv, TablesInv, IsList
  <2> QED
    BY <1>1, <2>1 DEF OInv, TablesInv, IsList
<1>4. IndexInv'
  BY <1>1 DEF OInv, IndexInv, LatePoints, EarlyPoints, HeaderPoints
<1>5. WidthInv'
  BY DEF WidthInv, LatePoints
<1>6. OffsetsInv'
  <2>1. RowsFit'
    BY DEF OInv, OffsetsInv, RowsFit
  <2>2. PICK w, n : /\ Sums(w, n) /\ n = NumVars
                    /\ reader.rowWidth = w[n]
                    /\ \A i \in 1 .. Len(mapped) : mapped[i].offset = w[i - 1]
    BY DEF OInv, OffsetsInv
  <2>3. Sums(w, n)'
    BY <2>2 DEF Sums
  <2> HIDE DEF NumVars
  <2> QED
    BY <1>1, <2>1, <2>2, <2>3 DEF OffsetsInv
<1> QED
  BY <1>2, <1>3, <1>4, <1>5, <1>6 DEF OInv

-----------------------------------------------------------------------------
(***************************************************************************)
(* The constructor, up to the widths.                                      *)
(***************************************************************************)
LEMMA ScalarsStep ==
  ASSUME ScalarsInv, pc' \in Points, pos' \in Nat, ReaderInv',
         allocated' \in Nat, allocated' <= Larger(Size(file), MaxLength),
         UNCHANGED <<file, wantLabels>>
  PROVE  ScalarsInv'
  BY DEF ScalarsInv, AllocationsFitFile

LEMMA PointsOf ==
  /\ HeaderPoints \subseteq EarlyPoints
  /\ EarlyPoints \subseteq Points /\ LatePoints \subseteq Points
  /\ HeaderPoints \subseteq ReadPoints
  /\ "error" \in Points /\ "width" \in Points /\ "error" \notin HeaderPoints
  BY Zenon DEF Points, EarlyPoints, HeaderPoints, ReadPoints

\* Fields of the reader that are set one at a time.
LEMMA ReaderStep ==
  ASSUME ReaderInv, NEW v
  PROVE  /\ v \in Nat => LET r == [reader EXCEPT !.version = v] IN
              /\ DOMAIN r = ReaderFields
              /\ r.version \in Nat
              /\ \A f \in ReaderFields \ {"version"} : r[f] = reader[f]
         /\ LET r == [reader EXCEPT !.modern = v] IN
              /\ DOMAIN r = ReaderFields
              /\ r.modern = v
              /\ \A f \in ReaderFields \ {"modern"} : r[f] = reader[f]
  BY DEF ReaderInv, ReaderFields

\* The first byte and the header leave the columns, of which there are none.
LEMMA HeaderStep ==
  ASSUME OInv, pc \in HeaderPoints, pc' \in HeaderPoints \cup {"error"},
         pos' \in Nat, ReaderInv', reader'.rowWidth = reader.rowWidth,
         allocated' \in Nat, allocated' <= Larger(Size(file), MaxLength),
         UNCHANGED <<file, wantLabels, index, columns, labels, mapped>>
  PROVE  OInv'
<1>1. pc \in EarlyPoints /\ pc' \in Points /\ pc' \in EarlyPoints \cup {"width", "error"}
  BY PointsOf, Zenon
<1>2. ScalarsInv'
  BY <1>1, ScalarsStep DEF OInv
<1>3. ColumnsInv'
  BY DEF OInv, ColumnsInv, NumVars, IsList, ReaderInv
<1> QED
  BY <1>1, <1>2, <1>3, EarlyStep

LEMMA ReadInFirst ==
  ASSUME OInv, pc \in ReadPoints
  PROVE  /\ ScalarsInv /\ IsList(columns)
         /\ pos \in Nat /\ allocated \in Nat
         /\ allocated <= Larger(Size(file), MaxLength)
         /\ file \in Files /\ Size(file) \in 0 .. Mod64 - 1
         /\ ReaderInv
  BY SizeAssumption DEF OInv, ScalarsInv, ColumnsInv, AllocationsFitFile

\* Setting a field of the reader to a value that it may have.
LEMMA SetField ==
  ASSUME ReaderInv, NEW field \in ReaderFields, NEW v,
         reader' = [reader EXCEPT ![field] = v],
         field \in {"version", "k", "length", "nObs"},
         v \in CASE field = "k" -> 0 .. Mod32 - 1
                 [] field = "length" -> 0 .. MaxLength
                 [] OTHER -> Nat
  PROVE  /\ ReaderInv'
         /\ reader'.rowWidth = reader.rowWidth
         /\ field # "k" => reader'.k = reader.k
  BY MaxLengthType DEF ReaderInv, ReaderFields

LEMMA ReadIntoStep ==
  ASSUME OInv, NEW point \in HeaderPoints, NEW next \in HeaderPoints,
         NEW kind \in {"version", "K", "N", "length"},
         NEW field \in {"version", "k", "length", "nObs"},
         field = "k" => kind = "K", field = "length" => kind = "length",
         ReadInto(point, next, kind, field),
         allocated' = allocated \/
           (field = "length" /\ allocated' = Larger(allocated, reader'.length))
  PROVE  OInv'
<1>1. pc = point /\ Readable /\ pc \in ReadPoints /\ Advance(0)
  BY PointsOf DEF ReadInto, At
<1>2. pos' \in Nat
  BY <1>1, ReadInFirst, AdvanceType
<1>3. PICK v \in Field(kind, Body) : reader' = [reader EXCEPT ![field] = v]
  BY DEF ReadInto
<1>4. pc' \in HeaderPoints \cup {"error"}
  BY DEF ReadInto, Goto
<1>5. UNCHANGED <<file, wantLabels, index, columns, labels, mapped>>
  BY DEF ReadInto, Unchanged
<1>6. v \in NumbersOf(kind)
  <2>1. kind \in Numbers
    BY DEF Numbers
  <2> QED
    BY <1>1, <2>1, ReadInFirst, FieldType
<1>7. v \in CASE field = "k" -> 0 .. Mod32 - 1
             [] field = "length" -> 0 .. MaxLength
             [] OTHER -> Nat
  <2>1. CASE field = "k"
    BY <1>6, <2>1 DEF NumbersOf
  <2>2. CASE field = "length"
    BY <1>6, <2>2 DEF NumbersOf
  <2>3. CASE field \notin {"k", "length"}
    <3>1. v \in Nat
      BY <1>6, MaxLengthType, ModAssumption DEF NumbersOf
    <3> QED
      BY <2>3, <3>1
  <2> QED
    BY <2>1, <2>2, <2>3
<1>8. ReaderInv' /\ reader'.rowWidth = reader.rowWidth
  <2>1. field \in ReaderFields
    BY DEF ReaderFields
  <2> QED
    BY <1>1, <1>3, <1>7, <2>1, ReadInFirst, SetField
<1>9. allocated' \in Nat /\ allocated' <= Larger(Size(file), MaxLength)
  <2>1. allocated \in Nat /\ allocated <= Larger(Size(file), MaxLength) /\ Size(file) \in Nat
    BY <1>1, ReadInFirst
  <2>2. reader'.length \in Nat /\ reader'.length <= MaxLength /\ MaxLength \in Nat
    BY <1>8, MaxLengthType DEF ReaderInv
  <2> QED
    BY <2>1, <2>2 DEF Larger
<1> QED
  BY <1>1, <1>2, <1>4, <1>5, <1>8, <1>9, HeaderStep

LEMMA SkipsInHeader ==
  ASSUME OInv, NEW point \in HeaderPoints, NEW next \in HeaderPoints, Skip(point, next)
  PROVE  OInv'
<1>1. pc = point /\ pc' = next /\ pc \in ReadPoints /\ Advance(0)
      /\ UNCHANGED <<file, wantLabels, index, reader, columns, labels, mapped, allocated>>
  BY PointsOf DEF Skip, At, Unchanged
<1>2. pos' \in Nat
  BY <1>1, ReadInFirst, AdvanceType
<1>3. ReaderInv'
  BY <1>1, ReadInFirst DEF ReaderInv
<1>4. allocated' \in Nat /\ allocated' <= Larger(Size(file), MaxLength)
  BY <1>1, ReadInFirst
<1> QED
  BY <1>1, <1>2, <1>3, <1>4, HeaderStep

LEMMA ParseHeaderStep ==
  ASSUME OInv,
         ParseRelease \/ SkipByteorder \/ ParseK \/ ParseN \/ ParseDatasetLabel
         \/ DatasetLabelText \/ ParseTimestamp
  PROVE  OInv'
<1>1. /\ "release" \in HeaderPoints /\ "byteorder" \in HeaderPoints
      /\ "K" \in HeaderPoints /\ "N" \in HeaderPoints /\ "label" \in HeaderPoints
      /\ "labelText" \in HeaderPoints /\ "timestamp" \in HeaderPoints
      /\ "headerEnd" \in HeaderPoints
  BY Zenon DEF HeaderPoints
<1>2. CASE ParseRelease
  BY <1>1, <1>2, ReadIntoStep DEF ParseRelease
<1>3. CASE SkipByteorder
  BY <1>1, <1>3, SkipsInHeader DEF SkipByteorder
<1>4. CASE ParseK
  BY <1>1, <1>4, ReadIntoStep DEF ParseK
<1>5. CASE ParseN
  BY <1>1, <1>5, ReadIntoStep DEF ParseN
<1>6. CASE ParseDatasetLabel
  BY <1>1, <1>6, ReadIntoStep DEF ParseDatasetLabel
<1>7. CASE DatasetLabelText
  BY <1>1, <1>7, SkipsInHeader DEF DatasetLabelText
<1>8. CASE ParseTimestamp
  BY <1>1, <1>8, ReadIntoStep DEF ParseTimestamp
<1> QED
  BY <1>2, <1>3, <1>4, <1>5, <1>6, <1>7, <1>8

LEMMA FirstByteStep == ASSUME OInv, ReadFirstByte PROVE OInv'
<1>1. pc = "first" /\ "first" \in HeaderPoints /\ "release" \in HeaderPoints
      /\ "legacy" \in HeaderPoints /\ pc \in ReadPoints
  BY Zenon DEF ReadFirstByte, At, HeaderPoints, ReadPoints
<1>2. UNCHANGED <<file, wantLabels, pos, index, columns, labels, mapped, allocated>>
  BY DEF ReadFirstByte, Unchanged
<1>3. PICK byte \in FirstByte :
        IF byte = LessThan
        THEN /\ pc' = "release"
             /\ reader' = [reader EXCEPT !.modern = TRUE]
        ELSE /\ Goto("legacy", byte \in Versions)
             /\ reader' = [reader EXCEPT !.version = byte]
  BY DEF ReadFirstByte
<1>4. pc' \in HeaderPoints \cup {"error"}
  BY <1>1, <1>3 DEF Goto
<1>5. byte \in Nat
  <2>1. "version" \in Numbers /\ NumbersOf("version") = Nat
    BY DEF Numbers, NumbersOf
  <2>2. Field("version", 0) \subseteq Nat
    BY <1>1, <2>1, ReadInFirst, FieldType
  <2> QED
    BY <2>2 DEF FirstByte, LessThan
<1>6. ReaderInv' /\ reader'.rowWidth = reader.rowWidth
  <2>1. CASE byte = LessThan
    BY <1>1, <1>3, <2>1, ReadInFirst DEF ReaderInv, ReaderFields
  <2>2. CASE byte # LessThan
    <3>1. "version" \in ReaderFields
      BY DEF ReaderFields
    <3> QED
      BY <1>1, <1>3, <1>5, <2>2, <3>1, ReadInFirst, SetField
  <2> QED
    BY <2>1, <2>2
<1> QED
  BY <1>1, <1>2, <1>4, <1>6, ReadInFirst, HeaderStep

\* columns_ is sized: a count of 32 bits times at most 638 bytes does not wrap
\* in 64, so what was found to fit does.
LEMMA ResizeStep ==
  ASSUME OInv, NEW point \in HeaderPoints, At(point), NEW k \in 0 .. Mod32 - 1,
         NEW next \in EarlyPoints \ HeaderPoints, Resize(k, next),
         ReaderInv', reader'.k = k, reader'.rowWidth = reader.rowWidth,
         UNCHANGED <<file, wantLabels, index, labels, mapped>>
  PROVE  OInv'
<1>1. pc \in HeaderPoints /\ pc \in EarlyPoints /\ pc \in ReadPoints /\ Advance(0)
  BY PointsOf DEF At, Resize
<1>2. pos' \in Nat
  BY <1>1, ReadInFirst, AdvanceType
<1>3. /\ pc' \in EarlyPoints \cup {"width", "error"} /\ pc' \in Points
      /\ pc' \notin HeaderPoints
  BY PointsOf, Zenon DEF Resize, Goto
<1>4. k * MinBytesPerVar \in 0 .. Mod64 - 1
  <2>1. k \in Nat /\ k < Mod32
    BY ModAssumption
  <2> HIDE DEF MinBytesPerVar
  <2>2. \A m \in Nat : m <= 638 => k * m <= k * 638
    BY <2>1
  <2>3. k * MinBytesPerVar <= k * 638 /\ k * MinBytesPerVar \in Nat
    BY <2>1, <2>2, ParamsType
  <2> QED
    BY <2>1, <2>3, ModAssumption
<1>5. VariableCountFits(k) => k * MinBytesPerVar <= Size(file)
  <2> DEFINE m == k * MinBytesPerVar
  <2>1. m \in 0 .. Mod64 - 1
    BY <1>4
  <2>2. VariableCountFits(k) = (m % Mod64 <= Size(file))
    BY DEF VariableCountFits
  <2> HIDE DEF m
  <2>3. m % Mod64 = m
    BY <2>1, ModAssumption
  <2> QED
    BY <2>2, <2>3 DEF m
<1>6. allocated' \in Nat /\ allocated' <= Larger(Size(file), MaxLength)
  <2>1. allocated \in Nat /\ allocated <= Larger(Size(file), MaxLength) /\ Size(file) \in Nat
    BY <1>1, ReadInFirst
  <2> HIDE DEF MinBytesPerVar
  <2> QED
    BY <1>4, <1>5, <2>1, MaxLengthType, ModAssumption DEF Resize, Larger
<1>7. ScalarsInv'
  BY <1>2, <1>3, <1>6, ScalarsStep DEF OInv
<1>8. ColumnsInv'
  <2>1. CASE VariableCountFits(k)
    <3>1. columns' = [i \in 1 .. k |-> [type |-> 0, name |-> Garbage, labelName |-> Garbage]]
      BY <2>1 DEF Resize
    <3>2. k \in Nat
      BY ModAssumption
    <3>3. Len(columns') = k /\ DOMAIN columns' = 1 .. k
      BY <3>1, <3>2
    <3>4. \A i \in 1 .. k : /\ DOMAIN columns'[i] = {"type", "name", "labelName"}
                            /\ columns'[i].type = 0
      BY <3>1
    <3> QED
      BY <1>3, <3>2, <3>3, <3>4 DEF ColumnsInv, IsList, NumVars
  <2>2. CASE ~VariableCountFits(k)
    <3>1. columns' = columns /\ pc' = "error"
      BY <2>2 DEF Resize, Goto
    <3> QED
      BY <1>1, <1>3, <3>1, ModAssumption DEF OInv, ColumnsInv, IsList, NumVars
  <2> QED
    BY <2>1, <2>2
<1> QED
  BY <1>1, <1>3, <1>7, <1>8, EarlyStep

LEMMA EndHeaderStep == ASSUME OInv, EndHeader PROVE OInv'
<1>1. "headerEnd" \in HeaderPoints /\ "map" \in EarlyPoints \ HeaderPoints
      /\ "headerEnd" \in ReadPoints
  BY Zenon DEF HeaderPoints, EarlyPoints, ReadPoints
<1>2. /\ At("headerEnd") /\ Resize(reader.k, "map")
      /\ UNCHANGED <<file, wantLabels, index, reader, labels, mapped>>
  BY DEF EndHeader, Unchanged
<1>3. ReaderInv
  BY DEF OInv, ScalarsInv
<1>4. ReaderInv' /\ reader.k \in 0 .. Mod32 - 1 /\ reader'.k = reader.k
      /\ reader'.rowWidth = reader.rowWidth
  BY <1>2, <1>3 DEF ReaderInv
<1> QED
  BY <1>1, <1>2, <1>4, ResizeStep

LEMMA ParseLegacyHeaderStep == ASSUME OInv, ParseLegacyHeader PROVE OInv'
<1>1. "legacy" \in HeaderPoints /\ "types" \in EarlyPoints \ HeaderPoints
      /\ "legacy" \in ReadPoints
  BY Zenon DEF HeaderPoints, EarlyPoints, ReadPoints
<1>2. /\ At("legacy")
      /\ UNCHANGED <<file, wantLabels, index, labels, mapped>>
  BY DEF ParseLegacyHeader, Unchanged
<1>3. PICK k \in Field("K", 4), n \in Field("N", 6) :
        /\ Resize(k, "types")
        /\ reader' = [reader EXCEPT !.k = k, !.nObs = n]
  BY DEF ParseLegacyHeader
<1>4. k \in 0 .. Mod32 - 1 /\ n \in Nat
  <2>1. "K" \in Numbers /\ "N" \in Numbers
    BY DEF Numbers
  <2>2. NumbersOf("K") = 0 .. Mod32 - 1 /\ NumbersOf("N") = Nat
    BY DEF NumbersOf
  <2> QED
    BY <1>1, <1>2, <2>1, <2>2, FieldType, ReadInFirst DEF At
<1>5. ReaderInv
  BY DEF OInv, ScalarsInv
<1>6. ReaderInv' /\ reader'.k = k /\ reader'.rowWidth = reader.rowWidth
  BY <1>3, <1>4, <1>5 DEF ReaderInv, ReaderFields
<1> QED
  BY <1>1, <1>2, <1>3, <1>4, <1>6, ResizeStep

\* A read after the header that leaves the columns.
LEMMA KeepsColumns ==
  ASSUME OInv, pc \in EarlyPoints \ HeaderPoints,
         pc' \in (EarlyPoints \ HeaderPoints) \cup {"width", "error"},
         pos' \in Nat, ReaderInv', reader'.k = reader.k,
         reader'.rowWidth = reader.rowWidth,
         UNCHANGED <<file, wantLabels, index, columns, labels, mapped, allocated>>
  PROVE  OInv'
<1>1. pc' \in Points /\ pc' \notin HeaderPoints /\ pc # "error"
  BY PointsOf, Zenon DEF EarlyPoints, HeaderPoints
<1>2. allocated' \in Nat /\ allocated' <= Larger(Size(file), MaxLength)
  BY DEF OInv, ScalarsInv, AllocationsFitFile
<1>3. ScalarsInv'
  BY <1>1, <1>2, ScalarsStep DEF OInv
<1>4. ColumnsInv'
  BY <1>1, SameColumns DEF OInv
<1> QED
  BY <1>3, <1>4, EarlyStep

\* The points after the header, and where the code goes on from them.
LEMMA LaterPoints ==
  LET later == EarlyPoints \ HeaderPoints IN
    /\ "map" \in later /\ "types" \in later /\ "names" \in later
    /\ "sortlist" \in later /\ "formats" \in later /\ "labelNames" \in later
    /\ "varLabels" \in later /\ "characteristics" \in later /\ "expansion" \in later
    /\ "map" \in ReadPoints /\ "types" \in ReadPoints /\ "names" \in ReadPoints
    /\ "sortlist" \in ReadPoints /\ "formats" \in ReadPoints
    /\ "labelNames" \in ReadPoints /\ "varLabels" \in ReadPoints
    /\ "expansion" \in ReadPoints
  BY Zenon DEF EarlyPoints, HeaderPoints, ReadPoints

LEMMA ParseMapStep == ASSUME OInv, ParseMap PROVE OInv'
<1>1. pc = "map" /\ pc' = "types" /\ Advance(0) /\ pc \in ReadPoints
      /\ UNCHANGED <<file, wantLabels, index, columns, labels, mapped, allocated>>
  BY LaterPoints DEF ParseMap, At, Unchanged
<1>2. PICK data \in Field("dataAt", Body + 72), texts \in Field("strlsAt", Body + 80),
           tables \in Field("labelsAt", Body + 88) :
        reader' = [reader EXCEPT !.dataOffset = (data + 6) % Mod64,
                                 !.strlsOffset = texts,
                                 !.labelsOffset = tables]
  BY DEF ParseMap, DataTag
<1>3. data \in 0 .. Mod64 - 1 /\ texts \in 0 .. Mod64 - 1 /\ tables \in 0 .. Mod64 - 1
  <2>1. "dataAt" \in Numbers /\ "strlsAt" \in Numbers /\ "labelsAt" \in Numbers
    BY DEF Numbers
  <2>2. /\ NumbersOf("dataAt") = 0 .. Mod64 - 1 /\ NumbersOf("strlsAt") = 0 .. Mod64 - 1
        /\ NumbersOf("labelsAt") = 0 .. Mod64 - 1
    BY DEF NumbersOf
  <2> HIDE DEF NumbersOf
  <2>3. file \in Files
    BY <1>1, ReadInFirst
  <2> QED
    BY <2>1, <2>2, <2>3, FieldType
<1>4. (data + 6) % Mod64 \in 0 .. Mod64 - 1
  <2>1. \A a \in Nat, b \in Nat \ {0} : a % b \in 0 .. b - 1
    BY SMT
  <2>2. data + 6 \in Nat /\ Mod64 \in Nat \ {0}
    BY <1>3, ModAssumption
  <2> QED
    BY <2>1, <2>2
<1>5. /\ ReaderInv' /\ reader'.k = reader.k /\ reader'.rowWidth = reader.rowWidth
  BY <1>1, <1>2, <1>3, <1>4, ReadInFirst DEF ReaderInv, ReaderFields
<1>6. pos' \in Nat
  BY <1>1, ReadInFirst, AdvanceType
<1> QED
  BY <1>1, <1>5, <1>6, LaterPoints, KeepsColumns

\* ParseSortlist and ParseFormats.
LEMMA SkipListStep == ASSUME OInv, SkipSortlist \/ ParseFormats PROVE OInv'
<1>1. PICK point \in {"sortlist", "formats"}, next \in {"formats", "labelNames"} :
        Skip(point, next)
  BY DEF SkipSortlist, ParseFormats
<1>2. pc = point /\ pc' = next /\ Advance(0)
      /\ UNCHANGED <<file, wantLabels, index, reader, columns, labels, mapped, allocated>>
  BY <1>1 DEF Skip, At, Unchanged
<1>3. pc \in EarlyPoints \ HeaderPoints /\ pc \in ReadPoints
      /\ pc' \in EarlyPoints \ HeaderPoints
  BY <1>2, LaterPoints
<1>4. ReaderInv'
  BY <1>2, <1>3, ReadInFirst DEF ReaderInv
<1>5. pos' \in Nat
  BY <1>2, <1>3, ReadInFirst, AdvanceType
<1> QED
  BY <1>2, <1>3, <1>4, <1>5, KeepsColumns

\* A list of the descriptors gives each column a field, or leaves some out.
LEMMA DescribeStep ==
  ASSUME OInv, NEW point \in {"types", "names", "labelNames", "varLabels"},
         NEW next \in (EarlyPoints \ HeaderPoints) \cup {"error"}, NEW described,
         Describe(point, next, described),
         IsList(described), Len(described) <= NumVars,
         \A i \in 1 .. Len(described) :
           DOMAIN described[i] = {"type", "name", "labelName"},
         next # "error" => \A i \in 1 .. Len(described) :
           described[i].type \in {0, Alias} \/ TypeWidth(described[i].type) > 0
  PROVE  OInv'
<1>1. pc = point /\ pc' = next /\ columns' = described /\ Advance(0)
      /\ UNCHANGED <<file, wantLabels, index, reader, labels, mapped, allocated>>
  BY DEF Describe, At, Unchanged
<1>2. pc \in EarlyPoints /\ pc \in ReadPoints
  BY <1>1, LaterPoints
<1>3. pc' \in Points /\ pc' \notin HeaderPoints /\ pc' \in EarlyPoints \cup {"width", "error"}
  BY <1>1, PointsOf, Zenon
<1>4. pos' \in Nat
  BY <1>1, <1>2, ReadInFirst, AdvanceType
<1>5. ReaderInv' /\ allocated' \in Nat /\ allocated' <= Larger(Size(file), MaxLength)
  BY <1>1, <1>2, ReadInFirst DEF ReaderInv
<1>6. ScalarsInv'
  BY <1>1, <1>3, <1>4, <1>5, ScalarsStep DEF OInv
<1>7. ColumnsInv'
  <2>1. IsList(columns') /\ NumVars' = Len(described)
    BY <1>1 DEF IsList, NumVars
  <2>2. NumVars' <= reader'.k
    <3>1. NumVars <= reader.k /\ NumVars \in Nat /\ reader.k \in Int /\ Len(described) \in Int
      BY ModAssumption DEF OInv, ColumnsInv, ScalarsInv, ReaderInv, IsList, NumVars
    <3> QED
      BY <1>1, <2>1, <3>1
  <2>3. \A i \in 1 .. NumVars' : DOMAIN columns'[i] = {"type", "name", "labelName"}
    BY <1>1, <2>1
  <2>4. pc' # "error" => \A i \in 1 .. NumVars' :
          columns'[i].type \in {0, Alias} \/ TypeWidth(columns'[i].type) > 0
    BY <1>1, <2>1
  <2> HIDE DEF NumVars
  <2> QED
    BY <1>3, <2>1, <2>2, <2>3, <2>4, Zenon DEF ColumnsInv
<1> QED
  BY <1>1, <1>2, <1>3, <1>6, <1>7, EarlyStep

LEMMA KnownTypesHaveWidth ==
  ASSUME NEW code \in KnownTypes PROVE code = Alias \/ TypeWidth(code) > 0
  BY DEF KnownTypes, TypeWidth, Alias, StrL, MaxStr

LEMMA ParseVariableTypesStep == ASSUME OInv, ParseVariableTypes PROVE OInv'
<1> DEFINE described(raw) ==
      [i \in 1 .. NumVars |-> [columns[i] EXCEPT !.type = TypeOf(raw[i])]]
    next(raw) ==
      IF \A i \in 1 .. NumVars : TypeOf(raw[i]) \in KnownTypes THEN "names" ELSE "error"
<1>1. PICK raw : Describe("types", next(raw), described(raw))
  BY Zenon DEF ParseVariableTypes
<1>2. /\ NumVars \in Nat
      /\ \A i \in 1 .. NumVars : DOMAIN columns[i] = {"type", "name", "labelName"}
  BY DEF OInv, ColumnsInv, IsList, NumVars
<1>3. IsList(described(raw)) /\ Len(described(raw)) = NumVars
  BY <1>2 DEF IsList
<1>4. \A i \in 1 .. NumVars : /\ DOMAIN described(raw)[i] = {"type", "name", "labelName"}
                              /\ described(raw)[i].type = TypeOf(raw[i])
  BY <1>2
<1>5. next(raw) # "error" => \A i \in 1 .. NumVars :
        described(raw)[i].type \in {0, Alias} \/ TypeWidth(described(raw)[i].type) > 0
  <2> HIDE DEF described
  <2> QED
    BY <1>4, KnownTypesHaveWidth
<1>6. next(raw) \in (EarlyPoints \ HeaderPoints) \cup {"error"}
  BY LaterPoints
<1> HIDE DEF described, next
<1> QED
  BY <1>1, <1>2, <1>3, <1>4, <1>5, <1>6, DescribeStep

\* Lists of strings keep the types: the names, and those of label tables.
LEMMA DescribeText ==
  ASSUME OInv, NEW point \in {"names", "labelNames"},
         NEW next \in EarlyPoints \ HeaderPoints, NEW described,
         Describe(point, next, described),
         IsList(described), Len(described) = NumVars,
         \A i \in 1 .. NumVars : /\ DOMAIN described[i] = {"type", "name", "labelName"}
                                 /\ described[i].type = columns[i].type
  PROVE  OInv'
<1>1. NumVars \in Nat
  BY DEF OInv, ColumnsInv, IsList, NumVars
<1>2. pc = point /\ pc # "error"
  BY DEF Describe, At
<1>3. \A i \in 1 .. NumVars :
        columns[i].type \in {0, Alias} \/ TypeWidth(columns[i].type) > 0
  BY <1>2 DEF OInv, ColumnsInv
<1>4. \A i \in 1 .. Len(described) :
        described[i].type \in {0, Alias} \/ TypeWidth(described[i].type) > 0
  BY <1>3
<1> QED
  BY <1>1, <1>4, DescribeStep

LEMMA ParseVarnamesStep == ASSUME OInv, ParseVarnames PROVE OInv'
<1> DEFINE described == [i \in 1 .. NumVars |->
      [columns[i] EXCEPT !.name = StringAt("name", Body + (i - 1) * P.name)]]
<1>1. /\ NumVars \in Nat
      /\ \A i \in 1 .. NumVars : DOMAIN columns[i] = {"type", "name", "labelName"}
  BY DEF OInv, ColumnsInv, IsList, NumVars
<1>2. IsList(described) /\ Len(described) = NumVars
  BY <1>1 DEF IsList
<1>3. \A i \in 1 .. NumVars : /\ DOMAIN described[i] = {"type", "name", "labelName"}
                              /\ described[i].type = columns[i].type
  BY <1>1
<1>4. Describe("names", "sortlist", described)
  BY Zenon DEF ParseVarnames
<1> HIDE DEF described
<1> QED
  BY <1>2, <1>3, <1>4, LaterPoints, DescribeText

LEMMA ParseValueLabelNamesStep == ASSUME OInv, ParseValueLabelNames PROVE OInv'
<1> DEFINE described == [i \in 1 .. NumVars |->
      [columns[i] EXCEPT !.labelName =
         StringAt("labelName", Body + (i - 1) * P.labelName)]]
<1>1. /\ NumVars \in Nat
      /\ \A i \in 1 .. NumVars : DOMAIN columns[i] = {"type", "name", "labelName"}
  BY DEF OInv, ColumnsInv, IsList, NumVars
<1>2. IsList(described) /\ Len(described) = NumVars
  BY <1>1 DEF IsList
<1>3. \A i \in 1 .. NumVars : /\ DOMAIN described[i] = {"type", "name", "labelName"}
                              /\ described[i].type = columns[i].type
  BY <1>1
<1>4. Describe("labelNames", "varLabels", described)
  BY Zenon DEF ParseValueLabelNames
<1> HIDE DEF described
<1> QED
  BY <1>2, <1>3, <1>4, LaterPoints, DescribeText

\* Aliases are left out of the columns, of which there are then no more.
LEMMA ParseVariableLabelsStep == ASSUME OInv, ParseVariableLabels PROVE OInv'
<1> DEFINE n == Cardinality(Kept)
           next == IF reader.modern THEN "characteristics" ELSE "expansion"
<1>1. PICK at \in [1 .. n -> Kept] :
        Describe("varLabels", next, [i \in 1 .. n |-> columns[at[i]]])
  BY Zenon DEF ParseVariableLabels
<1>2. /\ NumVars \in Nat
      /\ \A i \in 1 .. NumVars : DOMAIN columns[i] = {"type", "name", "labelName"}
  BY DEF OInv, ColumnsInv, IsList, NumVars
<1>3. n \in Nat /\ n <= NumVars
  <2>1. IsFiniteSet(1 .. NumVars) /\ Cardinality(1 .. NumVars) = NumVars
    BY <1>2, FS_Interval
  <2>2. Kept \subseteq 1 .. NumVars
    BY DEF Kept
  <2>3. IsFiniteSet(Kept) /\ Cardinality(Kept) <= Cardinality(1 .. NumVars)
    BY <2>1, <2>2, FS_Subset, Zenon
  <2> QED
    BY <2>1, <2>3, FS_CardinalityType
<1>4. \A i \in 1 .. n : at[i] \in 1 .. NumVars
  BY DEF Kept
<1>5. pc = "varLabels"
  BY <1>1 DEF Describe, At
<1>6. \A i \in 1 .. NumVars :
        columns[i].type \in {0, Alias} \/ TypeWidth(columns[i].type) > 0
  BY <1>5 DEF OInv, ColumnsInv
<1> HIDE DEF n
<1> DEFINE described == [i \in 1 .. n |-> columns[at[i]]]
<1>7. IsList(described) /\ Len(described) = n
  BY <1>3 DEF IsList
<1>8. \A i \in 1 .. n :
        /\ DOMAIN described[i] = {"type", "name", "labelName"}
        /\ described[i].type \in {0, Alias} \/ TypeWidth(described[i].type) > 0
  BY <1>2, <1>4, <1>6
<1>9. next \in (EarlyPoints \ HeaderPoints) \cup {"error"}
  BY LaterPoints
<1>10. Describe("varLabels", next, described)
  BY <1>1
<1> HIDE DEF described, next
<1> QED
  BY <1>3, <1>7, <1>8, <1>9, <1>10, DescribeStep

LEMMA SkipCharacteristicsStep == ASSUME OInv, SkipCharacteristics PROVE OInv'
<1>1. pc = "characteristics" /\ pc' = "width" /\ pos' = reader.dataOffset
      /\ UNCHANGED <<file, wantLabels, index, reader, columns, labels, mapped, allocated>>
  BY DEF SkipCharacteristics, Unchanged
<1>2. ReaderInv /\ pos' \in Nat
  BY <1>1, ModAssumption DEF OInv, ScalarsInv, ReaderInv
<1>3. ReaderInv'
  BY <1>1, <1>2 DEF ReaderInv
<1> QED
  BY <1>1, <1>2, <1>3, LaterPoints, KeepsColumns

LEMMA SkipExpansionFieldStep == ASSUME OInv, SkipExpansionField PROVE OInv'
<1>1. pc = "expansion" /\ Readable /\ pc \in ReadPoints
      /\ UNCHANGED <<file, wantLabels, index, columns, labels, mapped, allocated>>
  BY LaterPoints DEF SkipExpansionField, At, Unchanged
<1>2. /\ "expansion" \in Numbers /\ "expansionLength" \in Numbers
      /\ NumbersOf("expansionLength") = Nat
  BY DEF Numbers, NumbersOf
<1>3. PICK len \in Field("expansionLength", 1) :
        \/ /\ pc' = "width"
           /\ Advance(0)
           /\ reader' = [reader EXCEPT !.dataOffset = pos']
        \/ /\ Goto("expansion", len <= Size(file) - (pos + 5))
           /\ Advance(len)
           /\ UNCHANGED reader
  BY Zenon DEF SkipExpansionField
<1>4. len \in Nat
  BY <1>1, <1>2, ReadInFirst, FieldType
<1>5. CASE pc' = "width" /\ Advance(0) /\ reader' = [reader EXCEPT !.dataOffset = pos']
  <2>1. pos' \in 0 .. Mod64 - 1
    BY <1>1, <1>5, ReadInFirst, AdvanceType, ModAssumption
  <2>2. ReaderInv' /\ reader'.k = reader.k /\ reader'.rowWidth = reader.rowWidth
    BY <1>1, <1>5, <2>1, ReadInFirst DEF ReaderInv, ReaderFields
  <2>3. pos' \in Nat
    BY <2>1
  <2> QED
    BY <1>1, <1>5, <2>2, <2>3, LaterPoints, KeepsColumns
<1>6. CASE /\ Goto("expansion", len <= Size(file) - (pos + 5))
           /\ Advance(len)
           /\ UNCHANGED reader
  <2>1. pos' \in Nat
    BY <1>1, <1>4, <1>6, ReadInFirst, AdvanceType
  <2>2. pc' \in {"expansion", "error"}
    BY <1>6 DEF Goto
  <2>3. ReaderInv'
    BY <1>1, <1>6, ReadInFirst DEF ReaderInv
  <2> QED
    BY <1>1, <1>6, <2>1, <2>2, <2>3, LaterPoints, KeepsColumns
<1> QED
  BY <1>3, <1>5, <1>6

-----------------------------------------------------------------------------
(***************************************************************************)
(* The width of a row, and the check of the rows.                          *)
(***************************************************************************)
LEMMA WidthPoints ==
  /\ "width" \in Points /\ "bind" \in LatePoints /\ "bind" \in Points
  /\ "width" \notin EarlyPoints \cup HeaderPoints \cup LatePoints
  /\ "bind" \notin EarlyPoints \cup HeaderPoints
  /\ "error" \notin EarlyPoints \cup HeaderPoints \cup LatePoints
  BY Zenon DEF Points, EarlyPoints, HeaderPoints, LatePoints

\* Sums that go on with one more column.
LEMMA SumsExtend ==
  ASSUME NEW n \in Nat, NEW w, Sums(w, n)
  PROVE  LET more == [i \in 0 .. n + 1 |->
                        IF i = n + 1 THEN w[n] + TypeWidth(columns[n + 1].type)
                        ELSE w[i]]
         IN  Sums(more, n + 1)
<1> DEFINE t == TypeWidth(columns[n + 1].type)
           more == [i \in 0 .. n + 1 |-> IF i = n + 1 THEN w[n] + t ELSE w[i]]
<1>1. t \in Nat
  BY WidthType
<1>2. /\ w \in [0 .. n -> Nat] /\ w[0] = 0
      /\ \A i \in 1 .. n : w[i] = w[i - 1] + TypeWidth(columns[i].type)
      /\ \A i, j \in 0 .. n : i <= j => w[i] <= w[j]
  BY DEF Sums
<1>3. w[n] + TypeWidth(columns[n + 1].type) = w[n] + t
  OBVIOUS
<1> HIDE DEF t
<1>4. more \in [0 .. n + 1 -> Nat]
  BY <1>1, <1>2
<1>5. more[0] = 0 /\ more[n + 1] = w[n] + t /\ \A i \in 0 .. n : more[i] = w[i]
  BY <1>2
<1>6. \A i \in 1 .. n + 1 : more[i] = more[i - 1] + TypeWidth(columns[i].type)
  <2>1. ASSUME NEW i \in 1 .. n
        PROVE  more[i] = more[i - 1] + TypeWidth(columns[i].type)
    <3>1. i \in 0 .. n /\ i - 1 \in 0 .. n
      OBVIOUS
    <3> HIDE DEF more
    <3> QED
      BY <1>2, <1>5, <3>1
  <2>2. more[n + 1] = more[(n + 1) - 1] + TypeWidth(columns[n + 1].type)
    BY <1>3, <1>5
  <2> HIDE DEF more
  <2>3. \A i \in 1 .. n + 1 : i \in 1 .. n \/ i = n + 1
    OBVIOUS
  <2> QED
    BY <2>1, <2>2, <2>3
<1>7. \A i, j \in 0 .. n + 1 : i <= j => more[i] <= more[j]
  <2> HIDE DEF more
  <2>1. \A i \in 0 .. n : more[i] \in Nat /\ w[i] <= w[n] /\ more[i] = w[i] /\ w[n] \in Nat
    BY <1>2, <1>5
  <2>2. \A i \in 0 .. n : more[i] <= more[n + 1]
    BY <1>1, <1>5, <2>1
  <2>3. more[n + 1] <= more[n + 1]
    BY <1>1, <1>5, <2>1
  <2> TAKE i, j \in 0 .. n + 1
  <2>4. CASE j = n + 1
    BY <2>2, <2>3, <2>4
  <2>5. CASE j # n + 1
    BY <1>2, <1>5, <2>5
  <2> QED
    BY <2>4, <2>5
<1> HIDE DEF more
<1>8. Sums(more, n + 1)
  BY <1>4, <1>5, <1>6, <1>7 DEF Sums
<1> QED
  BY <1>8 DEF more, t

LEMMA AddWidthStep == ASSUME OInv, AddWidth PROVE OInv'
<1>1. pc = "width" /\ index <= NumVars /\ pc' = "width" /\ index' = index + 1
      /\ reader' = [reader EXCEPT !.rowWidth = @ + TypeWidth(columns[index].type)]
      /\ UNCHANGED <<file, wantLabels, pos, columns, labels, mapped, allocated>>
  BY DEF AddWidth, Unchanged
<1>2. ReaderInv /\ index \in 1 .. NumVars + 1 /\ NumVars \in Nat
  BY DEF OInv, ScalarsInv, IndexInv, ColumnsInv, IsList, NumVars
<1>3. ReaderInv' /\ reader'.k = reader.k
      /\ reader'.rowWidth = reader.rowWidth + TypeWidth(columns[index].type)
  <2>1. TypeWidth(columns[index].type) \in Nat
    BY WidthType
  <2> QED
    BY <1>1, <1>2, <2>1 DEF ReaderInv, ReaderFields
<1>4. ScalarsInv'
  BY <1>1, <1>3, WidthPoints, ScalarsStep DEF OInv, ScalarsInv, AllocationsFitFile
<1>5. ColumnsInv'
  BY <1>1, <1>3, WidthPoints, SameColumns DEF OInv
<1>6. TablesInv'
  BY <1>1 DEF OInv, TablesInv, IsList, NumVars
<1>7. IndexInv'
  <2>1. index' \in 1 .. NumVars' + 1
    BY <1>1, <1>2 DEF NumVars
  <2>2. Len(mapped') = 0
    BY <1>1 DEF OInv, IndexInv
  <2> QED
    BY <1>1, <2>1, <2>2, WidthPoints, Zenon DEF IndexInv
<1>8. WidthInv'
  <2>1. PICK w : Sums(w, index - 1) /\ reader.rowWidth = w[index - 1]
    BY <1>1 DEF OInv, WidthInv
  <2> DEFINE more == [i \in 0 .. index |->
                        IF i = index THEN w[index - 1] + TypeWidth(columns[index].type)
                        ELSE w[i]]
  <2>2. index - 1 \in Nat /\ (index - 1) + 1 = index /\ index' - 1 = index
    BY <1>1, <1>2
  <2>3. Sums(more, index)
    <3>1. LET n == index - 1 IN
          Sums([i \in 0 .. n + 1 |->
                  IF i = n + 1 THEN w[n] + TypeWidth(columns[n + 1].type) ELSE w[i]],
               n + 1)
      BY <2>1, <2>2, SumsExtend
    <3> QED
      BY <2>2, <3>1
  <2>4. reader'.rowWidth = more[index]
    BY <1>2, <1>3, <2>1
  <2> HIDE DEF more
  <2>5. PICK v, n : Sums(v, n) /\ n = index /\ reader'.rowWidth = v[n]
    BY <2>3, <2>4
  <2>6. Sums(v, n)'
    BY <1>1, <2>5 DEF Sums
  <2>7. Sums(v, index - 1)' /\ reader'.rowWidth = v[index' - 1]
    BY <2>2, <2>5, <2>6
  <2> QED
    BY <2>7 DEF WidthInv
<1>9. OffsetsInv'
  BY <1>1, WidthPoints DEF OffsetsInv
<1> QED
  BY <1>4, <1>5, <1>6, <1>7, <1>8, <1>9 DEF OInv

\* The rows that fit end in the file: the quotient is checked instead of the
\* product, which would wrap.
LEMMA RowsEnd ==
  ASSUME ReaderInv, file \in Files, RowsFit
  PROVE  /\ reader.dataOffset + reader.nObs * reader.rowWidth \in 0 .. Mod64 - 1
         /\ reader.dataOffset + reader.nObs * reader.rowWidth <= Size(file)
<1> DEFINE room == Size(file) - reader.dataOffset
           rows == reader.nObs * reader.rowWidth
<1>1. /\ reader.nObs \in Nat /\ reader.rowWidth \in Nat /\ reader.dataOffset \in Nat
      /\ Size(file) \in 0 .. Mod64 - 1
  BY SizeAssumption, ModAssumption DEF ReaderInv
<1>2. room \in Nat
  BY <1>1 DEF RowsFit
<1>3. rows \in Nat
  BY <1>1
<1>4. rows <= room
  <2>1. CASE reader.rowWidth = 0
    BY <1>1, <1>2, <2>1
  <2>2. CASE reader.rowWidth # 0
    <3>1. reader.nObs <= room \div reader.rowWidth
      BY <1>1, <2>2 DEF RowsFit
    <3> HIDE DEF room
    <3> QED
      BY <1>1, <1>2, <2>2, <3>1, QuotientBound
  <2> QED
    BY <2>1, <2>2
<1> HIDE DEF rows
<1>5. reader.dataOffset + rows \in 0 .. Mod64 - 1 /\ reader.dataOffset + rows <= Size(file)
  BY <1>1, <1>3, <1>4, ModAssumption
<1> QED
  BY <1>5 DEF rows

LEMMA CheckRowsStep == ASSUME OInv, CheckRows PROVE OInv'
<1>1. pc = "width" /\ index > NumVars /\ Goto("bind", RowsFit)
      /\ UNCHANGED <<file, wantLabels, pos, index, columns, labels, mapped, allocated>>
  BY DEF CheckRows, Unchanged
<1>2. ReaderInv /\ index \in 1 .. NumVars + 1 /\ NumVars \in Nat /\ index = NumVars + 1
  BY <1>1 DEF OInv, ScalarsInv, IndexInv, ColumnsInv, IsList, NumVars
<1>3. /\ ReaderInv' /\ reader'.k = reader.k /\ reader'.rowWidth = reader.rowWidth
      /\ reader'.nObs = reader.nObs /\ reader'.dataOffset = reader.dataOffset
  <2>1. CASE Mapped \/ ~RowsFit
    BY <1>2, <2>1 DEF CheckRows, ReaderInv
  <2>2. CASE ~(Mapped \/ ~RowsFit)
    <3>1. reader' = [reader EXCEPT !.labelsOffset =
                       reader.dataOffset + reader.nObs * reader.rowWidth]
      BY <2>2 DEF CheckRows
    <3>2. reader.dataOffset + reader.nObs * reader.rowWidth \in 0 .. Mod64 - 1
      BY <1>2, <2>2, RowsEnd DEF OInv, ScalarsInv
    <3> DEFINE end == reader.dataOffset + reader.nObs * reader.rowWidth
    <3>3. reader' = [reader EXCEPT !.labelsOffset = end] /\ end \in 0 .. Mod64 - 1
      BY <3>1, <3>2
    <3> HIDE DEF end
    <3> QED
      BY <1>2, <3>3 DEF ReaderInv, ReaderFields
  <2> QED
    BY <2>1, <2>2
<1>4. pc' \in {"bind", "error"}
  BY <1>1 DEF Goto
<1>5. ScalarsInv'
  <2>1. pc' \in Points
    BY <1>4, WidthPoints, PointsOf
  <2>2. /\ ScalarsInv /\ pos' \in Nat
        /\ allocated' \in Nat /\ allocated' <= Larger(Size(file), MaxLength)
    BY <1>1 DEF OInv, ScalarsInv, AllocationsFitFile
  <2> QED
    BY <1>1, <1>3, <2>1, <2>2, ScalarsStep
<1>6. ColumnsInv'
  BY <1>1, <1>3, <1>4, WidthPoints, SameColumns DEF OInv
<1>7. TablesInv'
  BY <1>1 DEF OInv, TablesInv, IsList, NumVars
<1>8. IndexInv'
  <2>1. index' \in 1 .. NumVars' + 1 /\ Len(mapped') = 0
    BY <1>1, <1>2 DEF OInv, IndexInv, NumVars
  <2>2. pc' \notin EarlyPoints /\ pc' \notin LatePoints \ {"bind"} /\ pc' # "bound"
    BY <1>4, WidthPoints
  <2> QED
    BY <2>1, <2>2, Zenon DEF IndexInv
<1>9. WidthInv'
  BY <1>4 DEF WidthInv
<1>10. OffsetsInv'
  <2>1. ASSUME RowsFit PROVE OffsetsInv'
    <3>1. RowsFit'
      BY <1>1, <1>3, <2>1 DEF RowsFit
    <3>2. PICK w : Sums(w, NumVars) /\ reader.rowWidth = w[NumVars]
      <4>1. index - 1 = NumVars
        BY <1>2
      <4> QED
        BY <1>1, <4>1 DEF OInv, WidthInv
    <3>3. Sums(w, NumVars)' /\ reader'.rowWidth = w[NumVars']
      BY <1>1, <1>3, <3>2 DEF Sums, NumVars
    <3>4. Len(mapped') = 0
      BY <1>1 DEF OInv, IndexInv
    <3>5. \A i \in 1 .. Len(mapped') : mapped'[i].offset = w[i - 1]
      BY <3>4
    <3> HIDE DEF NumVars
    <3> QED
      BY <3>1, <3>3, <3>5 DEF OffsetsInv
  <2>2. ASSUME ~RowsFit PROVE OffsetsInv'
    BY <1>1, <2>2, WidthPoints DEF Goto, OffsetsInv
  <2> QED
    BY <2>1, <2>2
<1> QED
  BY <1>5, <1>6, <1>7, <1>8, <1>9, <1>10 DEF OInv

-----------------------------------------------------------------------------
(***************************************************************************)
(* The bind and the loaders of label tables and strLs.                     *)
(***************************************************************************)
LEMMA LatePointsOf ==
  LET late == LatePoints \ {"bind", "bound"} IN
    /\ "labels" \in late /\ "nextTable" \in late /\ "table" \in late
    /\ "tableEnd" \in late /\ "seekStrLs" \in late /\ "strls" \in late
    /\ "nextStrL" \in late /\ "strl" \in late /\ "columns" \in late
    /\ "labels" \in ReadPoints /\ "table" \in ReadPoints /\ "tableEnd" \in ReadPoints
    /\ "strls" \in ReadPoints /\ "strl" \in ReadPoints
  BY Zenon DEF LatePoints, ReadPoints

\* A step of a loader, which goes on or throws.
LEMMA LoadStep ==
  ASSUME OInv, pc \in LatePoints \ {"bind", "bound"},
         pc' \in (LatePoints \ {"bind", "bound"}) \cup {"error"},
         pos' \in Nat, allocated' \in Nat, allocated' <= Larger(Size(file), MaxLength),
         UNCHANGED <<file, wantLabels, index, reader, columns, mapped>>,
         IsList(labels'), Len(labels) <= Len(labels')
  PROVE  OInv'
<1>1. pc' \in Points
  BY PointsOf
<1>2. ReaderInv'
  BY DEF OInv, ScalarsInv, ReaderInv
<1>3. ScalarsInv'
  BY <1>1, <1>2, ScalarsStep DEF OInv
<1>4. CASE pc' = "error"
  BY <1>3, <1>4, ErrorStep
<1>5. CASE pc' # "error"
  <2>1. index' \in 1 .. NumVars + 1 /\ Len(mapped) = index' - 1
    BY DEF OInv, IndexInv
  <2> QED
    BY <1>3, <1>5, <2>1, LateStep
<1> QED
  BY <1>4, <1>5

\* ... and that keeps the tables and what was allocated.
LEMMA KeepsTables ==
  ASSUME OInv, pc \in LatePoints \ {"bind", "bound"},
         pc' \in (LatePoints \ {"bind", "bound"}) \cup {"error"}, pos' \in Nat,
         UNCHANGED <<file, wantLabels, index, reader, columns, labels, mapped, allocated>>
  PROVE  OInv'
<1>1. /\ allocated' \in Nat /\ allocated' <= Larger(Size(file), MaxLength)
      /\ IsList(labels') /\ Len(labels) <= Len(labels')
  BY DEF OInv, ScalarsInv, TablesInv, IsList, AllocationsFitFile
<1> QED
  BY <1>1, LoadStep

\* LoadValueLabels and LoadStrLs begin with a tag, and a table ends with one.
LEMMA SkipsInLoaders ==
  ASSUME OInv, LoadValueLabels \/ EndLabelTable \/ LoadStrLs
  PROVE  OInv'
<1>1. PICK point \in {"labels", "tableEnd", "strls"}, next \in {"nextTable", "nextStrL"} :
        Skip(point, next)
  BY DEF LoadValueLabels, EndLabelTable, LoadStrLs
<1>2. pc = point /\ pc' = next /\ Advance(0)
      /\ UNCHANGED <<file, wantLabels, index, reader, columns, labels, mapped, allocated>>
  BY <1>1 DEF Skip, At, Unchanged
<1>3. pc \in LatePoints \ {"bind", "bound"} /\ pc \in ReadPoints
      /\ pc' \in LatePoints \ {"bind", "bound"}
  BY <1>2, LatePointsOf
<1>4. pos' \in Nat
  BY <1>2, <1>3, ReadInFirst, AdvanceType
<1> QED
  BY <1>2, <1>3, <1>4, KeepsTables

LEMMA NextItemStep ==
  ASSUME OInv, NEW point \in {"nextTable", "nextStrL"}, NEW width \in Nat,
         NEW open, NEW item \in {"table", "strl"}, NEW close,
         NEW after \in {"seekStrLs", "columns"},
         NextItem(point, width, open, item, close, after)
  PROVE  OInv'
<1>1. pc = point /\ pc' \in {after, item, "error"} /\ pos' \in {pos, pos + width}
      /\ UNCHANGED <<file, wantLabels, index, reader, columns, labels, mapped, allocated>>
  BY DEF NextItem, CutOff, Goto, Unchanged
<1>2. pos' \in Nat
  BY <1>1 DEF OInv, ScalarsInv
<1>3. pc \in LatePoints \ {"bind", "bound"}
      /\ pc' \in (LatePoints \ {"bind", "bound"}) \cup {"error"}
  BY <1>1, LatePointsOf
<1> QED
  BY <1>1, <1>2, <1>3, KeepsTables

LEMMA NextSteps == ASSUME OInv, NextLabelTable \/ NextStrL PROVE OInv'
<1>1. AfterLabels \in {"seekStrLs", "columns"}
  BY DEF AfterLabels
<1>2. CASE NextLabelTable
  <2>1. \/ NextItem("nextTable", 5, "<lbl>", "table", "</value_labels>", AfterLabels)
        \/ NextItem("nextTable", 4, "", "table", "", AfterLabels)
    BY <1>2 DEF NextLabelTable
  <2> QED
    BY <1>1, <2>1, NextItemStep
<1>3. CASE NextStrL
  <2>1. NextItem("nextStrL", 3, "GSO", "strl", "</strls>", "columns")
    BY <1>3 DEF NextStrL
  <2> QED
    BY <2>1, NextItemStep
<1> QED
  BY <1>2, <1>3

LEMMA SeekStrLsStep == ASSUME OInv, SeekStrLs PROVE OInv'
<1>1. pc = "seekStrLs" /\ pc' = "strls" /\ pos' = reader.strlsOffset
      /\ UNCHANGED <<file, wantLabels, index, reader, columns, labels, mapped, allocated>>
  BY DEF SeekStrLs, Unchanged
<1>2. pos' \in Nat
  BY <1>1, ModAssumption DEF OInv, ScalarsInv, ReaderInv
<1> QED
  BY <1>1, <1>2, LatePointsOf, KeepsTables

\* What is read of a table fits what remains of the file, and so does a strL.
LEMMA ReadLabelTableStep == ASSUME OInv, ReadLabelTable PROVE OInv'
<1>1. pc = "table" /\ Readable /\ pc \in ReadPoints
      /\ UNCHANGED <<file, wantLabels, index, reader, columns, mapped>>
  BY LatePointsOf DEF ReadLabelTable, At, Unchanged
<1>2. PICK n \in Field("n", LabelTableHead), txtlen \in Field("txtlen", LabelTableHead + 4) :
        LET room == Remaining - (LabelTableHead + 8) IN
          /\ Goto("tableEnd", LabelTableFits(n, txtlen, room))
          /\ Advance(8 * n + txtlen)
          /\ IF LabelTableFits(n, txtlen, room)
             THEN /\ labels' = Append(labels,
                       [name |-> StringAt("labelName", LabelTableHead - P.labelName - 3),
                        n |-> n, txtlen |-> txtlen,
                        body |-> StringAt("labels", LabelTableHead + 8)])
                  /\ allocated' = Larger(allocated, 8 * n + txtlen)
             ELSE UNCHANGED <<labels, allocated>>
  BY DEF ReadLabelTable
<1> DEFINE room == Remaining - (LabelTableHead + 8)
           fits == LabelTableFits(n, txtlen, room)
<1>3. n \in Nat /\ txtlen \in Nat /\ 8 * n + txtlen \in Nat
  <2>1. /\ "n" \in Numbers /\ "txtlen" \in Numbers
        /\ NumbersOf("n") = Nat /\ NumbersOf("txtlen") = Nat
    BY DEF Numbers, NumbersOf
  <2>2. n \in Nat /\ txtlen \in Nat
    BY <1>1, <2>1, ReadInFirst, FieldType
  <2> QED
    BY <2>2
<1>4. pos' \in Nat
  BY <1>1, <1>2, <1>3, ReadInFirst, AdvanceType
<1>5. pc' \in {"tableEnd", "error"}
  BY <1>2 DEF Goto
<1>6. room \in Int /\ (fits => 8 * n + txtlen <= room)
  <2>1. LabelTableHead + 8 \in Nat /\ Remaining \in Nat
    BY <1>1, ParamsType, ReadInFirst DEF LabelTableHead, Remaining
  <2>2. room \in Int
    BY <2>1
  <2> HIDE DEF room
  <2> QED
    BY <1>3, <2>2 DEF LabelTableFits
<1>7. fits => /\ Larger(allocated, 8 * n + txtlen) \in Nat
              /\ Larger(allocated, 8 * n + txtlen) <= Larger(Size(file), MaxLength)
  <2>1. 8 * n + txtlen <= Size(file) \/ ~fits
    BY <1>1, <1>3, <1>6, ParamsType, ReadInFirst DEF Remaining, LabelTableHead
  <2> DEFINE m == 8 * n + txtlen
  <2>2. m \in Nat
    BY <1>3
  <2> HIDE DEF m
  <2> QED
    BY <1>1, <2>1, <2>2, ReadInFirst, MaxLengthType DEF Larger, m
<1>8. allocated' \in Nat /\ allocated' <= Larger(Size(file), MaxLength)
  <2>1. CASE fits
    BY <1>2, <1>7, <2>1
  <2>2. CASE ~fits
    BY <1>1, <1>2, <2>2, ReadInFirst
  <2> QED
    BY <2>1, <2>2
<1>9. IsList(labels') /\ Len(labels) <= Len(labels')
  <2>1. IsList(labels)
    BY DEF OInv, TablesInv
  <2>2. labels' = labels \/ \E table : labels' = Append(labels, table)
    BY <1>2
  <2> QED
    BY <2>1, <2>2 DEF IsList
<1> QED
  BY <1>1, <1>4, <1>5, <1>8, <1>9, LatePointsOf, LoadStep

LEMMA ReadStrLStep == ASSUME OInv, ReadStrL PROVE OInv'
<1>1. pc = "strl" /\ Readable /\ pc \in ReadPoints
      /\ UNCHANGED <<file, wantLabels, index, reader, columns, labels, mapped>>
  BY LatePointsOf DEF ReadStrL, At, Unchanged
<1>2. PICK len \in Field("strlLength", StrLHead - 4) :
        LET fits == StrLFits(len, Remaining - StrLHead) IN
          /\ Goto("nextStrL", fits)
          /\ Advance(len)
          /\ allocated' = IF fits THEN Larger(allocated, len) ELSE allocated
  BY DEF ReadStrL
<1>3. len \in Nat
  <2>1. "strlLength" \in Numbers /\ NumbersOf("strlLength") = Nat
    BY DEF Numbers, NumbersOf
  <2> QED
    BY <1>1, <2>1, ReadInFirst, FieldType
<1>4. pos' \in Nat
  BY <1>1, <1>2, <1>3, ReadInFirst, AdvanceType
<1>5. pc' \in {"nextStrL", "error"}
  BY <1>2 DEF Goto
<1>6. StrLFits(len, Remaining - StrLHead) => len <= Size(file)
  <2>1. StrLHead \in Nat /\ Remaining \in Nat /\ Remaining <= Size(file)
    BY <1>1, ReadInFirst DEF StrLHead, Remaining
  <2> QED
    BY <1>1, <1>3, <2>1, ReadInFirst DEF StrLFits
<1>7. allocated' \in Nat /\ allocated' <= Larger(Size(file), MaxLength)
  BY <1>1, <1>2, <1>3, <1>6, ReadInFirst, MaxLengthType DEF Larger
<1>8. IsList(labels') /\ Len(labels) <= Len(labels')
  BY <1>1 DEF OInv, TablesInv, IsList
<1> QED
  BY <1>1, <1>4, <1>5, <1>7, <1>8, LatePointsOf, LoadStep

LEMMA ReadDtaBindStep == ASSUME OInv, ReadDtaBind PROVE OInv'
<1>1. pc = "bind" /\ index' = 1 /\ pos' \in {pos, reader.labelsOffset}
      /\ pc' \in {"labels", "seekStrLs", "columns"}
      /\ UNCHANGED <<file, wantLabels, reader, columns, labels, mapped, allocated>>
  BY DEF ReadDtaBind, AfterLabels, Unchanged
<1>2. pc \in LatePoints /\ pc' \in LatePoints \ {"bind", "bound"} /\ pc' \in Points
  BY <1>1, WidthPoints, LatePointsOf, PointsOf
<1>3. /\ ReaderInv' /\ pos' \in Nat
      /\ allocated' \in Nat /\ allocated' <= Larger(Size(file), MaxLength)
  BY <1>1, ModAssumption DEF OInv, ScalarsInv, ReaderInv, AllocationsFitFile
<1>4. ScalarsInv'
  BY <1>1, <1>2, <1>3, ScalarsStep DEF OInv
<1>5. index' \in 1 .. NumVars + 1 /\ Len(mapped) = index' - 1
  BY <1>1 DEF OInv, IndexInv, ColumnsInv, IsList, NumVars
<1>6. IsList(labels') /\ Len(labels) <= Len(labels')
  BY <1>1 DEF OInv, TablesInv, IsList
<1> QED
  BY <1>1, <1>2, <1>4, <1>5, <1>6, LateStep

\* The table of a column is one that was read, or none.
LEMMA TableOfType ==
  ASSUME IsList(labels), NEW column PROVE TableOf(column) \in 0 .. Len(labels)
<1> DEFINE name == column.labelName
<1> HIDE DEF name
<1> DEFINE named == {i \in DOMAIN labels : labels[i].name = name}
<1>1. CASE name = "" \/ named = {}
  <2>1. TableIn(labels, name) = 0
    BY <1>1, Zenon DEF TableIn, NoTable
  <2>2. 0 \in 0 .. Len(labels)
    BY DEF IsList
  <2> QED
    BY <2>1, <2>2 DEF TableOf, NoTable, name
<1>2. CASE ~(name = "" \/ named = {})
  <2>1. named \subseteq Nat /\ named \subseteq 1 .. Len(labels)
    BY DEF IsList
  <2>2. \E i \in named : \A j \in named : i <= j
    BY <1>2, <2>1, LeastExists
  <2>3. TableIn(labels, name) = CHOOSE i \in named : \A j \in named : i <= j
    BY <1>2 DEF TableIn
  <2>4. TableIn(labels, name) \in named
    BY <2>2, <2>3
  <2> QED
    BY <2>1, <2>4 DEF IsList, TableOf, NoTable, name
<1> QED
  BY <1>1, <1>2

\* The next column begins where the sum of the widths before it ends.
LEMMA MapColumnStep == ASSUME OInv, MapColumn PROVE OInv'
<1>1. pc = "columns" /\ index <= NumVars /\ index' = index + 1
      /\ UNCHANGED <<file, wantLabels, pc, pos, reader, columns, labels, allocated>>
  BY DEF MapColumn, Unchanged
<1>2. PICK table : /\ mapped' = Append(mapped, [offset |-> ColumnOffset, table |-> table])
                   /\ table = TableOf(columns[index])
  BY DEF MapColumn
<1>3. /\ NumVars \in Nat /\ index \in 1 .. NumVars + 1
      /\ IsList(mapped) /\ IsList(labels) /\ Len(mapped) = index - 1
  BY <1>1, LatePointsOf DEF OInv, ColumnsInv, TablesInv, IndexInv, IsList, NumVars
<1>4. table \in 0 .. Len(labels)
  BY <1>2, <1>3, TableOfType
<1>5. PICK w : /\ Sums(w, NumVars)
               /\ reader.rowWidth = w[NumVars]
               /\ \A i \in 1 .. Len(mapped) : mapped[i].offset = w[i - 1]
  BY <1>1, LatePointsOf DEF OInv, OffsetsInv
<1>6. ColumnOffset = w[index - 1] /\ w[index - 1] \in Nat
  <2>1. w \in [0 .. NumVars -> Nat] /\ w[0] = 0
        /\ \A i \in 1 .. NumVars : w[i] = w[i - 1] + TypeWidth(columns[i].type)
    BY <1>5 DEF Sums
  <2>2. index - 1 \in 0 .. NumVars
    BY <1>1, <1>3
  <2>3. CASE index = 1
    BY <2>1, <2>2, <2>3 DEF ColumnOffset
  <2>4. CASE index # 1
    <3>1. index - 1 \in 1 .. Len(mapped) /\ index - 1 \in 1 .. NumVars
      BY <1>1, <1>3, <2>4
    <3>2. mapped[index - 1].offset = w[(index - 1) - 1]
      BY <1>5, <3>1
    <3>3. w[index - 1] = w[(index - 1) - 1] + TypeWidth(columns[index - 1].type)
      BY <2>1, <3>1
    <3> QED
      BY <2>1, <2>2, <2>4, <3>2, <3>3 DEF ColumnOffset
  <2> QED
    BY <2>3, <2>4
<1>7. /\ IsList(mapped') /\ Len(mapped') = index
      /\ mapped'[index].offset = w[index - 1] /\ mapped'[index].table = table
      /\ \A i \in 1 .. Len(mapped) : mapped'[i] = mapped[i]
  BY <1>2, <1>3, <1>6 DEF IsList
<1>8. ScalarsInv'
  <2>1. ScalarsInv /\ ReaderInv
    BY DEF OInv, ScalarsInv
  <2>2. ReaderInv'
    BY <1>1, <2>1 DEF ReaderInv
  <2>3. pc' \in Points /\ pos' \in Nat /\ allocated' \in Nat
        /\ allocated' <= Larger(Size(file), MaxLength)
    BY <1>1, <2>1 DEF ScalarsInv, AllocationsFitFile
  <2> QED
    BY <1>1, <2>1, <2>2, <2>3, ScalarsStep
<1>9. ColumnsInv'
  BY <1>1, LatePointsOf, SameColumns, WidthPoints DEF OInv
<1>10. \A i \in 1 .. Len(mapped') : i \in 1 .. Len(mapped) \/ i = index
  BY <1>3, <1>7
<1>11. TablesInv'
  <2>1. IsList(labels') /\ IsList(mapped') /\ Len(mapped') <= NumVars'
    BY <1>1, <1>3, <1>7 DEF IsList, NumVars
  <2>2. \A i \in 1 .. Len(mapped) :
          mapped[i].offset \in Nat /\ mapped[i].table \in 0 .. Len(labels)
    BY DEF OInv, TablesInv
  <2>3. \A i \in 1 .. Len(mapped') :
          mapped'[i].offset \in Nat /\ mapped'[i].table \in 0 .. Len(labels')
    BY <1>1, <1>4, <1>6, <1>7, <1>10, <2>2
  <2> QED
    BY <2>1, <2>3, Zenon DEF TablesInv
<1>12. IndexInv'
  <2>1. index' \in 1 .. NumVars' + 1 /\ Len(mapped') = index' - 1
    BY <1>1, <1>3, <1>7 DEF NumVars
  <2>2. pc' \notin EarlyPoints \cup {"width", "bind"} /\ pc' # "bound"
    BY <1>1 DEF EarlyPoints, HeaderPoints
  <2> QED
    BY <2>1, <2>2, Zenon DEF IndexInv
<1>13. WidthInv'
  BY <1>1 DEF WidthInv
<1>14. OffsetsInv'
  <2>1. RowsFit'
    BY <1>1, LatePointsOf DEF OInv, OffsetsInv, RowsFit
  <2>2. Sums(w, NumVars)' /\ reader'.rowWidth = w[NumVars']
    BY <1>1, <1>5 DEF Sums, NumVars
  <2>3. \A i \in 1 .. Len(mapped') : mapped'[i].offset = w[i - 1]
    BY <1>5, <1>7, <1>10
  <2> HIDE DEF NumVars
  <2> QED
    BY <2>1, <2>2, <2>3 DEF OffsetsInv
<1> QED
  BY <1>8, <1>9, <1>11, <1>12, <1>13, <1>14 DEF OInv

LEMMA BindReturnsStep == ASSUME OInv, BindReturns PROVE OInv'
<1>1. pc = "columns" /\ index > NumVars /\ pc' = "bound"
      /\ UNCHANGED <<file, wantLabels, pos, index, reader, columns, labels, mapped,
                     allocated>>
  BY DEF BindReturns, Unchanged
<1>2. /\ pc \in LatePoints \ {"bind"} /\ pc' \in LatePoints /\ pc' \in Points
      /\ pc' \notin EarlyPoints \cup {"width", "bind"} /\ pc' \notin HeaderPoints
  BY <1>1, LatePointsOf DEF LatePoints, EarlyPoints, HeaderPoints, Points
<1>3. ScalarsInv'
  <2>1. ScalarsInv /\ ReaderInv
    BY DEF OInv, ScalarsInv
  <2>2. ReaderInv'
    BY <1>1, <2>1 DEF ReaderInv
  <2>3. pos' \in Nat /\ allocated' \in Nat /\ allocated' <= Larger(Size(file), MaxLength)
    BY <1>1, <2>1 DEF ScalarsInv, AllocationsFitFile
  <2> QED
    BY <1>1, <1>2, <2>1, <2>2, <2>3, ScalarsStep
<1>4. ColumnsInv'
  BY <1>1, <1>2, SameColumns DEF OInv
<1>5. TablesInv'
  BY <1>1 DEF OInv, TablesInv, IsList, NumVars
<1>6. IndexInv'
  <2>1. index \in 1 .. NumVars + 1 /\ NumVars \in Nat /\ Len(mapped) = index - 1
    BY <1>2 DEF OInv, IndexInv, ColumnsInv, IsList, NumVars
  <2>2. /\ index' \in 1 .. NumVars' + 1 /\ Len(mapped') = index' - 1
        /\ index' = NumVars' + 1
    BY <1>1, <2>1 DEF NumVars
  <2> QED
    BY <1>2, <2>2, Zenon DEF IndexInv
<1>7. WidthInv'
  BY <1>1 DEF WidthInv
<1>8. OffsetsInv'
  <2>1. RowsFit'
    BY <1>1, <1>2 DEF OInv, OffsetsInv, RowsFit
  <2>2. PICK w : /\ Sums(w, NumVars)
                 /\ reader.rowWidth = w[NumVars]
                 /\ \A i \in 1 .. Len(mapped) : mapped[i].offset = w[i - 1]
    BY <1>2 DEF OInv, OffsetsInv
  <2>3. /\ Sums(w, NumVars)' /\ reader'.rowWidth = w[NumVars']
        /\ \A i \in 1 .. Len(mapped') : mapped'[i].offset = w[i - 1]
    BY <1>1, <2>2 DEF Sums, NumVars
  <2> HIDE DEF NumVars
  <2> QED
    BY <2>1, <2>3 DEF OffsetsInv
<1> QED
  BY <1>3, <1>4, <1>5, <1>6, <1>7, <1>8 DEF OInv

-----------------------------------------------------------------------------
(***************************************************************************)
(* The invariant, and what follows from it.                                *)
(***************************************************************************)
LEMMA ThrowsStep == ASSUME OInv, ReadFails \/ EnumThrows PROVE OInv'
<1>1. pc' = "error"
      /\ UNCHANGED <<file, wantLabels, pos, index, reader, columns, labels, mapped,
                     allocated>>
  BY DEF ReadFails, EnumThrows, Unchanged
<1>2. ScalarsInv /\ ReaderInv
  BY DEF OInv, ScalarsInv
<1>3. ReaderInv'
  BY <1>1, <1>2 DEF ReaderInv
<1>4. pc' \in Points /\ pos' \in Nat /\ allocated' \in Nat
      /\ allocated' <= Larger(Size(file), MaxLength)
  BY <1>1, <1>2, PointsOf DEF ScalarsInv, AllocationsFitFile
<1>5. ScalarsInv'
  BY <1>1, <1>2, <1>3, <1>4, ScalarsStep
<1>6. IsList(labels') /\ Len(labels) <= Len(labels')
  BY <1>1 DEF OInv, TablesInv, IsList
<1> QED
  BY <1>1, <1>5, <1>6, ErrorStep

LEMMA OverStep == ASSUME OInv, UNCHANGED vars PROVE OInv'
<1>1. UNCHANGED <<file, wantLabels, pc, pos, index, reader, columns, labels, mapped,
                  allocated>>
  BY DEF vars
<1>2. ScalarsInv' /\ ColumnsInv' /\ TablesInv' /\ IndexInv'
  <2>1. ScalarsInv'
    BY <1>1 DEF OInv, ScalarsInv, ReaderInv, AllocationsFitFile
  <2>2. ColumnsInv'
    BY <1>1 DEF OInv, ColumnsInv, IsList, NumVars
  <2>3. TablesInv'
    BY <1>1 DEF OInv, TablesInv, IsList, NumVars
  <2>4. NumVars' = NumVars
    BY <1>1 DEF NumVars
  <2>5. IndexInv'
    BY <1>1, <2>4 DEF OInv, IndexInv
  <2> QED
    BY <2>1, <2>2, <2>3, <2>5
<1>3. ASSUME NEW w, NEW n, Sums(w, n) PROVE Sums(w, n)'
  BY <1>1, <1>3 DEF Sums
<1>4. WidthInv'
  <2>1. SUFFICES ASSUME pc = "width" PROVE WidthInv'
    BY <1>1 DEF WidthInv
  <2>2. PICK w, n : Sums(w, n) /\ n = index - 1 /\ reader.rowWidth = w[n]
    BY <2>1 DEF OInv, WidthInv
  <2>3. Sums(w, index - 1)' /\ reader'.rowWidth = w[index' - 1]
    BY <1>1, <1>3, <2>2
  <2> QED
    BY <2>3 DEF WidthInv
<1>5. OffsetsInv'
  <2>1. SUFFICES ASSUME pc \in LatePoints PROVE OffsetsInv'
    BY <1>1 DEF OffsetsInv
  <2>2. RowsFit'
    BY <1>1, <2>1 DEF OInv, OffsetsInv, RowsFit
  <2>3. PICK w, n : /\ Sums(w, n) /\ n = NumVars
                    /\ reader.rowWidth = w[n]
                    /\ \A i \in 1 .. Len(mapped) : mapped[i].offset = w[i - 1]
    BY <2>1 DEF OInv, OffsetsInv
  <2>4. /\ Sums(w, NumVars)' /\ reader'.rowWidth = w[NumVars']
        /\ \A i \in 1 .. Len(mapped') : mapped'[i].offset = w[i - 1]
    BY <1>1, <1>3, <2>3 DEF NumVars
  <2> HIDE DEF NumVars
  <2> QED
    BY <2>2, <2>4 DEF OffsetsInv
<1> QED
  BY <1>2, <1>4, <1>5 DEF OInv

LEMMA InitOInv == Init => OInv
<1> SUFFICES ASSUME Init PROVE OInv
  OBVIOUS
<1>1. "first" \in HeaderPoints /\ "first" \in EarlyPoints /\ "first" \in Points
  BY PointsOf DEF HeaderPoints
<1>2. ReaderInv
  BY MaxLengthType, ModAssumption DEF Init, ReaderInv, ReaderFields
<1>3. ScalarsInv
  BY <1>1, <1>2, MaxLengthType, SizeAssumption DEF Init, ScalarsInv, AllocationsFitFile, Larger
<1>4. ColumnsInv
  BY <1>2, ModAssumption DEF Init, ColumnsInv, ReaderInv, IsList, NumVars
<1>5. TablesInv
  BY DEF Init, TablesInv, IsList, NumVars
<1>6. IndexInv
  BY DEF Init, IndexInv, NumVars, LatePoints
<1>7. WidthInv /\ OffsetsInv
  BY DEF Init, WidthInv, OffsetsInv, LatePoints
<1> QED
  BY <1>3, <1>4, <1>5, <1>6, <1>7 DEF OInv

LEMMA NextOInv == OInv /\ [Next]_vars => OInv'
<1> SUFFICES ASSUME OInv, [Next]_vars PROVE OInv'
  OBVIOUS
<1>1. CASE ReadFirstByte
  BY <1>1, FirstByteStep
<1>2. CASE ParseHeader
  BY <1>2, ParseHeaderStep, EndHeaderStep DEF ParseHeader
<1>3. CASE ParseMap
  BY <1>3, ParseMapStep
<1>4. CASE ParseLegacyHeader
  BY <1>4, ParseLegacyHeaderStep
<1>5. CASE ParseDescriptors
  BY <1>5, ParseVariableTypesStep, ParseVarnamesStep, SkipListStep,
     ParseValueLabelNamesStep, ParseVariableLabelsStep DEF ParseDescriptors
<1>6. CASE SkipCharacteristics
  BY <1>6, SkipCharacteristicsStep
<1>7. CASE SkipExpansionField
  BY <1>7, SkipExpansionFieldStep
<1>8. CASE AddWidth
  BY <1>8, AddWidthStep
<1>9. CASE CheckRows
  BY <1>9, CheckRowsStep
<1>10. CASE ReadDtaBind
  BY <1>10, ReadDtaBindStep
<1>11. CASE LoadTables
  BY <1>11, SkipsInLoaders, NextSteps, SeekStrLsStep, ReadLabelTableStep, ReadStrLStep
     DEF LoadTables
<1>12. CASE MapColumn
  BY <1>12, MapColumnStep
<1>13. CASE BindReturns
  BY <1>13, BindReturnsStep
<1>14. CASE ReadFails \/ EnumThrows
  BY <1>14, ThrowsStep
<1>15. CASE UNCHANGED vars
  BY <1>15, OverStep
<1>16. CASE Over
  BY <1>16, OverStep DEF Over
<1> QED
  BY <1>1, <1>2, <1>3, <1>4, <1>5, <1>6, <1>7, <1>8, <1>9, <1>10, <1>11, <1>12,
     <1>13, <1>14, <1>15, <1>16 DEF Next, Step, Construct, Bind

\* The invariant holds in every state of every call, for all files.
THEOREM OpenInvariant == Spec => []OInv
  BY InitOInv, NextOInv, PTL DEF Spec

LEMMA TypesFollow == OInv => TypeOK
<1> SUFFICES ASSUME OInv PROVE TypeOK
  OBVIOUS
<1>1. pc \in ReadPoints \cup {"characteristics", "width", "bind", "nextTable",
                              "seekStrLs", "nextStrL", "columns", "bound", "error"}
  <2>1. pc \in Points
    BY DEF OInv, ScalarsInv
  <2> QED
    BY <2>1, Zenon DEF Points, EarlyPoints, HeaderPoints, LatePoints, ReadPoints
<1>2. /\ wantLabels \in BOOLEAN /\ pos \in Nat /\ allocated \in Nat
      /\ index \in 1 .. NumVars + 1
  BY DEF OInv, ScalarsInv, IndexInv
<1>3. ReaderInv
  BY DEF OInv, ScalarsInv
<1>4. /\ reader.version \in Nat /\ reader.modern \in BOOLEAN
      /\ reader.dataOffset \in 0 .. Mod64 - 1 /\ reader.labelsOffset \in 0 .. Mod64 - 1
  BY <1>3 DEF ReaderInv
<1>5. ASSUME NEW field \in {"k", "length", "nObs", "strlsOffset", "rowWidth"}
      PROVE  reader[field] \in Nat
  BY <1>3, ModAssumption, MaxLengthType DEF ReaderInv
<1>6. NumVars <= reader.k
      /\ (pc # "error" => \A i \in 1 .. NumVars :
            columns[i].type \in {0, Alias} \/ TypeWidth(columns[i].type) > 0)
  BY DEF OInv, ColumnsInv
<1>7. Len(mapped) <= NumVars
      /\ \A i \in 1 .. Len(mapped) :
           mapped[i].offset \in Nat /\ mapped[i].table \in 0 .. Len(labels)
  BY DEF OInv, TablesInv
<1> HIDE DEF NumVars
<1> QED
  BY <1>1, <1>2, <1>4, <1>5, <1>6, <1>7, Zenon DEF TypeOK

\* The state of the reader and of the bind is well typed in every call of
\* read_dta, whatever the file holds: offsets stay in 64 bits, columns take
\* bytes of a row unless they are aliases, and each has one of the tables.
THEOREM OpenTypes == Spec => []TypeOK
  BY OpenInvariant, TypesFollow, PTL

\* No size that a file gives is allocated before it is known to be in the file,
\* the length of the dataset label apart, for files of all sizes and contents.
THEOREM OpenAllocationsFitFile == Spec => []AllocationsFitFile
<1>1. OInv => AllocationsFitFile
  BY DEF OInv, ScalarsInv
<1> QED
  BY <1>1, OpenInvariant, PTL

LEMMA ScansFollow == OInv => ScansStayInFile
<1> SUFFICES ASSUME OInv, pc = "bound", NEW c \in 1 .. NumVars
    PROVE LET cellEnd == mapped[c].offset + TypeWidth(columns[c].type) IN
      /\ cellEnd <= reader.rowWidth
      /\ \A d \in c + 1 .. NumVars : cellEnd <= mapped[d].offset
      /\ reader.nObs > 0 /\ reader.rowWidth > 0 =>
           reader.dataOffset + (reader.nObs - 1) * reader.rowWidth + cellEnd
             <= Size(file)
  BY DEF ScansStayInFile, Bound
<1> DEFINE cellEnd == mapped[c].offset + TypeWidth(columns[c].type)
<1>1. "bound" \in LatePoints \ {"bind"}
  BY DEF LatePoints
<1>2. NumVars \in Nat /\ Len(mapped) = NumVars
  BY <1>1 DEF OInv, ColumnsInv, IndexInv, IsList, NumVars
<1>3. PICK w : /\ Sums(w, NumVars)
               /\ reader.rowWidth = w[NumVars]
               /\ \A i \in 1 .. Len(mapped) : mapped[i].offset = w[i - 1]
  BY <1>1 DEF OInv, OffsetsInv
<1>4. /\ w \in [0 .. NumVars -> Nat]
      /\ \A i \in 1 .. NumVars : w[i] = w[i - 1] + TypeWidth(columns[i].type)
      /\ \A i, j \in 0 .. NumVars : i <= j => w[i] <= w[j]
  BY <1>3 DEF Sums
<1>5. cellEnd = w[c] /\ w[c] \in Nat
  BY <1>2, <1>3, <1>4
<1> HIDE DEF cellEnd
<1>6. cellEnd <= reader.rowWidth
  <2>1. c \in 0 .. NumVars /\ NumVars \in 0 .. NumVars /\ c <= NumVars
    BY <1>2
  <2> QED
    BY <1>3, <1>4, <1>5, <2>1
<1>7. ASSUME NEW d \in c + 1 .. NumVars PROVE cellEnd <= mapped[d].offset
  <2>1. d \in 1 .. NumVars /\ c \in 0 .. NumVars /\ d - 1 \in 0 .. NumVars /\ c <= d - 1
    BY <1>2
  <2>2. mapped[d].offset = w[d - 1]
    BY <1>2, <1>3, <2>1
  <2> QED
    BY <1>4, <1>5, <2>1, <2>2
<1>8. ASSUME reader.nObs > 0, reader.rowWidth > 0
      PROVE  reader.dataOffset + (reader.nObs - 1) * reader.rowWidth + cellEnd <= Size(file)
  <2>1. ReaderInv /\ file \in Files /\ RowsFit
    BY <1>1 DEF OInv, ScalarsInv, OffsetsInv
  <2>2. reader.dataOffset + reader.nObs * reader.rowWidth <= Size(file)
    BY <2>1, RowsEnd
  <2>3. reader.nObs \in Nat /\ reader.rowWidth \in Nat /\ reader.dataOffset \in Nat
        /\ Size(file) \in Nat
    BY <2>1, SizeAssumption, ModAssumption DEF ReaderInv
  <2>4. (reader.nObs - 1) * reader.rowWidth + reader.rowWidth = reader.nObs * reader.rowWidth
        /\ (reader.nObs - 1) * reader.rowWidth \in Int
        /\ reader.nObs * reader.rowWidth \in Int
    BY <2>3
  <2> QED
    BY <1>5, <1>6, <2>2, <2>3, <2>4
<1> QED
  BY <1>6, <1>7, <1>8 DEF cellEnd

\* Whatever the file says of itself, when read_dta is bound the cells of all
\* rows that scans will claim lie in the file, each within its row and apart
\* from the others: the scans, which check nothing, read no byte that is not
\* there and copy none that is not in the buffer of the row.
THEOREM OpenScansStayInFile == Spec => []ScansStayInFile
  BY OpenInvariant, ScansFollow, PTL
=============================================================================
