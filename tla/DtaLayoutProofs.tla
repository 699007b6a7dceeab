------------------------- MODULE DtaLayoutProofs -------------------------
(***************************************************************************)
(* Proofs about the opening of files that are laid out as their format     *)
(* says: whole ones open unless an ENUM would have a text twice, what is   *)
(* opened is the table of the file, also when the file was cut off, and a  *)
(* size that exceeds the file is rejected unless it is an offset that      *)
(* wraps.  The invariant says, for each point of the code, where the       *)
(* handle is in the layout and what of the table was read so far.          *)
(***************************************************************************)
EXTENDS DtaOpenProofs, DtaLayout

T == Source(file)
KRead == Content(file)[KAt(T)].value
NRead == Content(file)[NAt(T)].value
DataRead == Content(file)[MapEntryAt(T, 9)].value

\* Where the rows begin in a file with a map, and whether that sum wrapped.
DataSum == (DataRead + DataTag) % Mod64
Wraps == IsModern(T) /\ DataRead + DataTag >= Mod64

-----------------------------------------------------------------------------
(***************************************************************************)
(* The invariant.                                                          *)
(***************************************************************************)

\* Points before which the handle is at the beginning of a section.
SectionPoints ==
  {"first", "release", "byteorder", "K", "N", "label", "labelText", "timestamp",
   "headerEnd", "legacy", "map", "types", "names", "sortlist", "formats",
   "labelNames", "varLabels", "labels", "strls"}

ModernPoints ==
  {"release", "byteorder", "K", "N", "label", "labelText", "timestamp", "headerEnd",
   "map", "characteristics", "seekStrLs", "strls", "nextStrL", "strl"}
LegacyPoints == {"legacy", "expansion"}
ListPoints == {"types", "names", "sortlist", "formats", "labelNames", "varLabels"}

AfterHeader ==
  {"map", "characteristics", "expansion", "width"} \cup ListPoints \cup LatePoints

FormatInv ==
  /\ pc \in ModernPoints => IsModern(T)
  /\ pc \in LegacyPoints => ~IsModern(T)
  /\ reader.modern = (pc # "first" /\ IsModern(T))
  /\ pc \notin {"first", "release"} => reader.version = T.version

PlaceInv ==
  /\ pc \in SectionPoints => pos = T.at[pc]
  /\ pc = "labelText" => reader.length = T.label
  /\ pc = "headerEnd" => reader.length = T.timestamp

CountsInv ==
  /\ pc \in {"N", "label", "labelText", "timestamp", "headerEnd"} => reader.k = KRead
  /\ pc \in {"label", "labelText", "timestamp", "headerEnd"} \cup AfterHeader =>
       reader.nObs = NRead
  /\ pc \in AfterHeader => ~Exceeds(file, KAt(T), MostVariables(file))

IsColumn(c) == c = [type |-> c.type, name |-> c.name, labelName |-> c.labelName]

\* What the lists have given the variables so far.
DescribedInv ==
  /\ pc \in {"map"} \cup ListPoints =>
       /\ NumVars = Len(T.variables)
       /\ \A i \in 1 .. NumVars : IsColumn(columns[i])
  /\ pc \in ListPoints \ {"types"} =>
       \A i \in 1 .. NumVars : columns[i].type = VariableType(T, i)
  /\ pc \in ListPoints \ {"types", "names"} =>
       \A i \in 1 .. NumVars : columns[i].name = T.variables[i].name
  /\ pc = "varLabels" =>
       \A i \in 1 .. NumVars : columns[i].labelName = T.variables[i].labelName
  /\ pc \in {"characteristics", "expansion", "width"} \cup LatePoints => columns = T.columns

NoExpansionExceeds(n) ==
  \A i \in 1 .. n : ~Exceeds(file, T.expansionAt[i] + 1, MostExpansion(file, i))

\* What the check of the rows has shown, but for the sum that wraps.
StartInv ==
  IF Wraps THEN reader.dataOffset < DataTag /\ Damage \notin Sound
  ELSE /\ reader.dataOffset = T.dataOffset
       /\ RowWidth(T) > 0 => ~Exceeds(file, NAt(T), MostRows(file))
       /\ IsModern(T) => ~Exceeds(file, MapEntryAt(T, 9), MostData(file))

\* What the map or the expansion fields have told, until it is checked.
RowsInv ==
  /\ pc \in ListPoints \cup {"characteristics", "width"} \cup LatePoints =>
       (IsModern(T) => /\ reader.dataOffset = DataSum
                       /\ reader.strlsOffset = T.at.strls
                       /\ reader.labelsOffset = T.at.labels)
  /\ pc = "expansion" =>
       \E n \in 1 .. Len(T.expansions) + 1 :
         pos = T.expansionAt[n] /\ NoExpansionExceeds(n - 1)
  /\ pc \in {"width"} \cup LatePoints =>
       (~IsModern(T) => /\ reader.dataOffset = T.dataOffset
                        /\ NoExpansionExceeds(Len(T.expansions) + 1))
  /\ pc = "width" => reader.rowWidth = T.cell[index - 1]
  /\ pc \in LatePoints =>
       /\ reader.rowWidth = RowWidth(T) /\ StartInv
       /\ ~IsModern(T) => reader.labelsOffset = T.at.labels

\* The first n label tables were read.
LabelsRead(n) ==
  /\ labels = [i \in 1 .. n |-> T.labels[i]]
  /\ \A i \in 1 .. n :
       /\ ~Exceeds(file, EntriesAt(T, i), MostEntries(file, i))
       /\ ~Exceeds(file, EntriesAt(T, i) + 4, MostText(file, i))

LabelsInv ==
  /\ pc \in EarlyPoints \cup {"width", "bind", "labels"} => LabelsRead(0)
  /\ pc = "nextTable" =>
       \E n \in 1 .. Len(T.tables) + 1 : pos = T.tableAt[n] /\ LabelsRead(n - 1)
  /\ pc = "table" =>
       \E n \in 1 .. Len(T.tables) : pos = T.tableAt[n] + MarkerWidth(T) /\ LabelsRead(n - 1)
  /\ pc = "tableEnd" =>
       \E n \in 1 .. Len(T.tables) : pos = TableEnd(T, n) /\ LabelsRead(n)
  /\ pc \in {"labels", "nextTable", "table", "tableEnd"} => wantLabels
  /\ pc \in {"seekStrLs", "strls", "nextStrL", "strl", "columns", "bound"} =>
       /\ ~wantLabels => LabelsRead(0)
       /\ wantLabels => \E n \in 0 .. Len(T.tables) :
            LabelsRead(n) /\ (Damage # "cut" => n = Len(T.tables))

\* The first n strLs were read.
StrLsRead(n) ==
  /\ strls = [ref \in DOMAIN strls |-> strls[ref]]
  /\ DOMAIN strls = {T.texts[i].ref : i \in 1 .. n}
  /\ \A i \in 1 .. n :
       /\ strls[T.texts[i].ref] = T.texts[i].text
       /\ ~Exceeds(file, LengthAt(T, i), MostLength(file, i))

StrLsInv ==
  /\ pc \notin {"nextStrL", "strl", "columns", "bound"} => StrLsRead(0)
  /\ pc \in {"seekStrLs", "strls", "nextStrL", "strl"} => HasStrLColumn(T)
  /\ pc = "nextStrL" =>
       \E n \in 1 .. Len(T.texts) + 1 : pos = T.textAt[n] /\ StrLsRead(n - 1)
  /\ pc = "strl" =>
       \E n \in 1 .. Len(T.texts) : pos = T.textAt[n] + 3 /\ StrLsRead(n - 1)
  /\ pc \in {"columns", "bound"} =>
       IF HasStrLColumn(T)
       THEN \E n \in 0 .. Len(T.texts) :
              StrLsRead(n) /\ (Damage # "cut" => n = Len(T.texts))
       ELSE StrLsRead(0)

ReadInv ==
  /\ FormatInv /\ PlaceInv /\ CountsInv /\ DescribedInv /\ RowsInv
  /\ LabelsInv /\ StrLsInv

\* An ENUM of the file may have a text twice.
Refused == wantLabels /\ HasRepeats(T)

LayoutInv ==
  Damage \in Described => /\ Damage = "none" /\ pc = "error" => Refused
                          /\ pc # "error" => ReadInv

-----------------------------------------------------------------------------
(***************************************************************************)
(* What is read at a place of the layout.                                  *)
(***************************************************************************)

LEMMA LaidOut ==
  ASSUME file \in Files, Damage \in Described
  PROVE  IsLaidOut(file)
  BY LayoutAssumption DEF Damage

LEMMA LaidOutParts ==
  ASSUME IsLaidOut(file)
  PROVE  /\ TableTypes(T) /\ Header(file) /\ Descriptors(file) /\ Columns(T) /\ Rows(T)
         /\ IsModern(T) => StrLs(file)
         /\ ~IsModern(T) => Expansions(file)
         /\ LabelTables(file)
         /\ Damage = "cut" => Size(file) <= T.size
         /\ Damage # "cut" => Size(file) = T.size
         /\ Damage = "excess" => HasExcess(file)
         /\ Damage = "label excess" => HasLabelExcess(file)
  BY DEF IsLaidOut, T, Damage

LEMMA LaidOutSizes ==
  ASSUME file \in Files, IsLaidOut(file)
  PROVE  /\ T.size \in Nat /\ Size(file) \in Nat /\ Size(file) <= T.size
         /\ Damage # "cut" => Size(file) = T.size
         /\ \A section \in Sections : T.at[section] \in Nat
         /\ T.version \in Versions /\ T.version \in Nat
<1>1. T.size \in Nat /\ T.at \in [Sections -> Nat]
  BY LaidOutParts DEF TableTypes
<1>2. Size(file) \in Nat
  BY SizeAssumption, ModAssumption
<1>3. T.version \in Versions
  BY LaidOutParts DEF Header, T
<1>4. T.version \in Nat
  BY <1>3 DEF Versions
<1>5. /\ Damage = "cut" => Size(file) <= T.size
      /\ Damage # "cut" => Size(file) = T.size
  BY LaidOutParts
<1>6. Size(file) <= T.size
  BY <1>1, <1>2, <1>5
<1> QED
  BY <1>1, <1>2, <1>3, <1>4, <1>5, <1>6

LEMMA TokenThere ==
  ASSUME NEW p, NEW kind, NEW value, Is(file, p, kind, value)
  PROVE  TokenAt(p) = [kind |-> kind, value |-> value]
  BY DEF Is, TokenAt

LEMMA FieldThere ==
  ASSUME NEW skip, NEW kind, NEW value, Is(file, pos + skip, kind, value)
  PROVE  Field(kind, skip) = {value} /\ StringAt(kind, skip) = value
  BY TokenThere DEF Field, StringAt

LEMMA SizedThere ==
  ASSUME NEW skip, NEW kind, NEW value, NEW most,
         Sized(file, pos + skip, kind, value, most)
  PROVE  /\ Field(kind, skip) = {Content(file)[pos + skip].value}
         /\ Damage \in Sound \/ ~Exceeds(file, pos + skip, most) =>
              Content(file)[pos + skip].value = value
  BY DEF Sized, Field, TokenAt, Damage

LEMMA TagLengths ==
  /\ \A tag \in Tags : TagLen(tag) \in Nat
  /\ TagLen("") = 0 /\ TagLen("GSO") = 3 /\ TagLen("<lbl>") = 5
  /\ TagLen("</strls>") \in Nat /\ TagLen("</value_labels>") \in Nat
  BY TagAssumption, TagLengthAssumption

LEMMA TagThere ==
  ASSUME NEW p \in Nat, NEW tag, tag # "" => Is(file, p, "tag", tag),
         p + TagLen(tag) <= Size(file)
  PROVE  TagAt(p, tag)
  BY TokenThere DEF TagAt, Tag

\* Where a section is expected a whole file has it, and the handle moves to the
\* section behind it.
SectionExpected(next) ==
  LET r == Expected IN Section(file, pos, r.open, r.bytes, r.close, next)

LEMMA SectionRead ==
  ASSUME OInv, IsLaidOut(file), pc \in ReadPoints, NEW next, SectionExpected(next)
  PROVE  /\ Damage # "cut" => Readable
         /\ next = pos + Bytes(Expected) /\ next \in Nat
         /\ Advance(0) => pos' = next
<1> DEFINE open == Expected.open
           bytes == Expected.bytes
           close == Expected.close
<1>1. open \in Tags /\ bytes \in Nat /\ close \in Tags
  BY ExpectedType DEF OInv, ColumnsInv
<1>2. TagLen(open) \in Nat /\ TagLen(close) \in Nat
  BY <1>1, TagLengths
<1>3. Section(file, pos, open, bytes, close, next)
  BY DEF SectionExpected
<1>4. Bytes(Expected) = TagLen(open) + bytes + TagLen(close)
  BY DEF Bytes
<1>5. Readable <=> /\ TagAt(pos, open)
                   /\ TagAt(pos + TagLen(open) + bytes, close)
                   /\ pos + Bytes(Expected) <= Size(file)
  BY DEF Readable
<1>6. pos \in Nat /\ file \in Files
  BY DEF OInv, ScalarsInv
<1> HIDE DEF open, bytes, close
<1>7. next = pos + TagLen(open) + bytes + TagLen(close) /\ next <= T.size
  BY <1>3 DEF Section, T
<1>8. ASSUME Damage # "cut" PROVE Readable
  <2>1. Size(file) = T.size /\ T.size \in Nat
    BY <1>6, <1>8, LaidOutSizes
  <2>2. pos + TagLen(open) <= Size(file)
        /\ pos + TagLen(open) + bytes + TagLen(close) <= Size(file)
    BY <1>1, <1>2, <1>6, <1>7, <2>1
  <2>3. pos + TagLen(open) + bytes \in Nat
    BY <1>1, <1>2, <1>6
  <2>4. TagAt(pos, open) /\ TagAt(pos + TagLen(open) + bytes, close)
    BY <1>3, <1>6, <2>2, <2>3, TagThere DEF Section
  <2> QED
    BY <1>1, <1>2, <1>4, <1>5, <1>6, <2>2, <2>4
<1> QED
  BY <1>1, <1>2, <1>4, <1>6, <1>7, <1>8 DEF Advance

-----------------------------------------------------------------------------
(***************************************************************************)
(* The sections of the header and of the descriptors.                      *)
(***************************************************************************)
NextAt(point) ==
  CASE point = "release"    -> T.at.byteorder
    [] point = "byteorder"  -> T.at.K
    [] point = "K"          -> T.at.N
    [] point = "N"          -> T.at.label
    [] point = "label"      -> T.at.labelText
    [] point = "labelText"  -> T.at.timestamp
    [] point = "timestamp"  -> T.at.headerEnd
    [] point = "headerEnd"  -> T.at.map
    [] point = "legacy"     -> T.at.types
    [] point = "map"        -> T.at.types
    [] point = "types"      -> T.at.names
    [] point = "names"      -> T.at.sortlist
    [] point = "sortlist"   -> T.at.formats
    [] point = "formats"    -> T.at.labelNames
    [] point = "labelNames" -> T.at.varLabels
    [] point = "varLabels"  -> T.at.described

\* At each point after the first, the reader has the format of the file.
LEMMA FormatRead ==
  ASSUME ReadInv, IsLaidOut(file), file \in Files, pc \notin {"first", "release"}
  PROVE  /\ reader.version = T.version /\ reader.modern = IsModern(T)
         /\ P = Params(T.version) /\ Mapped = IsModern(T)
         /\ TypeBytes = IF IsModern(T) THEN 2 ELSE 1
         /\ \A open, n, close :
              List(open, n, close) = Layout(Tagged(T, open), n, Tagged(T, close))
<1>1. reader.version = T.version /\ reader.modern = (pc # "first" /\ IsModern(T))
  BY DEF ReadInv, FormatInv
<1>2. reader.modern = IsModern(T)
  <2>1. IsModern(T) \in BOOLEAN
    BY DEF IsModern
  <2> QED
    BY <1>1, <2>1
<1>3. P = Params(T.version) /\ Mapped = IsModern(T)
  BY <1>1 DEF P, Mapped, IsModern
<1>4. TypeBytes = IF IsModern(T) THEN 2 ELSE 1
  BY <1>2 DEF TypeBytes
<1>5. \A open, n, close :
        List(open, n, close) = Layout(Tagged(T, open), n, Tagged(T, close))
  BY <1>2 DEF List, Tagged
<1> QED
  BY <1>1, <1>2, <1>3, <1>4, <1>5

ModernHeaderPoints ==
  {"release", "byteorder", "K", "N", "label", "labelText", "timestamp", "headerEnd", "map"}

LEMMA ModernHeaderSections ==
  ASSUME ReadInv, IsLaidOut(file), file \in Files, pc \in ModernHeaderPoints
  PROVE  SectionExpected(NextAt(pc))
<1>1. IsModern(T) /\ pos = T.at[pc]
  BY Zenon DEF ReadInv, FormatInv, PlaceInv, ModernHeaderPoints, ModernPoints, SectionPoints
<1>2. ModernHeader(file)
  BY <1>1, LaidOutParts DEF Header, T
<1>3. pc # "release" => P = Params(T.version)
  BY FormatRead DEF ModernHeaderPoints
<1>4. /\ pc = "labelText" => reader.length = T.label
      /\ pc = "headerEnd" => reader.length = T.timestamp
  BY DEF ReadInv, PlaceInv
<1>5. CASE pc = "release"
  BY <1>1, <1>2, <1>5 DEF Expected, NextAt, SectionExpected, Layout, ModernHeader, T
<1>6. CASE pc = "byteorder"
  BY <1>1, <1>2, <1>6 DEF Expected, NextAt, SectionExpected, Layout, ModernHeader, T
<1>7. CASE pc = "K"
  BY <1>1, <1>2, <1>3, <1>7 DEF Expected, NextAt, SectionExpected, Layout, ModernHeader, T
<1>8. CASE pc = "N"
  BY <1>1, <1>2, <1>3, <1>8 DEF Expected, NextAt, SectionExpected, Layout, ModernHeader, T
<1>9. CASE pc = "label"
  BY <1>1, <1>2, <1>3, <1>9 DEF Expected, NextAt, SectionExpected, Layout, ModernHeader, T
<1>10. CASE pc = "labelText"
  BY <1>1, <1>2, <1>4, <1>10 DEF Expected, NextAt, SectionExpected, Layout, ModernHeader, T
<1>11. CASE pc = "timestamp"
  BY <1>1, <1>2, <1>11 DEF Expected, NextAt, SectionExpected, Layout, ModernHeader, T
<1>12. CASE pc = "headerEnd"
  BY <1>1, <1>2, <1>4, <1>12 DEF Expected, NextAt, SectionExpected, Layout, ModernHeader, T
<1>13. CASE pc = "map"
  BY <1>1, <1>2, <1>13 DEF Expected, NextAt, SectionExpected, Layout, ModernHeader, T
<1> QED
  BY <1>5, <1>6, <1>7, <1>8, <1>9, <1>10, <1>11, <1>12, <1>13 DEF ModernHeaderPoints

LEMMA LegacySection ==
  ASSUME ReadInv, IsLaidOut(file), file \in Files, pc = "legacy"
  PROVE  SectionExpected(NextAt(pc))
<1>1. ~IsModern(T) /\ pos = T.at[pc] /\ LegacyHeader(file)
  BY LaidOutParts DEF Header, T, ReadInv, FormatInv, PlaceInv, LegacyPoints, SectionPoints
<1> QED
  BY <1>1 DEF Expected, NextAt, SectionExpected, Layout, LegacyHeader, T

LEMMA ListSections ==
  ASSUME ReadInv, IsLaidOut(file), file \in Files, pc \in ListPoints
  PROVE  SectionExpected(NextAt(pc))
<1>1. pos = T.at[pc] /\ NumVars = Len(T.variables)
  BY Zenon DEF ReadInv, PlaceInv, DescribedInv, ListPoints, SectionPoints
<1>2. Descriptors(file)
  BY LaidOutParts
<1>3. /\ P = Params(T.version) /\ TypeBytes = IF IsModern(T) THEN 2 ELSE 1
      /\ \A open, n, close :
           List(open, n, close) = Layout(Tagged(T, open), n, Tagged(T, close))
  BY FormatRead DEF ListPoints
<1>4. CASE pc = "types"
  BY <1>1, <1>2, <1>3, <1>4 DEF Expected, NextAt, SectionExpected, Layout, Descriptors, T
<1>5. CASE pc = "names"
  BY <1>1, <1>2, <1>3, <1>5 DEF Expected, NextAt, SectionExpected, Layout, Descriptors, T
<1>6. CASE pc = "sortlist"
  BY <1>1, <1>2, <1>3, <1>6
     DEF Expected, NextAt, SectionExpected, Layout, Descriptors, T, SortEntries
<1>7. CASE pc = "formats"
  BY <1>1, <1>2, <1>3, <1>7 DEF Expected, NextAt, SectionExpected, Layout, Descriptors, T
<1>8. CASE pc = "labelNames"
  BY <1>1, <1>2, <1>3, <1>8 DEF Expected, NextAt, SectionExpected, Layout, Descriptors, T
<1>9. CASE pc = "varLabels"
  BY <1>1, <1>2, <1>3, <1>9 DEF Expected, NextAt, SectionExpected, Layout, Descriptors, T
<1> QED
  BY <1>4, <1>5, <1>6, <1>7, <1>8, <1>9 DEF ListPoints

-----------------------------------------------------------------------------
(***************************************************************************)
(* Steps by what they leave alone.                                         *)
(***************************************************************************)

\* What a step shows: a whole file is not refused, and what is accepted was
\* read as it is laid out.
Follows ==
  /\ Damage = "none" => pc' # "error"
  /\ pc' # "error" => ReadInv'

LEMMA FollowsLayout == ASSUME UNCHANGED file, Follows PROVE LayoutInv'
  BY DEF LayoutInv, Follows, Damage

LEMMA SameFile ==
  ASSUME UNCHANGED file
  PROVE  /\ T' = T /\ Damage' = Damage
         /\ KRead' = KRead /\ NRead' = NRead /\ DataSum' = DataSum /\ Wraps' = Wraps
         /\ \A n : NoExpansionExceeds(n)' <=> NoExpansionExceeds(n)
  BY DEF T, Damage, KRead, NRead, DataRead, DataSum, Wraps, NoExpansionExceeds, Exceeds,
     MostExpansion

LEMMA SameLabels ==
  ASSUME UNCHANGED <<file, labels>>
  PROVE  \A n : LabelsRead(n)' <=> LabelsRead(n)
  BY DEF LabelsRead, Exceeds, MostEntries, MostText, T

LEMMA SameStrLs ==
  ASSUME UNCHANGED <<file, strls>>
  PROVE  \A n : StrLsRead(n)' <=> StrLsRead(n)
  BY DEF StrLsRead, Exceeds, MostLength, T

LEMMA SameStart ==
  ASSUME UNCHANGED file, reader'.dataOffset = reader.dataOffset
  PROVE  StartInv' <=> StartInv
<1>1. /\ T' = T /\ Damage' = Damage /\ Wraps' = Wraps
  BY SameFile
<1>2. /\ Exceeds(file', NAt(T'), MostRows(file')) <=> Exceeds(file, NAt(T), MostRows(file))
      /\ Exceeds(file', MapEntryAt(T', 9), MostData(file'))
           <=> Exceeds(file, MapEntryAt(T, 9), MostData(file))
  BY <1>1
<1> QED
  BY <1>1, <1>2 DEF StartInv

BeforeLoading == EarlyPoints \cup {"width", "bind"}

LEMMA StartOfLoading ==
  ASSUME ReadInv, pc \in BeforeLoading, pc' \in BeforeLoading,
         UNCHANGED <<file, wantLabels, labels, strls>>
  PROVE  LabelsInv' /\ StrLsInv'
<1>1. LabelsRead(0) /\ StrLsRead(0)
  BY Zenon DEF ReadInv, LabelsInv, StrLsInv, BeforeLoading, EarlyPoints, HeaderPoints
<1>2. LabelsRead(0)' /\ StrLsRead(0)'
  BY <1>1, SameLabels, SameStrLs
<1>3. pc' \notin {"labels", "nextTable", "table", "tableEnd", "seekStrLs", "strls",
                  "nextStrL", "strl", "columns", "bound"}
  BY Zenon DEF BeforeLoading, EarlyPoints, HeaderPoints
<1>4. LabelsInv'
  BY <1>2, <1>3, Zenon DEF LabelsInv
<1>5. StrLsInv'
  BY <1>2, <1>3, Zenon DEF StrLsInv
<1> QED
  BY <1>4, <1>5

LEMMA HeaderFrame ==
  ASSUME ReadInv, pc \in HeaderPoints, pc' \in HeaderPoints,
         UNCHANGED <<file, wantLabels, labels, strls>>,
         FormatInv', PlaceInv', CountsInv'
  PROVE  ReadInv'
<1>1. pc \in BeforeLoading /\ pc' \in BeforeLoading
  BY DEF BeforeLoading, EarlyPoints
<1>2. LabelsInv' /\ StrLsInv'
  BY <1>1, StartOfLoading
<1>3. pc' \notin {"map", "characteristics", "expansion", "width"} \cup ListPoints \cup LatePoints
  BY Zenon DEF HeaderPoints, ListPoints, LatePoints
<1>4. DescribedInv'
  <2>1. pc' # "varLabels"
    BY <1>3, Zenon DEF ListPoints
  <2>2. /\ pc' \notin {"map"} \cup ListPoints /\ pc' \notin ListPoints
        /\ pc' \notin {"characteristics", "expansion", "width"} \cup LatePoints
    BY <1>3, Zenon
  <2> QED
    BY <2>1, <2>2, Zenon DEF DescribedInv
<1>5. RowsInv'
  BY <1>3, Zenon DEF RowsInv
<1> QED
  BY <1>2, <1>4, <1>5 DEF ReadInv

-----------------------------------------------------------------------------
(***************************************************************************)
(* The header.                                                             *)
(***************************************************************************)

LEMMA FirstByteFollows ==
  ASSUME OInv, ReadInv, IsLaidOut(file), ReadFirstByte
  PROVE  Follows
<1>1. /\ pc = "first" /\ file \in Files
      /\ UNCHANGED <<file, wantLabels, pos, index, columns, strls, labels, mapped, allocated>>
  BY DEF ReadFirstByte, At, Unchanged, OInv, ScalarsInv
<1>2. pos = 0 /\ T.at.first = 0 /\ T.version \in Versions /\ reader.modern = FALSE
  BY <1>1, LaidOutParts DEF ReadInv, PlaceInv, FormatInv, SectionPoints, Header, T
<1>3. T' = T /\ pc \in HeaderPoints
  BY <1>1, SameFile DEF HeaderPoints
<1>4. DOMAIN reader = ReaderFields
  BY DEF OInv, ScalarsInv, ReaderInv
<1>5. CASE IsModern(T)
  <2>1. ModernHeader(file)
    BY <1>5, LaidOutParts DEF Header, T
  <2>2. T.at.release = 0 /\ Is(file, 0, "tag", "<stata_dta><header><release>")
    BY <2>1 DEF ModernHeader, Section, T
  <2>3. FirstByte = {LessThan}
    BY <2>2, TokenThere DEF FirstByte
  <2>4. pc' = "release" /\ reader' = [reader EXCEPT !.modern = TRUE]
    BY <2>3 DEF ReadFirstByte
  <2>5. FormatInv'
    BY <1>3, <1>4, <1>5, <2>4 DEF FormatInv, LegacyPoints, ReaderFields
  <2>6. PlaceInv'
    BY <1>1, <1>2, <1>3, <2>2, <2>4 DEF PlaceInv
  <2>7. CountsInv'
    BY <2>4 DEF CountsInv, AfterHeader, ListPoints, LatePoints
  <2>8. pc' \in HeaderPoints
    BY <2>4 DEF HeaderPoints
  <2> QED
    BY <1>1, <1>3, <2>4, <2>5, <2>6, <2>7, <2>8, HeaderFrame DEF Follows
<1>6. CASE ~IsModern(T)
  <2>1. LegacyHeader(file)
    BY <1>6, LaidOutParts DEF Header, T
  <2>2. T.at.legacy = 0 /\ Is(file, 0, "version", T.version)
    BY <2>1 DEF LegacyHeader, T
  <2>3. Is(file, pos + 0, "version", T.version)
    BY <1>2, <2>2
  <2>4. FirstByte = {T.version}
    <3>1. TokenAt(0).kind # "tag"
      BY <2>2, TokenThere
    <3> QED
      BY <2>3, <3>1, FieldThere DEF FirstByte
  <2>5. T.version # LessThan
    BY <1>2 DEF Versions, LessThan
  <2>6. pc' = "legacy" /\ reader' = [reader EXCEPT !.version = T.version]
    BY <1>2, <2>4, <2>5 DEF ReadFirstByte, Goto
  <2>7. FormatInv'
    BY <1>2, <1>3, <1>4, <1>6, <2>6 DEF FormatInv, ModernPoints, ReaderFields
  <2>8. PlaceInv'
    BY <1>1, <1>2, <1>3, <2>2, <2>6 DEF PlaceInv
  <2>9. CountsInv'
    BY <2>6 DEF CountsInv, AfterHeader, ListPoints, LatePoints
  <2>10. pc' \in HeaderPoints
    BY <2>6 DEF HeaderPoints
  <2> QED
    BY <1>1, <1>3, <2>6, <2>7, <2>8, <2>9, <2>10, HeaderFrame DEF Follows
<1> QED
  BY <1>5, <1>6

\* What a step of the header starts from.
LEMMA InHeader ==
  ASSUME OInv, ReadInv, IsLaidOut(file), pc \in ModernHeaderPoints, Advance(0), Readable
  PROVE  /\ file \in Files /\ pos = T.at[pc] /\ pos \in Nat /\ pos' = NextAt(pc)
         /\ IsModern(T) /\ ModernHeader(file)
         /\ DOMAIN reader = ReaderFields
         /\ pc # "map" => pc \in HeaderPoints
<1>1. file \in Files /\ pos \in Nat /\ DOMAIN reader = ReaderFields
  BY DEF OInv, ScalarsInv, ReaderInv
<1>2. pc \in ReadPoints
  BY Zenon DEF ModernHeaderPoints, ReadPoints
<1>3. pos' = NextAt(pc)
  BY <1>1, <1>2, ModernHeaderSections, SectionRead
<1>4. IsModern(T) /\ pos = T.at[pc]
  BY Zenon DEF ReadInv, FormatInv, PlaceInv, ModernHeaderPoints, ModernPoints, SectionPoints
<1>5. ModernHeader(file)
  BY <1>4, LaidOutParts DEF Header, T
<1>6. pc # "map" => pc \in HeaderPoints
  BY Zenon DEF ModernHeaderPoints, HeaderPoints
<1> QED
  BY <1>1, <1>3, <1>4, <1>5, <1>6

LEMMA ReleaseFollows ==
  ASSUME OInv, ReadInv, IsLaidOut(file), ParseRelease
  PROVE  Follows
<1>1. /\ pc = "release" /\ Readable /\ Advance(0)
      /\ UNCHANGED <<file, wantLabels, columns, strls, labels, mapped>>
  BY DEF ParseRelease, ReadInto, At, Unchanged
<1>2. /\ file \in Files /\ pos = T.at.release /\ pos' = T.at.byteorder
      /\ IsModern(T) /\ ModernHeader(file) /\ DOMAIN reader = ReaderFields
      /\ pc \in HeaderPoints
  BY <1>1, InHeader DEF ModernHeaderPoints, NextAt
<1>3. T' = T /\ T.version \in Versions
  BY <1>1, <1>2, SameFile, LaidOutSizes
<1>4. Field("version", Body) = {T.version}
  <2>1. Body = TagLen("<stata_dta><header><release>") /\ Body \in Nat
    BY <1>1, TagLengths, TagsListed DEF Body, Expected, Layout
  <2>2. pos = 0 /\ Is(file, TagLen("<stata_dta><header><release>"), "version", T.version)
    BY <1>2 DEF ModernHeader, T
  <2>3. Is(file, pos + Body, "version", T.version)
    BY <2>1, <2>2
  <2> QED
    BY <2>3, FieldThere
<1>5. pc' = "byteorder" /\ reader' = [reader EXCEPT !.version = T.version]
  BY <1>3, <1>4 DEF ParseRelease, ReadInto, Goto
<1>6. FormatInv'
  <2>1. reader.modern = IsModern(T) /\ IsModern(T)
    BY <1>1, <1>2 DEF ReadInv, FormatInv
  <2> QED
    BY <1>2, <1>3, <1>5, <2>1 DEF FormatInv, LegacyPoints, ReaderFields
<1>7. PlaceInv'
  BY <1>2, <1>3, <1>5 DEF PlaceInv
<1>8. CountsInv'
  BY <1>5 DEF CountsInv, AfterHeader, ListPoints, LatePoints
<1>9. pc' \in HeaderPoints
  BY <1>5 DEF HeaderPoints
<1> QED
  BY <1>1, <1>2, <1>5, <1>6, <1>7, <1>8, <1>9, HeaderFrame DEF Follows

\* After the release the format is known, and remains so.
LEMMA FormatKept ==
  ASSUME ReadInv, UNCHANGED file, IsModern(T), pc \notin {"first", "release"},
         pc' \notin LegacyPoints \cup {"first", "release"},
         reader'.version = reader.version, reader'.modern = reader.modern
  PROVE  FormatInv'
<1>1. T' = T
  BY SameFile
<1>2. reader.version = T.version /\ reader.modern = (pc # "first" /\ IsModern(T))
  BY DEF ReadInv, FormatInv
<1> QED
  BY <1>1, <1>2 DEF FormatInv

\* What the counts were read from.
LEMMA CountsThere ==
  ASSUME IsLaidOut(file), file \in Files
  PROVE  /\ KAt(T) \in DOMAIN Content(file) /\ NAt(T) \in DOMAIN Content(file)
         /\ Content(file)[KAt(T)].kind = "K" /\ Content(file)[NAt(T)].kind = "N"
         /\ KRead \in 0 .. Mod32 - 1 /\ NRead \in Nat
         /\ Damage \in Sound \/ ~Exceeds(file, KAt(T), MostVariables(file)) =>
              KRead = Len(T.variables)
         /\ Damage \in Sound \/ ~Exceeds(file, NAt(T), MostRows(file)) => NRead = T.nObs
<1>1. /\ Sized(file, KAt(T), "K", Len(T.variables), MostVariables(file))
      /\ Sized(file, NAt(T), "N", T.nObs, MostRows(file))
  BY LaidOutParts DEF Header, T
<1>2. /\ KAt(T) \in DOMAIN Content(file) /\ NAt(T) \in DOMAIN Content(file)
      /\ Content(file)[KAt(T)].kind = "K" /\ Content(file)[NAt(T)].kind = "N"
  BY <1>1 DEF Sized
<1>3. KRead \in NumbersOf("K") /\ NRead \in NumbersOf("N")
  BY <1>2, ContentAssumption DEF KRead, NRead, Numbers
<1>4. /\ Damage \in Sound \/ ~Exceeds(file, KAt(T), MostVariables(file)) =>
           KRead = Len(T.variables)
      /\ Damage \in Sound \/ ~Exceeds(file, NAt(T), MostRows(file)) => NRead = T.nObs
  BY <1>1 DEF Sized, Damage, KRead, NRead
<1> QED
  BY <1>2, <1>3, <1>4 DEF NumbersOf

\* A field of the header that is read into a field of the reader.
LEMMA ReadIntoFollows ==
  ASSUME OInv, ReadInv, IsLaidOut(file),
         NEW point \in {"K", "N", "label", "timestamp"}, NEW next, NEW kind, NEW field,
         NEW value,
         <<next, kind, field, value>> =
           CASE point = "K"         -> <<"N", "K", "k", KRead>>
             [] point = "N"         -> <<"label", "N", "nObs", NRead>>
             [] point = "label"     -> <<"labelText", "length", "length", T.label>>
             [] point = "timestamp" -> <<"headerEnd", "length", "length", T.timestamp>>,
         ReadInto(point, next, kind, field)
  PROVE  Follows
<1>1. /\ pc = point /\ Readable /\ Advance(0)
      /\ UNCHANGED <<file, wantLabels, columns, strls, labels, mapped>>
  BY DEF ReadInto, At, Unchanged
<1>2. pc \in ModernHeaderPoints \ {"map", "release"} /\ pc \notin {"first", "release"}
  BY <1>1 DEF ModernHeaderPoints
<1>3. /\ file \in Files /\ pos = T.at[pc] /\ pos \in Nat /\ pos' = NextAt(pc)
      /\ IsModern(T) /\ ModernHeader(file) /\ DOMAIN reader = ReaderFields
      /\ pc \in HeaderPoints
  BY <1>1, <1>2, InHeader
<1>4. T' = T /\ KRead' = KRead /\ NRead' = NRead
  BY <1>1, SameFile
<1>5. /\ NextAt(pc) = T.at[next]
      /\ next \in HeaderPoints \ {"first", "release", "legacy"}
      /\ kind # "version" /\ field \in ReaderFields \ {"version", "modern"}
  BY <1>1 DEF NextAt, HeaderPoints, ReaderFields
<1>6. Field(kind, Body) = {value}
  <2>1. CASE point = "K"
    <3>1. pos + Body = KAt(T)
      BY <1>1, <1>3, <2>1 DEF Body, Expected, Layout, KAt
    <3> QED
      BY <2>1, <3>1, CountsThere, <1>3 DEF Field, TokenAt, KRead
  <2>2. CASE point = "N"
    <3>1. pos + Body = NAt(T)
      BY <1>1, <1>3, <2>2 DEF Body, Expected, Layout, NAt
    <3> QED
      BY <2>2, <3>1, CountsThere, <1>3 DEF Field, TokenAt, NRead
  <2>3. CASE point = "label"
    <3>1. Is(file, pos + Body, "length", T.label)
      BY <1>1, <1>3, <2>3 DEF Body, Expected, Layout, ModernHeader, T
    <3> QED
      BY <2>3, <3>1, FieldThere
  <2>4. CASE point = "timestamp"
    <3>1. Is(file, pos + Body, "length", T.timestamp)
      BY <1>1, <1>3, <2>4 DEF Body, Expected, Layout, ModernHeader, T
    <3> QED
      BY <2>4, <3>1, FieldThere
  <2> QED
    BY <2>1, <2>2, <2>3, <2>4
<1>7. pc' = next /\ reader' = [reader EXCEPT ![field] = value]
  BY <1>5, <1>6 DEF ReadInto, Goto
<1>8. FormatInv'
  <2>1. reader'.version = reader.version /\ reader'.modern = reader.modern
    BY <1>3, <1>5, <1>7 DEF ReaderFields
  <2>2. pc' \notin LegacyPoints \cup {"first", "release"}
    BY <1>5, <1>7 DEF LegacyPoints, HeaderPoints
  <2> QED
    BY <1>1, <1>2, <1>3, <2>1, <2>2, FormatKept
<1>9. PlaceInv'
  <2>1. pos' = T'.at[pc']
    BY <1>3, <1>4, <1>5, <1>7
  <2>2. pc' = "labelText" => reader'.length = T.label
    BY <1>3, <1>7 DEF ReaderFields
  <2>3. pc' = "headerEnd" => reader'.length = T.timestamp
    BY <1>3, <1>7 DEF ReaderFields
  <2> QED
    BY <1>4, <2>1, <2>2, <2>3 DEF PlaceInv
<1>10. CountsInv'
  <2>1. pc' \notin AfterHeader
    BY <1>5, <1>7 DEF AfterHeader, HeaderPoints, ListPoints, LatePoints
  <2>2. /\ pc \in {"N", "label", "timestamp"} => reader.k = KRead
        /\ pc \in {"label", "timestamp"} => reader.nObs = NRead
    BY DEF ReadInv, CountsInv
  <2>3. pc' \in {"N", "label", "labelText", "timestamp", "headerEnd"} => reader'.k = KRead
    BY <1>1, <1>3, <1>7, <2>2 DEF ReaderFields
  <2>4. pc' \in {"label", "labelText", "timestamp", "headerEnd"} => reader'.nObs = NRead
    BY <1>1, <1>3, <1>7, <2>2 DEF ReaderFields
  <2> QED
    BY <1>4, <2>1, <2>3, <2>4 DEF CountsInv
<1>11. pc' \in HeaderPoints /\ pc' # "error"
  BY <1>5, <1>7 DEF HeaderPoints
<1> QED
  BY <1>1, <1>3, <1>8, <1>9, <1>10, <1>11, HeaderFrame DEF Follows

LEMMA SkipInHeaderFollows ==
  ASSUME OInv, ReadInv, IsLaidOut(file), SkipByteorder \/ DatasetLabelText
  PROVE  Follows
<1>1. /\ pc \in {"byteorder", "labelText"} /\ Readable /\ Advance(0)
      /\ pc' = IF pc = "byteorder" THEN "K" ELSE "timestamp"
      /\ UNCHANGED <<file, wantLabels, reader, columns, strls, labels, mapped>>
  BY DEF SkipByteorder, DatasetLabelText, Skip, At, Unchanged
<1>2. pc \in ModernHeaderPoints \ {"map", "release"} /\ pc \notin {"first", "release"}
  BY <1>1 DEF ModernHeaderPoints
<1>3. /\ file \in Files /\ pos' = NextAt(pc) /\ IsModern(T) /\ pc \in HeaderPoints
  BY <1>1, <1>2, InHeader
<1>4. T' = T /\ KRead' = KRead /\ NRead' = NRead
  BY <1>1, SameFile
<1>5. FormatInv'
  <2>1. pc' \notin LegacyPoints \cup {"first", "release"}
    BY <1>1 DEF LegacyPoints
  <2> QED
    BY <1>1, <1>2, <1>3, <2>1, FormatKept
<1>6. PlaceInv'
  BY <1>1, <1>3, <1>4 DEF PlaceInv, NextAt
<1>7. CountsInv'
  BY <1>1, <1>4 DEF ReadInv, CountsInv, AfterHeader, ListPoints, LatePoints
<1>8. pc' \in HeaderPoints /\ pc' # "error"
  BY <1>1 DEF HeaderPoints
<1> QED
  BY <1>1, <1>3, <1>5, <1>6, <1>7, <1>8, HeaderFrame DEF Follows
-----------------------------------------------------------------------------
(***************************************************************************)
(* The number of variables.                                                *)
(***************************************************************************)

LEMMA WidthsOfFormat ==
  ASSUME NEW v, NEW w, w = Params(v)
  PROVE  /\ w.name \in Nat /\ w.sort \in Nat /\ w.format \in Nat
         /\ w.labelName \in Nat /\ w.varLabel \in Nat
         /\ BytesPerVariable(v) =
              (IF v >= 117 THEN 2 ELSE 1) + w.name + w.format + w.labelName + w.varLabel
         /\ BytesPerVariable(v) \in 1 .. 638
  BY DEF Params, BytesPerVariable

\* A section takes the bytes between its tags.
LEMMA SectionLength ==
  ASSUME NEW f, NEW p \in Nat, NEW open \in Tags, NEW bytes \in Nat,
         NEW close \in Tags, NEW next, Section(f, p, open, bytes, close, next)
  PROVE  next \in Nat /\ p + bytes <= next /\ next <= Source(f).size
<1>1. TagLen(open) \in Nat /\ TagLen(close) \in Nat
  BY TagLengths
<1>2. next = p + TagLen(open) + bytes + TagLen(close) /\ next <= Source(f).size
  BY DEF Section
<1> QED
  BY <1>1, <1>2

LEMMA TaggedType == ASSUME NEW tag \in Tags PROVE Tagged(T, tag) \in Tags
  BY TagsListed DEF Tagged

\* The lists hold the metadata of all variables of the table.
LEMMA ListsFit ==
  ASSUME file \in Files, IsLaidOut(file)
  PROVE  /\ Len(T.variables) \in Nat
         /\ Len(T.variables) * BytesPerVariable(T.version) <= T.size
<1> DEFINE n == Len(T.variables)
           w == Params(T.version)
           tw == IF IsModern(T) THEN 2 ELSE 1
<1>1. n \in Nat
  <2>1. IsListing(T["variables"])
    BY LaidOutParts DEF TableTypes
  <2> QED
    BY <2>1 DEF IsListing
<1>2. /\ w.name \in Nat /\ w.sort \in Nat /\ w.format \in Nat
      /\ w.labelName \in Nat /\ w.varLabel \in Nat
      /\ BytesPerVariable(T.version) = tw + w.name + w.format + w.labelName + w.varLabel
      /\ tw \in Nat
  BY WidthsOfFormat DEF IsModern
<1>3. /\ Section(file, T.at.types, Tagged(T, "<variable_types>"), n * tw,
                 Tagged(T, "</variable_types>"), T.at.names)
      /\ Section(file, T.at.names, Tagged(T, "<varnames>"), n * w.name,
                 Tagged(T, "</varnames>"), T.at.sortlist)
      /\ Section(file, T.at.sortlist, Tagged(T, "<sortlist>"), (n + 1) * w.sort,
                 Tagged(T, "</sortlist>"), T.at.formats)
      /\ Section(file, T.at.formats, Tagged(T, "<formats>"), n * w.format,
                 Tagged(T, "</formats>"), T.at.labelNames)
      /\ Section(file, T.at.labelNames, Tagged(T, "<value_label_names>"), n * w.labelName,
                 Tagged(T, "</value_label_names>"), T.at.varLabels)
      /\ Section(file, T.at.varLabels, Tagged(T, "<variable_labels>"), n * w.varLabel,
                 Tagged(T, "</variable_labels>"), T.at.described)
  BY LaidOutParts DEF Descriptors, T
<1>4. /\ T.at.types \in Nat /\ T.at.names \in Nat /\ T.at.sortlist \in Nat
      /\ T.at.formats \in Nat /\ T.at.labelNames \in Nat /\ T.at.varLabels \in Nat
      /\ T.at.described \in Nat /\ T.size \in Nat
  BY LaidOutSizes DEF Sections
<1> HIDE DEF n, w, tw
<1>5. /\ n * tw \in Nat /\ n * w.name \in Nat /\ (n + 1) * w.sort \in Nat
      /\ n * w.format \in Nat /\ n * w.labelName \in Nat /\ n * w.varLabel \in Nat
  BY <1>1, <1>2
<1>6. T.at.types + n * tw <= T.at.names
  BY <1>3, <1>4, <1>5, SectionLength, TaggedType, TagsListed
<1>7. T.at.names + n * w.name <= T.at.sortlist
  BY <1>3, <1>4, <1>5, SectionLength, TaggedType, TagsListed
<1>8. T.at.sortlist + (n + 1) * w.sort <= T.at.formats
  BY <1>3, <1>4, <1>5, SectionLength, TaggedType, TagsListed
<1>9. T.at.formats + n * w.format <= T.at.labelNames
  BY <1>3, <1>4, <1>5, SectionLength, TaggedType, TagsListed
<1>10. T.at.labelNames + n * w.labelName <= T.at.varLabels
  BY <1>3, <1>4, <1>5, SectionLength, TaggedType, TagsListed
<1>11. T.at.varLabels + n * w.varLabel <= T.at.described /\ T.at.described <= T.size
  BY <1>3, <1>4, <1>5, SectionLength, TaggedType, TagsListed DEF T
<1>12. n * tw + n * w.name + n * w.format + n * w.labelName + n * w.varLabel <= T.size
  BY <1>4, <1>5, <1>6, <1>7, <1>8, <1>9, <1>10, <1>11
<1>13. n * (tw + w.name + w.format + w.labelName + w.varLabel) =
         n * tw + n * w.name + n * w.format + n * w.labelName + n * w.varLabel
  BY <1>1, <1>2
<1> QED
  BY <1>1, <1>2, <1>12, <1>13 DEF n

\* The check of the constructor accepts the counts that do not exceed the file.
LEMMA CountFits ==
  ASSUME file \in Files, IsLaidOut(file), P = Params(T.version),
         TypeBytes = IF IsModern(T) THEN 2 ELSE 1
  PROVE  /\ VariableCountFits(KRead) <=> ~Exceeds(file, KAt(T), MostVariables(file))
         /\ Damage = "none" => VariableCountFits(KRead)
         /\ VariableCountFits(KRead) => KRead = Len(T.variables)
<1> DEFINE m == BytesPerVariable(T.version)
<1>1. m \in 1 .. 638 /\ MinBytesPerVar = m
  BY WidthsOfFormat DEF MinBytesPerVar, IsModern
<1>2. KRead \in 0 .. Mod32 - 1 /\ Size(file) \in 0 .. Mod64 - 1
  BY CountsThere, SizeAssumption
<1>3. MostVariables(file) = Size(file) \div m
  BY DEF MostVariables, T
<1>4. Exceeds(file, KAt(T), MostVariables(file)) = (KRead > MostVariables(file))
  BY DEF Exceeds, KRead
<1> HIDE DEF m
<1>5. KRead * m \in 0 .. Mod64 - 1
  <2>1. KRead \in Nat /\ m \in Nat /\ m <= 638
    BY <1>1, <1>2, ModAssumption
  <2>2. KRead * m <= KRead * 638 /\ KRead * m \in Nat
    BY <2>1
  <2> QED
    BY <1>2, <2>1, <2>2, ModAssumption
<1>6. VariableCountFits(KRead) = (KRead * m <= Size(file))
  <2> DEFINE product == KRead * m
  <2>1. product \in 0 .. Mod64 - 1 /\ VariableCountFits(KRead) = (product % Mod64 <= Size(file))
    BY <1>1, <1>5 DEF VariableCountFits
  <2> HIDE DEF product
  <2>2. product % Mod64 = product
    BY <2>1, ModAssumption
  <2> QED
    BY <2>1, <2>2 DEF product
<1>7. KRead <= Size(file) \div m <=> KRead * m <= Size(file)
  <2>1. KRead \in Nat /\ m \in Nat \ {0} /\ Size(file) \in Nat
    BY <1>1, <1>2, ModAssumption
  <2> QED
    BY <2>1, QuotientBound
<1>8. VariableCountFits(KRead) <=> ~Exceeds(file, KAt(T), MostVariables(file))
  <2>1. Size(file) \div m \in Int /\ KRead \in Int
    BY <1>1, <1>2, ModAssumption
  <2>2. ~(KRead > Size(file) \div m) <=> KRead <= Size(file) \div m
    BY <2>1
  <2>3. ~Exceeds(file, KAt(T), MostVariables(file)) <=> KRead <= Size(file) \div m
    BY <1>3, <1>4, <2>2, Zenon
  <2> QED
    BY <1>6, <1>7, <2>3, Zenon
<1>9. ASSUME Damage = "none" PROVE VariableCountFits(KRead)
  <2>1. KRead = Len(T.variables)
    BY <1>9, CountsThere DEF Sound
  <2>2. Size(file) = T.size
    BY <1>9, LaidOutSizes
  <2> QED
    BY <1>6, <2>1, <2>2, ListsFit DEF m
<1> QED
  BY <1>8, <1>9, CountsThere

\* Columns that were sized, before anything is known of them.
LEMMA ResizedColumns ==
  ASSUME NEW k \in Nat, NEW next, Resize(k, next), next # "error"
  PROVE  /\ VariableCountFits(k) =>
              /\ pc' = next
              /\ NumVars' = k
              /\ \A i \in 1 .. NumVars' : IsColumn(columns'[i])
         /\ ~VariableCountFits(k) => pc' = "error"
<1>1. CASE VariableCountFits(k)
  <2>1. /\ pc' = next
        /\ columns' = [i \in 1 .. k |-> [type |-> 0, name |-> Garbage, labelName |-> Garbage]]
    BY <1>1 DEF Resize, Goto
  <2>2. NumVars' = k
    BY <2>1 DEF NumVars
  <2>3. ASSUME NEW i \in 1 .. NumVars' PROVE IsColumn(columns'[i])
    <3>1. columns'[i] = [type |-> 0, name |-> Garbage, labelName |-> Garbage]
      BY <2>1, <2>2
    <3> QED
      BY <3>1 DEF IsColumn
  <2> QED
    BY <1>1, <2>1, <2>2, <2>3
<1>2. CASE ~VariableCountFits(k)
  BY <1>2 DEF Resize, Goto
<1> QED
  BY <1>1, <1>2

LEMMA ListFrame ==
  ASSUME ReadInv, pc \in EarlyPoints, pc' \in EarlyPoints,
         UNCHANGED <<file, wantLabels, labels, strls>>,
         FormatInv', PlaceInv', CountsInv', DescribedInv', RowsInv'
  PROVE  ReadInv'
<1>1. pc \in BeforeLoading /\ pc' \in BeforeLoading
  BY DEF BeforeLoading
<1> QED
  BY <1>1, StartOfLoading DEF ReadInv

LEMMA EndHeaderFollows ==
  ASSUME OInv, ReadInv, IsLaidOut(file), EndHeader
  PROVE  Follows
<1>1. /\ pc = "headerEnd" /\ Readable /\ Resize(reader.k, "map") /\ Advance(0)
      /\ UNCHANGED <<file, wantLabels, reader, strls, labels>>
  BY DEF EndHeader, Resize, At, Unchanged
<1>2. pc \in ModernHeaderPoints \ {"map", "release"} /\ pc \notin {"first", "release"}
  BY <1>1 DEF ModernHeaderPoints
<1>3. file \in Files /\ pos' = T.at.map /\ IsModern(T) /\ pc \in EarlyPoints
  BY <1>1, <1>2, InHeader, PointsOf DEF NextAt
<1>4. reader.k = KRead /\ reader.nObs = NRead /\ KRead \in Nat
  BY <1>1, <1>3, CountsThere, ModAssumption DEF ReadInv, CountsInv
<1>5. /\ VariableCountFits(KRead) <=> ~Exceeds(file, KAt(T), MostVariables(file))
      /\ Damage = "none" => VariableCountFits(KRead)
      /\ VariableCountFits(KRead) => KRead = Len(T.variables)
  BY <1>2, <1>3, FormatRead, CountFits
<1>6. Damage = "none" => pc' # "error"
  BY <1>1, <1>4, <1>5, ResizedColumns
<1>7. ASSUME pc' # "error" PROVE ReadInv'
  <2>1. /\ VariableCountFits(KRead) /\ pc' = "map" /\ NumVars' = KRead
        /\ \A i \in 1 .. NumVars' : IsColumn(columns'[i])
    BY <1>1, <1>4, <1>7, ResizedColumns
  <2>2. T' = T /\ KRead' = KRead /\ NRead' = NRead
    BY <1>1, SameFile
  <2>3. FormatInv'
    <3>1. pc' \notin LegacyPoints \cup {"first", "release"}
      BY <2>1 DEF LegacyPoints
    <3> QED
      BY <1>1, <1>2, <1>3, <3>1, FormatKept
  <2>4. PlaceInv'
    BY <1>3, <2>1, <2>2 DEF PlaceInv
  <2>5. CountsInv'
    BY <1>1, <1>4, <1>5, <2>1, <2>2 DEF CountsInv
  <2>6. DescribedInv'
    <3>1. /\ pc' \notin ListPoints /\ pc' # "varLabels"
          /\ pc' \notin {"characteristics", "expansion", "width"} \cup LatePoints
      BY <2>1 DEF ListPoints, LatePoints
    <3>2. NumVars' = Len(T'.variables)
      BY <1>5, <2>1, <2>2
    <3> QED
      BY <2>1, <3>1, <3>2, Zenon DEF DescribedInv
  <2>7. RowsInv'
    BY <2>1 DEF RowsInv, ListPoints, LatePoints
  <2>8. pc' \in EarlyPoints
    BY <2>1 DEF EarlyPoints
  <2> QED
    BY <1>1, <1>3, <2>3, <2>4, <2>5, <2>6, <2>7, <2>8, ListFrame
<1> QED
  BY <1>6, <1>7 DEF Follows

LEMMA LegacyHeaderFollows ==
  ASSUME OInv, ReadInv, IsLaidOut(file), ParseLegacyHeader
  PROVE  Follows
<1>1. /\ pc = "legacy" /\ Readable /\ Advance(0)
      /\ UNCHANGED <<file, wantLabels, strls, labels>>
  BY DEF ParseLegacyHeader, Resize, At, Unchanged
<1>2. /\ file \in Files /\ pos \in Nat /\ DOMAIN reader = ReaderFields
      /\ pc \in EarlyPoints /\ pc \in ReadPoints
  BY <1>1 DEF OInv, ScalarsInv, ReaderInv, EarlyPoints, HeaderPoints, ReadPoints
<1>3. ~IsModern(T) /\ pos = 0
  <2>1. ~IsModern(T) /\ pos = T.at.legacy
    BY <1>1 DEF ReadInv, FormatInv, PlaceInv, LegacyPoints, SectionPoints
  <2> QED
    BY <2>1, LaidOutParts DEF Header, LegacyHeader, T
<1>4. pos' = T.at.types
  BY <1>1, <1>2, LegacySection, SectionRead DEF NextAt
<1>5. Field("K", 4) = {KRead} /\ Field("N", 6) = {NRead}
  <2>1. pos + 4 = KAt(T) /\ pos + 6 = NAt(T)
    BY <1>3 DEF KAt, NAt
  <2> QED
    BY <1>2, <2>1, CountsThere DEF Field, TokenAt, KRead, NRead
<1>6. Resize(KRead, "types") /\ reader' = [reader EXCEPT !.k = KRead, !.nObs = NRead]
  BY <1>5 DEF ParseLegacyHeader
<1>7. /\ VariableCountFits(KRead) <=> ~Exceeds(file, KAt(T), MostVariables(file))
      /\ Damage = "none" => VariableCountFits(KRead)
      /\ VariableCountFits(KRead) => KRead = Len(T.variables)
  BY <1>1, <1>2, FormatRead, CountFits
<1>8. KRead \in Nat
  BY <1>2, CountsThere, ModAssumption
<1>9. Damage = "none" => pc' # "error"
  BY <1>6, <1>7, <1>8, ResizedColumns
<1>10. ASSUME pc' # "error" PROVE ReadInv'
  <2>1. /\ VariableCountFits(KRead) /\ pc' = "types" /\ NumVars' = KRead
        /\ \A i \in 1 .. NumVars' : IsColumn(columns'[i])
    BY <1>6, <1>8, <1>10, ResizedColumns
  <2>2. T' = T /\ KRead' = KRead /\ NRead' = NRead
    BY <1>1, SameFile
  <2>3. FormatInv'
    <3>1. reader.version = T.version /\ reader.modern = IsModern(T)
      BY <1>1, <1>2, FormatRead
    <3>2. reader'.version = T.version /\ reader'.modern = IsModern(T)
      BY <1>2, <1>6, <3>1 DEF ReaderFields
    <3>3. IsModern(T) \in BOOLEAN
      BY DEF IsModern
    <3>4. reader'.modern = (pc' # "first" /\ IsModern(T'))
      BY <1>3, <2>1, <2>2, <3>2, <3>3
    <3> QED
      BY <1>3, <2>1, <2>2, <3>2, <3>4 DEF FormatInv, ModernPoints
  <2>4. PlaceInv'
    BY <1>4, <2>1, <2>2 DEF PlaceInv
  <2>5. CountsInv'
    BY <1>1, <1>2, <1>6, <1>7, <2>1, <2>2 DEF CountsInv, ReaderFields
  <2>6. DescribedInv'
    <3>1. /\ pc' \notin ListPoints \ {"types"} /\ pc' # "varLabels"
          /\ pc' \notin ListPoints \ {"types", "names"}
          /\ pc' \notin {"characteristics", "expansion", "width"} \cup LatePoints
      BY <2>1 DEF ListPoints, LatePoints
    <3>2. NumVars' = Len(T'.variables)
      BY <1>7, <2>1, <2>2
    <3> QED
      BY <2>1, <3>1, <3>2, Zenon DEF DescribedInv
  <2>7. RowsInv'
    <3>1. pc' # "expansion" /\ pc' \notin {"width"} \cup LatePoints /\ pc' # "width"
          /\ pc' \notin LatePoints
      BY <2>1 DEF LatePoints
    <3> QED
      BY <1>3, <2>2, <3>1, Zenon DEF RowsInv
  <2>8. pc' \in EarlyPoints
    BY <2>1 DEF EarlyPoints
  <2> QED
    BY <1>1, <1>2, <2>3, <2>4, <2>5, <2>6, <2>7, <2>8, ListFrame
<1> QED
  BY <1>9, <1>10 DEF Follows
-----------------------------------------------------------------------------
(***************************************************************************)
(* The map, and the lists of the descriptors.                              *)
(***************************************************************************)

LEMMA DataThere ==
  ASSUME IsLaidOut(file), file \in Files, IsModern(T)
  PROVE  /\ MapEntryAt(T, 9) \in DOMAIN Content(file)
         /\ Content(file)[MapEntryAt(T, 9)].kind = "dataAt"
         /\ DataRead \in 0 .. Mod64 - 1
         /\ Damage \in Sound \/ ~Exceeds(file, MapEntryAt(T, 9), MostData(file)) =>
              DataRead + DataTag = T.dataOffset
         /\ Is(file, MapEntryAt(T, 10), "strlsAt", T.at.strls)
         /\ Is(file, MapEntryAt(T, 11), "labelsAt", T.at.labels)
<1>1. ModernHeader(file)
  BY LaidOutParts DEF Header, T
<1>2. /\ Sized(file, MapEntryAt(T, 9), "dataAt", T.at.data, MostData(file))
      /\ T.dataOffset = T.at.data + DataTag
      /\ Is(file, MapEntryAt(T, 10), "strlsAt", T.at.strls)
      /\ Is(file, MapEntryAt(T, 11), "labelsAt", T.at.labels)
  BY <1>1 DEF ModernHeader, DataRead, T
<1>3. /\ MapEntryAt(T, 9) \in DOMAIN Content(file)
      /\ Content(file)[MapEntryAt(T, 9)].kind = "dataAt"
      /\ Damage \in Sound \/ ~Exceeds(file, MapEntryAt(T, 9), MostData(file)) =>
           DataRead = T.at.data
  BY <1>2 DEF Sized, Damage, DataRead
<1>4. DataRead \in NumbersOf("dataAt")
  BY <1>3, ContentAssumption DEF DataRead, Numbers
<1>5. DataRead \in 0 .. Mod64 - 1
  BY <1>4 DEF NumbersOf
<1> QED
  BY <1>2, <1>3, <1>5

\* The columns of a table are a sequence.
LEMMA ColumnsListed ==
  ASSUME IsLaidOut(file)
  PROVE  Len(T.columns) = Cardinality(InRows(T)) /\ Cardinality(InRows(T)) \in Nat
<1>1. PICK kept : T.columns = [k \in 1 .. Cardinality(InRows(T)) |->
             [type |-> VariableType(T, kept[k]), name |-> T.variables[kept[k]].name,
              labelName |-> T.variables[kept[k]].labelName]]
  BY LaidOutParts, Zenon DEF Columns
<1>2. IsListing(T["variables"])
  BY LaidOutParts DEF TableTypes
<1>3. IsFiniteSet(1 .. Len(T.variables))
  BY <1>2, FS_Interval DEF IsListing
<1>4. IsFiniteSet(InRows(T))
  BY <1>3, FS_Subset DEF InRows
<1>5. Cardinality(InRows(T)) \in Nat
  BY <1>4, FS_CardinalityType
<1> QED
  BY <1>1, <1>5

\* The widths of the columns add up to the ends of the cells in a row.
LEMMA CellsThere ==
  ASSUME IsLaidOut(file), file \in Files
  PROVE  /\ T.cell \in [0 .. Len(T.columns) -> Nat] /\ T.cell[0] = 0
         /\ \A i \in 1 .. Len(T.columns) :
              T.cell[i] = T.cell[i - 1] + TypeWidth(T.columns[i].type)
         /\ RowWidth(T) < Mod32
         /\ T.dataOffset + T.nObs * RowWidth(T) <= T.size
         /\ T.nObs \in Nat /\ T.dataOffset \in Nat
  BY LaidOutParts DEF Rows, TableTypes

\* The sum wraps to one of the first bytes, or is what was read and the tag;
\* it does not wrap when what was read is true.
LEMMA SumOfData ==
  ASSUME IsLaidOut(file), file \in Files, IsModern(T)
  PROVE  /\ Wraps => DataSum < DataTag /\ Damage \notin Sound
         /\ ~Wraps => DataSum = DataRead + DataTag
<1>1. DataRead \in 0 .. Mod64 - 1 /\ Mod64 \in Nat /\ Mod64 > DataTag
  BY DataThere, ModAssumption DEF DataTag
<1>2. ASSUME Wraps PROVE DataSum < DataTag /\ Damage \notin Sound
  <2>1. DataRead + DataTag >= Mod64
    BY <1>2 DEF Wraps
  <2>2. DataSum = DataRead + DataTag - Mod64
    BY <1>1, <2>1 DEF DataSum, DataTag
  <2>3. T.dataOffset < Mod64
    <3>1. T.dataOffset + T.nObs * RowWidth(T) <= T.size /\ T.size < Mod64 /\ T.size \in Nat
          /\ T.nObs \in Nat /\ T.dataOffset \in Nat
      BY LaidOutParts DEF Rows, TableTypes
    <3>2. RowWidth(T) \in Nat
      <4>1. T.cell \in [0 .. Len(T.columns) -> Nat] /\ Len(T.columns) \in Nat
        BY CellsThere, ColumnsListed
      <4> QED
        BY <4>1 DEF RowWidth
    <3>3. T.nObs * RowWidth(T) \in Nat
      BY <3>1, <3>2
    <3> DEFINE rows == T.nObs * RowWidth(T)
    <3> HIDE DEF rows
    <3>4. rows \in Nat /\ T.dataOffset + rows <= T.size
      BY <3>1, <3>3 DEF rows
    <3> QED
      BY <1>1, <3>1, <3>4
  <2>4. Damage \in Sound => DataRead + DataTag < Mod64
    BY <2>3, DataThere
  <2>5. Damage \notin Sound
    BY <1>1, <2>1, <2>4 DEF DataTag
  <2> QED
    BY <1>1, <2>2, <2>5 DEF DataTag
<1>3. ASSUME ~Wraps PROVE DataSum = DataRead + DataTag
  <2>1. DataRead + DataTag \in 0 .. Mod64 - 1
    BY <1>1, <1>3 DEF Wraps, DataTag
  <2> QED
    BY <1>1, <2>1 DEF DataSum
<1> QED
  BY <1>2, <1>3

\* A field of the file that the layout has at a place.
LEMMA FieldAt ==
  ASSUME NEW p, p \in DOMAIN Content(file), NEW kind, Content(file)[p].kind = kind,
         NEW skip, pos + skip = p
  PROVE  Field(kind, skip) = {Content(file)[p].value}
  BY DEF Field, TokenAt

LEMMA MapFollows ==
  ASSUME OInv, ReadInv, IsLaidOut(file), ParseMap
  PROVE  Follows
<1>1. /\ pc = "map" /\ Readable /\ Advance(0) /\ pc' = "types"
      /\ UNCHANGED <<file, wantLabels, columns, strls, labels>>
  BY DEF ParseMap, At, Unchanged
<1>2. pc \in ModernHeaderPoints /\ pc \notin {"first", "release"}
  BY <1>1 DEF ModernHeaderPoints
<1>3. /\ file \in Files /\ pos = T.at.map /\ pos \in Nat /\ pos' = T.at.types
      /\ IsModern(T) /\ DOMAIN reader = ReaderFields
  BY <1>1, <1>2, InHeader DEF NextAt
<1>4. T' = T /\ KRead' = KRead /\ NRead' = NRead /\ DataSum' = DataSum
  BY <1>1, SameFile
<1>5. /\ Field("dataAt", Body + 72) = {DataRead}
      /\ Field("strlsAt", Body + 80) = {T.at.strls}
      /\ Field("labelsAt", Body + 88) = {T.at.labels}
  <2>1. Body = TagLen("<map>") /\ Body \in Nat
    BY <1>1, TagLengths, TagsListed DEF Body, Expected, Layout
  <2>2. /\ pos + (Body + 72) = MapEntryAt(T, 9)
        /\ pos + (Body + 80) = MapEntryAt(T, 10)
        /\ pos + (Body + 88) = MapEntryAt(T, 11)
    BY <1>3, <2>1 DEF MapEntryAt
  <2>3. Field("dataAt", Body + 72) = {DataRead}
    BY <1>3, <2>2, DataThere, FieldAt DEF DataRead
  <2>4. Field("strlsAt", Body + 80) = {T.at.strls}
    <3>1. Is(file, pos + (Body + 80), "strlsAt", T.at.strls)
      BY <1>3, <2>2, DataThere
    <3> QED
      BY <3>1, FieldThere
  <2>5. Field("labelsAt", Body + 88) = {T.at.labels}
    <3>1. Is(file, pos + (Body + 88), "labelsAt", T.at.labels)
      BY <1>3, <2>2, DataThere
    <3> QED
      BY <3>1, FieldThere
  <2> QED
    BY <2>3, <2>4, <2>5
<1>6. reader' = [reader EXCEPT !.dataOffset = DataSum,
                               !.strlsOffset = T.at.strls, !.labelsOffset = T.at.labels]
  BY <1>5 DEF ParseMap, DataSum
<1>8. /\ reader'.dataOffset = DataSum /\ reader'.strlsOffset = T.at.strls
      /\ reader'.labelsOffset = T.at.labels /\ reader'.nObs = reader.nObs
      /\ reader'.version = reader.version /\ reader'.modern = reader.modern
  BY <1>3, <1>6 DEF ReaderFields
<1>9. FormatInv'
  <2>1. pc' \notin LegacyPoints \cup {"first", "release"}
    BY <1>1 DEF LegacyPoints
  <2> QED
    BY <1>1, <1>2, <1>3, <1>8, <2>1, FormatKept
<1>10. PlaceInv'
  BY <1>1, <1>3, <1>4 DEF PlaceInv
<1>11. CountsInv'
  <2>1. reader.nObs = NRead /\ ~Exceeds(file, KAt(T), MostVariables(file))
    BY <1>1 DEF ReadInv, CountsInv, AfterHeader
  <2> QED
    BY <1>1, <1>4, <1>8, <2>1 DEF CountsInv
<1>12. DescribedInv'
  <2>1. /\ NumVars = Len(T.variables)
        /\ \A i \in 1 .. NumVars : IsColumn(columns[i])
    BY <1>1 DEF ReadInv, DescribedInv
  <2>2. NumVars' = NumVars
    BY <1>1 DEF NumVars
  <2>3. /\ pc' \notin ListPoints \ {"types"} /\ pc' # "varLabels"
        /\ pc' \notin ListPoints \ {"types", "names"}
        /\ pc' \notin {"characteristics", "expansion", "width"} \cup LatePoints
    BY <1>1 DEF ListPoints, LatePoints
  <2>4. \A i \in 1 .. NumVars' : IsColumn(columns'[i])
    BY <1>1, <2>1, <2>2
  <2> QED
    BY <1>4, <2>1, <2>2, <2>3, <2>4, Zenon DEF DescribedInv
<1>13. RowsInv'
  <2>1. pc' # "expansion" /\ pc' \notin {"width"} \cup LatePoints /\ pc' # "width"
        /\ pc' \notin LatePoints
    BY <1>1 DEF LatePoints
  <2> QED
    BY <1>4, <1>8, <2>1, Zenon DEF RowsInv
<1>14. pc \in EarlyPoints /\ pc' \in EarlyPoints /\ pc' # "error"
  BY <1>1 DEF EarlyPoints
<1> QED
  BY <1>1, <1>9, <1>10, <1>11, <1>12, <1>13, <1>14, ListFrame DEF Follows

\* What a step of the descriptors starts from.
LEMMA InLists ==
  ASSUME OInv, ReadInv, IsLaidOut(file), pc \in ListPoints, Readable
  PROVE  /\ file \in Files /\ pos = T.at[pc] /\ pos \in Nat
         /\ Advance(0) => pos' = NextAt(pc)
         /\ NumVars = Len(T.variables) /\ NumVars \in Nat
         /\ \A i \in 1 .. NumVars : IsColumn(columns[i])
         /\ P = Params(T.version) /\ reader.modern = IsModern(T)
         /\ TypeBytes = IF IsModern(T) THEN 2 ELSE 1
<1>1. file \in Files /\ pos \in Nat
  BY DEF OInv, ScalarsInv
<1>2. pc \in ReadPoints /\ pc \notin {"first", "release"}
  BY Zenon DEF ListPoints, ReadPoints
<1>3. Advance(0) => pos' = NextAt(pc)
  BY <1>1, <1>2, ListSections, SectionRead
<1>4. pos = T.at[pc]
  BY Zenon DEF ReadInv, PlaceInv, ListPoints, SectionPoints
<1>5. /\ NumVars = Len(T.variables)
      /\ \A i \in 1 .. NumVars : IsColumn(columns[i])
  BY Zenon DEF ReadInv, DescribedInv
<1>6. NumVars \in Nat
  BY DEF OInv, ColumnsInv, IsList, NumVars
<1> QED
  BY <1>1, <1>2, <1>3, <1>4, <1>5, <1>6, FormatRead

\* A list was read: what is left to show is what it gave to the columns.
LEMMA ListStep ==
  ASSUME OInv, ReadInv, IsLaidOut(file), pc \in ListPoints, pc' \in ListPoints,
         Readable, Advance(0), T.at[pc'] = NextAt(pc),
         UNCHANGED <<file, wantLabels, reader, strls, labels>>, DescribedInv'
  PROVE  Follows
<1>1. file \in Files /\ pos' = NextAt(pc)
  BY InLists
<1>2. /\ T' = T /\ KRead' = KRead /\ NRead' = NRead /\ DataSum' = DataSum
  BY SameFile
<1>3. /\ pc' \notin ModernPoints \cup LegacyPoints \cup LatePoints
      /\ pc' \notin {"first", "release", "labelText", "headerEnd", "N", "label", "timestamp",
                     "characteristics", "expansion", "width", "error"}
      /\ pc \in AfterHeader /\ pc' \in EarlyPoints /\ pc \in EarlyPoints
      /\ pc \notin {"first", "release"}
  BY Zenon DEF ListPoints, ModernPoints, LegacyPoints, LatePoints, AfterHeader, EarlyPoints
<1>4. FormatInv'
  <2>1. reader.version = T.version /\ reader.modern = (pc # "first" /\ IsModern(T))
    BY <1>3 DEF ReadInv, FormatInv
  <2> QED
    BY <1>2, <1>3, <2>1 DEF FormatInv
<1>5. PlaceInv'
  BY <1>1, <1>2, <1>3 DEF PlaceInv
<1>6. CountsInv'
  <2>1. reader.nObs = NRead /\ ~Exceeds(file, KAt(T), MostVariables(file))
    BY <1>3 DEF ReadInv, CountsInv
  <2> QED
    BY <1>2, <1>3, <2>1 DEF CountsInv
<1>7. RowsInv'
  <2>1. IsModern(T) => /\ reader.dataOffset = DataSum
                       /\ reader.strlsOffset = T.at.strls
                       /\ reader.labelsOffset = T.at.labels
    BY DEF ReadInv, RowsInv
  <2> QED
    BY <1>2, <1>3, <2>1 DEF RowsInv
<1> QED
  BY <1>3, <1>4, <1>5, <1>6, <1>7, ListFrame DEF Follows

LEMMA SkipListFollows ==
  ASSUME OInv, ReadInv, IsLaidOut(file), SkipSortlist \/ ParseFormats
  PROVE  Follows
<1>1. /\ pc \in {"sortlist", "formats"} /\ Readable /\ Advance(0)
      /\ pc' = IF pc = "sortlist" THEN "formats" ELSE "labelNames"
      /\ UNCHANGED <<file, wantLabels, reader, columns, strls, labels, mapped>>
  BY DEF SkipSortlist, ParseFormats, Skip, At, Unchanged
<1>2. pc \in ListPoints /\ pc' \in ListPoints /\ T.at[pc'] = NextAt(pc)
  BY <1>1 DEF ListPoints, NextAt
<1>3. DescribedInv'
  <2>1. T' = T /\ NumVars' = NumVars
    BY <1>1, SameFile DEF NumVars
  <2>2. /\ pc' # "varLabels" /\ pc' \notin {"characteristics", "expansion", "width"} \cup LatePoints
        /\ pc \in ListPoints \ {"types"} /\ pc \in ListPoints \ {"types", "names"}
        /\ pc \in {"map"} \cup ListPoints
    BY <1>1 DEF ListPoints, LatePoints
  <2>3. /\ NumVars = Len(T.variables)
        /\ \A i \in 1 .. NumVars : IsColumn(columns[i])
        /\ \A i \in 1 .. NumVars : columns[i].type = VariableType(T, i)
        /\ \A i \in 1 .. NumVars : columns[i].name = T.variables[i].name
    BY <2>2, Zenon DEF ReadInv, DescribedInv
  <2> QED
    BY <1>1, <2>1, <2>2, <2>3 DEF DescribedInv
<1> QED
  BY <1>1, <1>2, <1>3, ListStep

\* Columns that were made from a type, a name and the name of a label table.
LEMMA BuiltColumns ==
  ASSUME NEW c, NEW type, NEW name, NEW labelName,
         c = [type |-> type, name |-> name, labelName |-> labelName]
  PROVE  IsColumn(c) /\ c.type = type /\ c.name = name /\ c.labelName = labelName
  BY DEF IsColumn

\* An entry of a list, seen from the handle.
LEMMA EntryThere ==
  ASSUME pos \in Nat, NEW i \in Nat, NEW width \in Nat, NEW open \in Tags,
         Body = TagLen(Tagged(T, open))
  PROVE  EntryAt(T, pos, open, i, width) = pos + (Body + (i - 1) * width)
<1>1. Tagged(T, open) \in Tags
  BY TaggedType
<1>2. TagLen(Tagged(T, open)) \in Nat /\ (i - 1) * width \in Int
  BY <1>1, TagAssumption
<1> QED
  BY <1>2 DEF EntryAt

\* Columns are records, whose fields are set one at a time.
LEMMA ColumnWith ==
  ASSUME NEW c, IsColumn(c), NEW x
  PROVE  /\ [c EXCEPT !.type = x] = [type |-> x, name |-> c.name, labelName |-> c.labelName]
         /\ [c EXCEPT !.name = x] = [type |-> c.type, name |-> x, labelName |-> c.labelName]
         /\ [c EXCEPT !.labelName = x] = [type |-> c.type, name |-> c.name, labelName |-> x]
  BY DEF IsColumn

LEMMA BodyOfList ==
  ASSUME ReadInv, IsLaidOut(file), file \in Files, NEW open, NEW n, NEW close,
         pc \notin {"first", "release"}, Expected = List(open, n, close)
  PROVE  Body = TagLen(Tagged(T, open))
<1>1. List(open, n, close) = Layout(Tagged(T, open), n, Tagged(T, close))
  BY FormatRead
<1> QED
  BY <1>1 DEF Body, Layout

LEMMA TypesFollowLayout ==
  ASSUME OInv, ReadInv, IsLaidOut(file), ParseVariableTypes
  PROVE  Follows
<1>1. PICK raw \in [1 .. NumVars -> UNION {RawType(i) : i \in 1 .. NumVars}] :
        /\ \A i \in 1 .. NumVars : raw[i] \in RawType(i)
        /\ Describe("types",
             IF \A i \in 1 .. NumVars : TypeOf(raw[i]) \in KnownTypes
             THEN "names" ELSE "error",
             [i \in 1 .. NumVars |-> [columns[i] EXCEPT !.type = TypeOf(raw[i])]])
  BY DEF ParseVariableTypes
<1>2. /\ pc = "types" /\ Readable /\ Advance(0)
      /\ UNCHANGED <<file, wantLabels, reader, strls, labels>>
  BY <1>1 DEF Describe, At, Unchanged
<1>3. /\ pc' = IF \A i \in 1 .. NumVars : TypeOf(raw[i]) \in KnownTypes
               THEN "names" ELSE "error"
      /\ columns' = [i \in 1 .. NumVars |-> [columns[i] EXCEPT !.type = TypeOf(raw[i])]]
  BY <1>1 DEF Describe
<1>4. pc \in ListPoints /\ pc \notin {"first", "release"}
  BY <1>2 DEF ListPoints
<1>5. /\ file \in Files /\ pos = T.at.types /\ pos \in Nat
      /\ NumVars = Len(T.variables) /\ NumVars \in Nat
      /\ \A i \in 1 .. NumVars : IsColumn(columns[i])
      /\ reader.modern = IsModern(T)
      /\ TypeBytes = IF IsModern(T) THEN 2 ELSE 1
  BY <1>2, <1>4, InLists
<1>6. ASSUME NEW i \in 1 .. NumVars PROVE RawType(i) = {T.variables[i].type}
  <2>1. Is(file, EntryAt(T, pos, "<variable_types>", i, TypeBytes), "type", T.variables[i].type)
    BY <1>5, LaidOutParts DEF Descriptors, T
  <2>2. Expected = List("<variable_types>", NumVars * TypeBytes, "</variable_types>")
    BY <1>2 DEF Expected
  <2>3. Body = TagLen(Tagged(T, "<variable_types>"))
    BY <1>4, <1>5, <2>2, BodyOfList
  <2>4. i \in Nat /\ TypeBytes \in Nat
    BY <1>5
  <2>5. EntryAt(T, pos, "<variable_types>", i, TypeBytes) = pos + (Body + (i - 1) * TypeBytes)
    <3>1. "<variable_types>" \in Tags
      BY TagsListed
    <3> QED
      BY <1>5, <2>3, <2>4, <3>1, EntryThere
  <2>6. Is(file, pos + (Body + (i - 1) * TypeBytes), "type", T.variables[i].type)
    BY <2>1, <2>5
  <2> QED
    BY <2>6, FieldThere DEF RawType
<1>7. \A i \in 1 .. NumVars : TypeOf(raw[i]) = VariableType(T, i)
  <2> SUFFICES ASSUME NEW i \in 1 .. NumVars PROVE TypeOf(raw[i]) = VariableType(T, i)
    OBVIOUS
  <2>1. raw[i] = T.variables[i].type
    BY <1>1, <1>6
  <2> QED
    BY <1>5, <2>1 DEF TypeOf, VariableType
<1>8. \A i \in 1 .. NumVars : VariableType(T, i) \in KnownTypes
  BY <1>5, LaidOutParts DEF Columns
<1>9. pc' = "names"
  BY <1>3, <1>7, <1>8
<1>10. columns' = [i \in 1 .. NumVars |-> [columns[i] EXCEPT !.type = VariableType(T, i)]]
  BY <1>3, <1>7
<1>11. NumVars' = NumVars
  BY <1>5, <1>10 DEF NumVars
<1>12. \A i \in 1 .. NumVars :
         columns'[i] = [type |-> VariableType(T, i), name |-> columns[i].name,
                        labelName |-> columns[i].labelName]
  <2> SUFFICES ASSUME NEW i \in 1 .. NumVars
      PROVE  columns'[i] = [type |-> VariableType(T, i), name |-> columns[i].name,
                            labelName |-> columns[i].labelName]
    OBVIOUS
  <2>1. columns'[i] = [columns[i] EXCEPT !.type = VariableType(T, i)]
    BY <1>10
  <2>2. IsColumn(columns[i])
    BY <1>5
  <2> QED
    BY <2>1, <2>2, ColumnWith
<1>13. DescribedInv'
  <2>1. T' = T
    BY <1>2, SameFile
  <2>2. /\ pc' \notin ListPoints \ {"types", "names"} /\ pc' # "varLabels"
        /\ pc' \notin {"characteristics", "expansion", "width"} \cup LatePoints
    BY <1>9 DEF ListPoints, LatePoints
  <2>3. \A i \in 1 .. NumVars' : IsColumn(columns'[i])
    BY <1>11, <1>12, BuiltColumns
  <2>4. ASSUME NEW i \in 1 .. NumVars' PROVE columns'[i].type = VariableType(T', i)
    <3>1. i \in 1 .. NumVars
      BY <1>11
    <3>2. columns'[i] = [type |-> VariableType(T, i), name |-> columns[i].name,
                         labelName |-> columns[i].labelName]
      BY <1>12, <3>1, Zenon
    <3>3. columns'[i].type = VariableType(T, i)
      BY <3>2
    <3> QED
      BY <2>1, <3>3
  <2>5. NumVars' = Len(T'.variables)
    BY <1>5, <1>11, <2>1
  <2> QED
    BY <2>2, <2>3, <2>4, <2>5, Zenon DEF DescribedInv
<1>14. pc' \in ListPoints /\ T.at[pc'] = NextAt(pc)
  BY <1>2, <1>9 DEF ListPoints, NextAt
<1> QED
  BY <1>2, <1>4, <1>13, <1>14, ListStep

LEMMA NamesFollow ==
  ASSUME OInv, ReadInv, IsLaidOut(file), ParseVarnames
  PROVE  Follows
<1>1. /\ pc = "names" /\ Readable /\ Advance(0) /\ pc' = "sortlist"
      /\ UNCHANGED <<file, wantLabels, reader, strls, labels>>
      /\ columns' = [i \in 1 .. NumVars |->
           [columns[i] EXCEPT !.name = StringAt("name", Body + (i - 1) * P.name)]]
  BY DEF ParseVarnames, Describe, At, Unchanged
<1>2. pc \in ListPoints /\ pc \notin {"first", "release"}
  BY <1>1 DEF ListPoints
<1>3. /\ file \in Files /\ pos = T.at.names /\ pos \in Nat
      /\ NumVars = Len(T.variables) /\ NumVars \in Nat
      /\ \A i \in 1 .. NumVars : IsColumn(columns[i])
      /\ P = Params(T.version)
  BY <1>1, <1>2, InLists
<1>4. ASSUME NEW i \in 1 .. NumVars
      PROVE  StringAt("name", Body + (i - 1) * P.name) = T.variables[i].name
  <2>1. Is(file, EntryAt(T, pos, "<varnames>", i, P.name), "name", T.variables[i].name)
    BY <1>3, LaidOutParts DEF Descriptors, T
  <2>2. Expected = List("<varnames>", NumVars * P.name, "</varnames>")
    BY <1>1 DEF Expected
  <2>3. Body = TagLen(Tagged(T, "<varnames>"))
    BY <1>2, <1>3, <2>2, BodyOfList
  <2>4. i \in Nat /\ P.name \in Nat
    BY <1>3, ParamsType
  <2>5. EntryAt(T, pos, "<varnames>", i, P.name) = pos + (Body + (i - 1) * P.name)
    <3>1. "<varnames>" \in Tags
      BY TagsListed
    <3> QED
      BY <1>3, <2>3, <2>4, <3>1, EntryThere
  <2>6. Is(file, pos + (Body + (i - 1) * P.name), "name", T.variables[i].name)
    BY <2>1, <2>5
  <2> QED
    BY <2>6, FieldThere
<1>5. /\ pc \in {"map"} \cup ListPoints /\ pc \in ListPoints \ {"types"}
      /\ pc' \notin {"characteristics", "expansion", "width"} \cup LatePoints
  BY <1>1 DEF ListPoints, LatePoints
<1>6. \A i \in 1 .. NumVars : columns[i].type = VariableType(T, i)
  BY <1>5, Zenon DEF ReadInv, DescribedInv
<1>7. columns' = [i \in 1 .. NumVars |-> [columns[i] EXCEPT !.name = T.variables[i].name]]
  BY <1>1, <1>4
<1>8. NumVars' = NumVars
  BY <1>3, <1>7 DEF NumVars
<1>9. \A i \in 1 .. NumVars :
        columns'[i] = [type |-> VariableType(T, i), name |-> T.variables[i].name,
                       labelName |-> columns[i].labelName]
  <2> SUFFICES ASSUME NEW i \in 1 .. NumVars
      PROVE  columns'[i] = [type |-> VariableType(T, i), name |-> T.variables[i].name,
                            labelName |-> columns[i].labelName]
    OBVIOUS
  <2>1. columns'[i] = [columns[i] EXCEPT !.name = T.variables[i].name]
    BY <1>7
  <2>2. IsColumn(columns[i]) /\ columns[i].type = VariableType(T, i)
    BY <1>3, <1>6
  <2>3. columns'[i] = [type |-> columns[i].type, name |-> T.variables[i].name,
                       labelName |-> columns[i].labelName]
    BY <2>1, <2>2, ColumnWith
  <2> QED
    BY <2>2, <2>3
<1>10. DescribedInv'
  <2>1. T' = T
    BY <1>1, SameFile
  <2>2. \A i \in 1 .. NumVars' : IsColumn(columns'[i])
    BY <1>8, <1>9, BuiltColumns
  <2>3. ASSUME NEW i \in 1 .. NumVars'
        PROVE  columns'[i].type = VariableType(T', i) /\ columns'[i].name = T'.variables[i].name
    <3>1. i \in 1 .. NumVars
      BY <1>8
    <3>2. columns'[i] = [type |-> VariableType(T, i), name |-> T.variables[i].name,
                         labelName |-> columns[i].labelName]
      BY <1>9, <3>1, Zenon
    <3>3. columns'[i].type = VariableType(T, i) /\ columns'[i].name = T.variables[i].name
      BY <3>2
    <3> QED
      BY <2>1, <3>3
  <2>4. NumVars' = Len(T'.variables) /\ pc' # "varLabels"
    BY <1>1, <1>3, <1>8, <2>1
  <2> QED
    BY <1>5, <2>2, <2>3, <2>4, Zenon DEF DescribedInv
<1>11. pc' \in ListPoints /\ T.at[pc'] = NextAt(pc)
  BY <1>1 DEF ListPoints, NextAt
<1> QED
  BY <1>1, <1>2, <1>10, <1>11, ListStep

LEMMA LabelNamesFollow ==
  ASSUME OInv, ReadInv, IsLaidOut(file), ParseValueLabelNames
  PROVE  Follows
<1>1. /\ pc = "labelNames" /\ Readable /\ Advance(0) /\ pc' = "varLabels"
      /\ UNCHANGED <<file, wantLabels, reader, strls, labels>>
      /\ columns' = [i \in 1 .. NumVars |->
           [columns[i] EXCEPT !.labelName =
              StringAt("labelName", Body + (i - 1) * P.labelName)]]
  BY DEF ParseValueLabelNames, Describe, At, Unchanged
<1>2. pc \in ListPoints /\ pc \notin {"first", "release"}
  BY <1>1 DEF ListPoints
<1>3. /\ file \in Files /\ pos = T.at.labelNames /\ pos \in Nat
      /\ NumVars = Len(T.variables) /\ NumVars \in Nat
      /\ \A i \in 1 .. NumVars : IsColumn(columns[i])
      /\ P = Params(T.version)
  BY <1>1, <1>2, InLists
<1>4. ASSUME NEW i \in 1 .. NumVars
      PROVE  StringAt("labelName", Body + (i - 1) * P.labelName) = T.variables[i].labelName
  <2>1. Is(file, EntryAt(T, pos, "<value_label_names>", i, P.labelName),
           "labelName", T.variables[i].labelName)
    BY <1>3, LaidOutParts DEF Descriptors, T
  <2>2. Expected = List("<value_label_names>", NumVars * P.labelName, "</value_label_names>")
    BY <1>1 DEF Expected
  <2>3. Body = TagLen(Tagged(T, "<value_label_names>"))
    BY <1>2, <1>3, <2>2, BodyOfList
  <2>4. i \in Nat /\ P.labelName \in Nat
    BY <1>3, ParamsType
  <2>5. EntryAt(T, pos, "<value_label_names>", i, P.labelName)
          = pos + (Body + (i - 1) * P.labelName)
    <3>1. "<value_label_names>" \in Tags
      BY TagsListed
    <3> QED
      BY <1>3, <2>3, <2>4, <3>1, EntryThere
  <2>6. Is(file, pos + (Body + (i - 1) * P.labelName), "labelName", T.variables[i].labelName)
    BY <2>1, <2>5
  <2> QED
    BY <2>6, FieldThere
<1>5. /\ pc \in {"map"} \cup ListPoints /\ pc \in ListPoints \ {"types"}
      /\ pc \in ListPoints \ {"types", "names"}
      /\ pc' \notin {"characteristics", "expansion", "width"} \cup LatePoints
  BY <1>1 DEF ListPoints, LatePoints
<1>6. /\ \A i \in 1 .. NumVars : columns[i].type = VariableType(T, i)
      /\ \A i \in 1 .. NumVars : columns[i].name = T.variables[i].name
  BY <1>5, Zenon DEF ReadInv, DescribedInv
<1>7. columns' = [i \in 1 .. NumVars |->
                    [columns[i] EXCEPT !.labelName = T.variables[i].labelName]]
  BY <1>1, <1>4
<1>8. NumVars' = NumVars
  BY <1>3, <1>7 DEF NumVars
<1>9. \A i \in 1 .. NumVars :
        columns'[i] = [type |-> VariableType(T, i), name |-> T.variables[i].name,
                       labelName |-> T.variables[i].labelName]
  <2> SUFFICES ASSUME NEW i \in 1 .. NumVars
      PROVE  columns'[i] = [type |-> VariableType(T, i), name |-> T.variables[i].name,
                            labelName |-> T.variables[i].labelName]
    OBVIOUS
  <2>1. columns'[i] = [columns[i] EXCEPT !.labelName = T.variables[i].labelName]
    BY <1>7
  <2>2. /\ IsColumn(columns[i]) /\ columns[i].type = VariableType(T, i)
        /\ columns[i].name = T.variables[i].name
    BY <1>3, <1>6
  <2> QED
    BY <2>1, <2>2, ColumnWith
<1>10. DescribedInv'
  <2>1. T' = T
    BY <1>1, SameFile
  <2>2. \A i \in 1 .. NumVars' : IsColumn(columns'[i])
    BY <1>8, <1>9, BuiltColumns
  <2>3. ASSUME NEW i \in 1 .. NumVars'
        PROVE  /\ columns'[i].type = VariableType(T', i)
               /\ columns'[i].name = T'.variables[i].name
               /\ columns'[i].labelName = T'.variables[i].labelName
    <3>1. i \in 1 .. NumVars
      BY <1>8
    <3>2. columns'[i] = [type |-> VariableType(T, i), name |-> T.variables[i].name,
                         labelName |-> T.variables[i].labelName]
      BY <1>9, <3>1, Zenon
    <3>3. /\ columns'[i].type = VariableType(T, i) /\ columns'[i].name = T.variables[i].name
          /\ columns'[i].labelName = T.variables[i].labelName
      BY <3>2
    <3> QED
      BY <2>1, <3>3
  <2>4. NumVars' = Len(T'.variables)
    BY <1>3, <1>8, <2>1
  <2> QED
    BY <1>5, <2>2, <2>3, <2>4, Zenon DEF DescribedInv
<1>11. pc' \in ListPoints /\ T.at[pc'] = NextAt(pc)
  BY <1>1 DEF ListPoints, NextAt
<1> QED
  BY <1>1, <1>2, <1>10, <1>11, ListStep

\* A set of numbers has one enumeration in increasing order.
LEMMA EnumerationUnique ==
  ASSUME NEW K, K \subseteq Nat, IsFiniteSet(K),
         NEW f \in [1 .. Cardinality(K) -> K], NEW g \in [1 .. Cardinality(K) -> K],
         \A i, j \in 1 .. Cardinality(K) : i < j => f[i] < f[j],
         \A i, j \in 1 .. Cardinality(K) : i < j => g[i] < g[j]
  PROVE  f = g
<1> DEFINE n == Cardinality(K)
<1>1. n \in Nat /\ IsFiniteSet(1 .. n) /\ Cardinality(1 .. n) = n
  BY FS_CardinalityType, FS_Interval
<1>2. ASSUME NEW h \in [1 .. n -> K], \A i, j \in 1 .. n : i < j => h[i] < h[j]
      PROVE  \A k \in K : \E j \in 1 .. n : h[j] = k
  <2>1. ASSUME NEW i \in 1 .. n, NEW j \in 1 .. n, h[i] = h[j] PROVE i = j
    <3>1. h[i] \in Nat /\ h[j] \in Nat
      OBVIOUS
    <3>2. i < j => h[i] < h[j]
      BY <1>2
    <3>3. j < i => h[j] < h[i]
      BY <1>2
    <3> QED
      BY <1>1, <2>1, <3>1, <3>2, <3>3
  <2>2. h \in Injection(1 .. n, K)
    BY <2>1 DEF Injection, IsInjective
  <2>3. h \in Surjection(1 .. n, K)
    BY <1>1, <2>2, FS_Injection
  <2> QED
    BY <2>3 DEF Surjection
<1>3. /\ \A k \in K : \E j \in 1 .. n : f[j] = k
      /\ \A k \in K : \E j \in 1 .. n : g[j] = k
  BY <1>2
<1>4. /\ \A i, j \in 1 .. n : i < j => f[i] < f[j]
      /\ \A i, j \in 1 .. n : i < j => g[i] < g[j]
      /\ \A i \in 1 .. n : f[i] \in Nat /\ g[i] \in Nat /\ f[i] \in K /\ g[i] \in K
  OBVIOUS
<1> DEFINE D == {i \in 1 .. n : f[i] # g[i]}
<1>5. D = {}
  <2>1. SUFFICES ASSUME D # {} PROVE FALSE
    OBVIOUS
  <2>2. D \subseteq Nat
    BY <1>1
  <2>3. PICK i \in D : \A j \in D : i <= j
    BY <2>1, <2>2, LeastExists
  <2>4. i \in 1 .. n /\ f[i] # g[i] /\ \A j \in 1 .. n : j < i => f[j] = g[j]
    BY <1>1, <2>3
  <2> HIDE DEF n, D
  <2>5. CASE f[i] < g[i]
    <3>1. PICK j \in 1 .. n : g[j] = f[i]
      BY <1>3, <1>4, <2>4
    <3>2. j < i => f[j] = g[j] /\ f[j] < f[i]
      BY <1>4, <2>4
    <3>3. i < j => g[i] < g[j]
      BY <1>4, <2>4
    <3> QED
      BY <1>1, <1>4, <2>4, <2>5, <3>1, <3>2, <3>3
  <2>6. CASE g[i] < f[i]
    <3>1. PICK j \in 1 .. n : f[j] = g[i]
      BY <1>3, <1>4, <2>4
    <3>2. j < i => f[j] = g[j] /\ g[j] < g[i]
      BY <1>4, <2>4
    <3>3. i < j => f[i] < f[j]
      BY <1>4, <2>4
    <3> QED
      BY <1>1, <1>4, <2>4, <2>6, <3>1, <3>2, <3>3
  <2> QED
    BY <1>4, <2>4, <2>5, <2>6
<1>6. \A i \in 1 .. n : f[i] = g[i]
  BY <1>5
<1>7. \A i \in 1 .. Cardinality(K) : f[i] = g[i]
  BY <1>6
<1>8. /\ f = [i \in 1 .. Cardinality(K) |-> f[i]]
      /\ g = [i \in 1 .. Cardinality(K) |-> g[i]]
  OBVIOUS
<1>9. [i \in 1 .. Cardinality(K) |-> f[i]] = [i \in 1 .. Cardinality(K) |-> g[i]]
  BY <1>7
<1> QED
  BY <1>8, <1>9

\* The columns that are kept are those of the table.
LEMMA KeptColumns ==
  ASSUME OInv, ReadInv, IsLaidOut(file), pc = "varLabels", Readable,
         NEW at \in [1 .. Cardinality(Kept) -> Kept],
         \A i, j \in DOMAIN at : i < j => at[i] < at[j]
  PROVE  [i \in 1 .. Cardinality(Kept) |-> columns[at[i]]] = T.columns
<1>1. /\ file \in Files /\ NumVars = Len(T.variables) /\ NumVars \in Nat
      /\ \A i \in 1 .. NumVars : IsColumn(columns[i])
      /\ P = Params(T.version)
  BY InLists DEF ListPoints
<1>2. /\ pc \in ListPoints \ {"types"} /\ pc \in ListPoints \ {"types", "names"}
  BY DEF ListPoints
<1>3. /\ \A i \in 1 .. NumVars : columns[i].type = VariableType(T, i)
      /\ \A i \in 1 .. NumVars : columns[i].name = T.variables[i].name
      /\ \A i \in 1 .. NumVars : columns[i].labelName = T.variables[i].labelName
  BY <1>2, Zenon DEF ReadInv, DescribedInv
<1>4. Kept = InRows(T)
  BY <1>1, <1>3 DEF Kept, InRows
<1>5. PICK kept \in [1 .. Cardinality(InRows(T)) -> InRows(T)] :
        /\ \A i, j \in DOMAIN kept : i < j => kept[i] < kept[j]
        /\ T.columns = [i \in 1 .. Cardinality(InRows(T)) |->
             [type |-> VariableType(T, kept[i]), name |-> T.variables[kept[i]].name,
              labelName |-> T.variables[kept[i]].labelName]]
  BY LaidOutParts DEF Columns
<1>6. InRows(T) \subseteq 1 .. NumVars /\ InRows(T) \subseteq Nat
  BY <1>1 DEF InRows
<1>7. IsFiniteSet(InRows(T))
  <2>1. IsFiniteSet(1 .. NumVars)
    BY <1>1, FS_Interval
  <2> QED
    BY <1>6, <2>1, FS_Subset
<1>8. at \in [1 .. Cardinality(InRows(T)) -> InRows(T)]
  BY <1>4
<1>9. at = kept
  <2>1. /\ \A i, j \in 1 .. Cardinality(InRows(T)) : i < j => kept[i] < kept[j]
        /\ \A i, j \in 1 .. Cardinality(InRows(T)) : i < j => at[i] < at[j]
    BY <1>5, <1>8
  <2> QED
    BY <1>6, <1>7, <1>8, <2>1, EnumerationUnique
<1>10. ASSUME NEW i \in 1 .. Cardinality(InRows(T))
       PROVE  columns[at[i]] =
                [type |-> VariableType(T, kept[i]), name |-> T.variables[kept[i]].name,
                 labelName |-> T.variables[kept[i]].labelName]
  <2>1. at[i] \in 1 .. NumVars /\ at[i] = kept[i]
    BY <1>6, <1>8, <1>9
  <2>2. /\ IsColumn(columns[at[i]])
        /\ columns[at[i]].type = VariableType(T, kept[i])
        /\ columns[at[i]].name = T.variables[kept[i]].name
        /\ columns[at[i]].labelName = T.variables[kept[i]].labelName
    BY <1>1, <1>3, <2>1
  <2> QED
    BY <2>2 DEF IsColumn
<1> QED
  BY <1>4, <1>5, <1>10

LEMMA VariableLabelsFollow ==
  ASSUME OInv, ReadInv, IsLaidOut(file), ParseVariableLabels
  PROVE  Follows
<1>1. PICK at \in [1 .. Cardinality(Kept) -> Kept] :
        /\ \A i, j \in DOMAIN at : i < j => at[i] < at[j]
        /\ Describe("varLabels", IF reader.modern THEN "characteristics" ELSE "expansion",
                    [i \in 1 .. Cardinality(Kept) |-> columns[at[i]]])
  BY DEF ParseVariableLabels
<1>2. /\ pc = "varLabels" /\ Readable /\ Advance(0)
      /\ pc' = IF reader.modern THEN "characteristics" ELSE "expansion"
      /\ columns' = [i \in 1 .. Cardinality(Kept) |-> columns[at[i]]]
      /\ UNCHANGED <<file, wantLabels, reader, strls, labels>>
  BY <1>1 DEF Describe, At, Unchanged
<1>3. pc \in ListPoints /\ pc \in AfterHeader /\ pc \notin {"first", "release"}
      /\ pc \in EarlyPoints
  BY <1>2 DEF ListPoints, AfterHeader, EarlyPoints
<1>4. file \in Files /\ pos' = T.at.described /\ reader.modern = IsModern(T)
  BY <1>2, <1>3, InLists DEF NextAt
<1>5. columns' = T.columns
  BY <1>1, <1>2, KeptColumns
<1>6. T' = T /\ KRead' = KRead /\ NRead' = NRead /\ DataSum' = DataSum
      /\ \A n : NoExpansionExceeds(n)' <=> NoExpansionExceeds(n)
  BY <1>2, SameFile
<1>7. pc' = IF IsModern(T) THEN "characteristics" ELSE "expansion"
  BY <1>2, <1>4
<1>8. FormatInv'
  <2>1. reader.version = T.version /\ reader.modern = (pc # "first" /\ IsModern(T))
    BY <1>3 DEF ReadInv, FormatInv
  <2>2. pc' # "first"
    BY <1>7
  <2>3. reader'.modern = (pc' # "first" /\ IsModern(T'))
    BY <1>2, <1>3, <1>6, <2>1, <2>2
  <2> QED
    BY <1>2, <1>6, <1>7, <2>1, <2>3 DEF FormatInv, ModernPoints, LegacyPoints
<1>9. PlaceInv'
  BY <1>7 DEF PlaceInv, SectionPoints
<1>10. CountsInv'
  <2>1. reader.nObs = NRead /\ ~Exceeds(file, KAt(T), MostVariables(file))
    BY <1>3 DEF ReadInv, CountsInv
  <2>2. pc' \notin {"N", "label", "labelText", "timestamp", "headerEnd"}
    BY <1>7
  <2> QED
    BY <1>2, <1>6, <2>1, <2>2 DEF CountsInv
<1>11. DescribedInv'
  <2>1. pc' \notin {"map"} \cup ListPoints /\ pc' \notin ListPoints \ {"types"}
        /\ pc' \notin ListPoints \ {"types", "names"} /\ pc' # "varLabels"
    BY <1>7 DEF ListPoints
  <2> QED
    BY <1>5, <1>6, <2>1 DEF DescribedInv
<1>12. RowsInv'
  <2>1. IsModern(T) => /\ reader.dataOffset = DataSum
                       /\ reader.strlsOffset = T.at.strls
                       /\ reader.labelsOffset = T.at.labels
    BY <1>3 DEF ReadInv, RowsInv
  <2>2. pc' \notin {"width"} \cup LatePoints /\ pc' # "width" /\ pc' \notin LatePoints
    BY <1>7 DEF LatePoints
  <2>3. ~IsModern(T) => \E n \in 1 .. Len(T'.expansions) + 1 :
                          pos' = T'.expansionAt[n] /\ NoExpansionExceeds(n - 1)'
    <3> SUFFICES ASSUME ~IsModern(T)
          PROVE  \E n \in 1 .. Len(T'.expansions) + 1 :
                   pos' = T'.expansionAt[n] /\ NoExpansionExceeds(n - 1)'
      OBVIOUS
    <3>1. T.expansionAt[1] = T.at.described
      BY LaidOutParts DEF Expansions, T
    <3>2. Len(T.expansions) \in Nat
      <4>1. IsListing(T["expansions"])
        BY LaidOutParts DEF TableTypes
      <4> QED
        BY <4>1 DEF IsListing
    <3>3. NoExpansionExceeds(1 - 1)
      BY DEF NoExpansionExceeds
    <3>4. 1 \in 1 .. Len(T'.expansions) + 1 /\ pos' = T'.expansionAt[1]
      BY <1>4, <1>6, <3>1, <3>2
    <3> QED
      BY <1>6, <3>3, <3>4
  <2>4. pc' = "expansion" <=> ~IsModern(T)
    BY <1>7
  <2> QED
    BY <1>2, <1>6, <2>1, <2>2, <2>3, <2>4, Zenon DEF RowsInv
<1>13. pc' \in EarlyPoints /\ pc' # "error"
  BY <1>7 DEF EarlyPoints
<1> QED
  BY <1>2, <1>3, <1>8, <1>9, <1>10, <1>11, <1>12, <1>13, ListFrame DEF Follows

-----------------------------------------------------------------------------
(***************************************************************************)
(* What ends the metadata, and the width of the rows.                      *)
(***************************************************************************)
\* Steps from the descriptors to the rows: what is left to show is what they
\* tell of the rows.
LEMMA MiddleStep ==
  ASSUME OInv, ReadInv, IsLaidOut(file), pc \in {"characteristics", "expansion", "width"},
         pc' \in {"expansion", "width", "bind"}, pc' = "expansion" => pc = "expansion",
         UNCHANGED <<file, wantLabels, columns, strls, labels>>,
         reader'.version = reader.version, reader'.modern = reader.modern,
         reader'.nObs = reader.nObs, RowsInv'
  PROVE  ReadInv'
<1>1. pc \in BeforeLoading /\ pc' \in BeforeLoading /\ file \in Files
  BY DEF BeforeLoading, EarlyPoints, OInv, ScalarsInv
<1>2. LabelsInv' /\ StrLsInv'
  BY <1>1, StartOfLoading
<1>3. T' = T /\ KRead' = KRead /\ NRead' = NRead
  BY SameFile
<1>4. /\ pc \in AfterHeader /\ pc' \in AfterHeader
      /\ pc' \notin ModernPoints \cup SectionPoints \cup ListPoints
      /\ pc' \notin HeaderPoints \cup {"map"}
  BY DEF AfterHeader, ModernPoints, SectionPoints, ListPoints, LatePoints, HeaderPoints
<1>5. reader.version = T.version /\ reader.modern = IsModern(T)
  BY <1>1, FormatRead
<1>6. FormatInv'
  <2>1. pc' \in LegacyPoints => ~IsModern(T)
    BY DEF LegacyPoints, ReadInv, FormatInv
  <2>2. IsModern(T) \in BOOLEAN
    BY DEF IsModern
  <2>3. reader'.modern = (pc' # "first" /\ IsModern(T'))
    BY <1>3, <1>5, <2>2
  <2> QED
    BY <1>3, <1>4, <1>5, <2>1, <2>3 DEF FormatInv
<1>7. PlaceInv'
  BY <1>4 DEF PlaceInv
<1>8. CountsInv'
  <2>1. reader.nObs = NRead /\ ~Exceeds(file, KAt(T), MostVariables(file))
    BY <1>4 DEF ReadInv, CountsInv
  <2> QED
    BY <1>3, <1>4, <2>1 DEF CountsInv, HeaderPoints
<1>9. DescribedInv'
  <2>1. columns = T.columns
    BY DEF ReadInv, DescribedInv
  <2>2. pc' \notin {"map"} \cup ListPoints /\ pc' \notin ListPoints \ {"types"}
        /\ pc' \notin ListPoints \ {"types", "names"} /\ pc' # "varLabels"
    BY <1>4
  <2> QED
    BY <1>3, <2>1, <2>2, Zenon DEF DescribedInv
<1> QED
  BY <1>2, <1>6, <1>7, <1>8, <1>9 DEF ReadInv

LEMMA CharacteristicsFollow ==
  ASSUME OInv, ReadInv, IsLaidOut(file), SkipCharacteristics
  PROVE  Follows
<1>1. /\ pc = "characteristics" /\ pc' = "width"
      /\ UNCHANGED <<file, wantLabels, index, reader, columns, strls, labels>>
  BY DEF SkipCharacteristics, Unchanged
<1>2. /\ T' = T /\ DataSum' = DataSum /\ file \in Files /\ IsModern(T)
      /\ index = 1 /\ reader.rowWidth = 0
  BY <1>1, SameFile DEF OInv, ScalarsInv, IndexInv, EarlyPoints, ReadInv, FormatInv, ModernPoints
<1>3. /\ reader.dataOffset = DataSum /\ reader.strlsOffset = T.at.strls
      /\ reader.labelsOffset = T.at.labels
  BY <1>1, <1>2 DEF ReadInv, RowsInv
<1>4. reader'.rowWidth = T'.cell[index' - 1]
  BY <1>1, <1>2, CellsThere
<1>5. RowsInv'
  BY <1>1, <1>2, <1>3, <1>4 DEF RowsInv, LatePoints
<1> QED
  BY <1>1, <1>5, MiddleStep DEF Follows

\* The expansion field that the handle is at.
LEMMA ExpansionThere ==
  ASSUME file \in Files, IsLaidOut(file), ~IsModern(T), NEW n \in 1 .. Len(T.expansions) + 1
  PROVE  LET len == Content(file)[T.expansionAt[n] + 1].value IN
         /\ Len(T.expansions) \in Nat /\ T.expansionAt[n] \in Nat
         /\ Is(file, T.expansionAt[n], "expansion", IF n = Len(T.expansions) + 1 THEN 0 ELSE 1)
         /\ T.expansionAt[n] + 1 \in DOMAIN Content(file)
         /\ Content(file)[T.expansionAt[n] + 1].kind = "expansionLength"
         /\ len \in Nat /\ ExpansionLength(T, n) \in Nat
         /\ Damage \in Sound \/ ~Exceeds(file, T.expansionAt[n] + 1, MostExpansion(file, n)) =>
              len = ExpansionLength(T, n)
         /\ Exceeds(file, T.expansionAt[n] + 1, MostExpansion(file, n))
              <=> len > Size(file) - (T.expansionAt[n] + 5)
         /\ T.expansionAt[n] + 5 + ExpansionLength(T, n) <= T.size
         /\ n = Len(T.expansions) + 1 =>
              T.dataOffset = T.expansionAt[n] + 5 /\ ExpansionLength(T, n) = 0
         /\ n # Len(T.expansions) + 1 =>
              T.expansionAt[n + 1] = T.expansionAt[n] + 5 + ExpansionLength(T, n)
<1> DEFINE p == T.expansionAt[n] + 1
           last == Len(T.expansions) + 1
<1>1. /\ Len(T.expansions) \in Nat /\ DOMAIN T.expansions = 1 .. Len(T.expansions)
      /\ T.expansionAt[n] \in Nat
      /\ \A i \in DOMAIN T.expansions : T.expansions[i] \in Nat
  <2>1. IsListing(T["expansions"]) /\ T.expansionAt \in [1 .. last -> Nat]
        /\ \A i \in DOMAIN T.expansions : T.expansions[i] \in Nat
    BY LaidOutParts DEF TableTypes
  <2> QED
    BY <2>1 DEF IsListing
<1>2. Expansions(file)
  BY LaidOutParts
<1>3. /\ Is(file, T.expansionAt[n], "expansion", IF n = last THEN 0 ELSE 1)
      /\ Sized(file, p, "expansionLength", ExpansionLength(T, n), MostExpansion(file, n))
      /\ T.expansionAt[n] + 5 + ExpansionLength(T, n) <= T.size
      /\ n \in 1 .. last - 1 =>
           T.expansionAt[n + 1] = T.expansionAt[n] + 5 + T.expansions[n]
      /\ T.dataOffset = T.expansionAt[last] + 5
  BY <1>2 DEF Expansions, T
<1>4. /\ p \in DOMAIN Content(file) /\ Content(file)[p].kind = "expansionLength"
      /\ Damage \in Sound \/ ~Exceeds(file, p, MostExpansion(file, n)) =>
           Content(file)[p].value = ExpansionLength(T, n)
  BY <1>3 DEF Sized, Damage
<1>5. Content(file)[p].value \in Nat
  <2>1. Content(file)[p].value \in NumbersOf("expansionLength")
    BY <1>4, ContentAssumption DEF Numbers
  <2> QED
    BY <2>1 DEF NumbersOf
<1>6. Exceeds(file, p, MostExpansion(file, n))
        <=> Content(file)[p].value > Size(file) - (T.expansionAt[n] + 5)
  BY DEF Exceeds, MostExpansion, T
<1>7. /\ n = last => ExpansionLength(T, n) = 0
      /\ n # last => n \in 1 .. last - 1 /\ ExpansionLength(T, n) = T.expansions[n]
      /\ ExpansionLength(T, n) \in Nat
  BY <1>1 DEF ExpansionLength
<1> QED
  BY <1>1, <1>3, <1>4, <1>5, <1>6, <1>7

LEMMA InExpansion ==
  ASSUME OInv, ReadInv, IsLaidOut(file), pc = "expansion"
  PROVE  /\ file \in Files /\ ~IsModern(T) /\ pos \in Nat
         /\ Expected = Layout("", 5, "") /\ Bytes(Expected) = 5
         /\ Readable <=> pos + 5 <= Size(file)
         /\ index = 1 /\ reader.rowWidth = 0 /\ DOMAIN reader = ReaderFields
         /\ \E n \in 1 .. Len(T.expansions) + 1 :
              pos = T.expansionAt[n] /\ NoExpansionExceeds(n - 1)
<1>1. /\ file \in Files /\ pos \in Nat /\ index = 1 /\ reader.rowWidth = 0
      /\ DOMAIN reader = ReaderFields
  BY DEF OInv, ScalarsInv, ReaderInv, IndexInv, EarlyPoints
<1>2. ~IsModern(T)
  BY DEF ReadInv, FormatInv, LegacyPoints
<1>3. Expected = Layout("", 5, "")
  BY DEF Expected
<1>4. Bytes(Expected) = 5
  <2>1. Expected.open = "" /\ Expected.bytes = 5 /\ Expected.close = ""
    BY <1>3 DEF Layout
  <2>2. TagLen("") = 0
    BY TagLengths
  <2>3. TagLen(Expected.open) = 0 /\ TagLen(Expected.close) = 0
    BY <2>1, <2>2, Zenon
  <2>4. Expected.bytes = 5
    BY <2>1
  <2> QED
    BY <2>3, <2>4 DEF Bytes
<1>5. Readable <=> pos + 5 <= Size(file)
  BY <1>3, <1>4 DEF Readable, TagAt, Layout
<1> QED
  BY <1>1, <1>2, <1>3, <1>4, <1>5 DEF ReadInv, RowsInv

LEMMA ExpansionFollows ==
  ASSUME OInv, ReadInv, IsLaidOut(file), SkipExpansionField
  PROVE  Follows
<1>1. /\ pc = "expansion" /\ Readable
      /\ UNCHANGED <<file, wantLabels, index, columns, strls, labels>>
  BY DEF SkipExpansionField, At, Unchanged
<1>2. /\ file \in Files /\ ~IsModern(T) /\ pos \in Nat
      /\ Bytes(Expected) = 5 /\ pos + 5 <= Size(file)
      /\ index = 1 /\ reader.rowWidth = 0 /\ DOMAIN reader = ReaderFields
  BY <1>1, InExpansion
<1>3. PICK n \in 1 .. Len(T.expansions) + 1 :
        pos = T.expansionAt[n] /\ NoExpansionExceeds(n - 1)
  BY <1>1, InExpansion
<1> DEFINE last == Len(T.expansions) + 1
           len == Content(file)[T.expansionAt[n] + 1].value
           most == MostExpansion(file, n)
<1>4. /\ Is(file, pos, "expansion", IF n = last THEN 0 ELSE 1)
      /\ pos + 1 \in DOMAIN Content(file)
      /\ Content(file)[pos + 1].kind = "expansionLength"
  BY <1>2, <1>3, ExpansionThere
<1>5. /\ Len(T.expansions) \in Nat /\ len \in Nat /\ ExpansionLength(T, n) \in Nat
      /\ Damage \in Sound \/ ~Exceeds(file, T.expansionAt[n] + 1, most) =>
           len = ExpansionLength(T, n)
      /\ Exceeds(file, T.expansionAt[n] + 1, most) <=> len > Size(file) - (pos + 5)
      /\ pos + 5 + ExpansionLength(T, n) <= T.size
      /\ n = last => T.dataOffset = pos + 5 /\ ExpansionLength(T, n) = 0
      /\ n # last => T.expansionAt[n + 1] = pos + 5 + ExpansionLength(T, n)
  BY <1>2, <1>3, ExpansionThere
<1>6. Field("expansion", 0) = {IF n = last THEN 0 ELSE 1} /\ Field("expansionLength", 1) = {len}
  <2>1. Is(file, pos + 0, "expansion", IF n = last THEN 0 ELSE 1)
    BY <1>2, <1>4
  <2>2. Field("expansionLength", 1) = {Content(file)[pos + 1].value}
    BY <1>4, FieldAt
  <2> QED
    BY <1>3, <2>1, <2>2, FieldThere
<1>7. /\ n = last /\ len = 0 => /\ pc' = "width" /\ Advance(0)
                                /\ reader' = [reader EXCEPT !.dataOffset = pos']
      /\ ~(n = last /\ len = 0) => /\ Goto("expansion", len <= Size(file) - (pos + 5))
                                   /\ Advance(len) /\ UNCHANGED reader
  <2> HIDE DEF len, last, most
  <2>1. \E type \in {IF n = last THEN 0 ELSE 1}, l \in {len} :
          IF type = 0 /\ l = 0
          THEN /\ pc' = "width"
               /\ Advance(0)
               /\ reader' = [reader EXCEPT !.dataOffset = pos']
          ELSE /\ Goto("expansion", l <= Size(file) - (pos + 5))
               /\ Advance(l)
               /\ UNCHANGED reader
    BY <1>6 DEF SkipExpansionField
  <2> QED
    BY <2>1
<1>8. /\ Size(file) \in Nat /\ T.size \in Nat /\ Damage # "cut" => Size(file) = T.size
      /\ Size(file) \in Nat /\ T.size \in Nat
  BY <1>2, LaidOutSizes
<1> HIDE DEF len, last, most
<1>9. T' = T /\ \A m : NoExpansionExceeds(m)' <=> NoExpansionExceeds(m)
  BY <1>1, SameFile
<1>10. ~Exceeds(file, T.expansionAt[n] + 1, most) => NoExpansionExceeds(n)
  BY <1>3, <1>5 DEF NoExpansionExceeds, most, last
<1>11. CASE n = last /\ len = 0
  <2>1. pc' = "width" /\ pos' = pos + 5 /\ reader' = [reader EXCEPT !.dataOffset = pos + 5]
    BY <1>2, <1>7, <1>11 DEF Advance
  <2>2. NoExpansionExceeds(Len(T.expansions) + 1)
    <3>1. ~(len > Size(file) - (pos + 5))
      BY <1>2, <1>8, <1>11
    <3> QED
      BY <1>5, <1>10, <1>11, <3>1 DEF last
  <2>3. reader'.dataOffset = T.dataOffset /\ reader'.rowWidth = 0
        /\ reader'.version = reader.version /\ reader'.modern = reader.modern
        /\ reader'.nObs = reader.nObs
    BY <1>2, <1>5, <1>11, <2>1 DEF ReaderFields
  <2>4. reader'.rowWidth = T'.cell[index' - 1]
    BY <1>1, <1>2, <1>9, <2>3, CellsThere
  <2>5. RowsInv'
    <3>1. NoExpansionExceeds(Len(T.expansions) + 1)'
      <4>1. NoExpansionExceeds(n)'
        BY <1>9, <1>11, <2>2 DEF last
      <4>2. n = (Len(T.expansions) + 1)'
        BY <1>9, <1>11 DEF last
      <4> QED
        BY <4>1, <4>2
    <3>2. pc' # "expansion" /\ pc' \notin LatePoints
      BY <2>1 DEF LatePoints
    <3> QED
      BY <1>2, <1>9, <2>3, <2>4, <3>1, <3>2 DEF RowsInv
  <2> QED
    BY <1>1, <2>1, <2>3, <2>5, MiddleStep DEF Follows
<1>12. CASE ~(n = last /\ len = 0)
  <2>1. Goto("expansion", len <= Size(file) - (pos + 5)) /\ pos' = pos + 5 + len
        /\ UNCHANGED reader
    BY <1>2, <1>7, <1>12 DEF Advance
  <2>2. Damage = "none" => len <= Size(file) - (pos + 5)
    BY <1>2, <1>5, <1>8 DEF Sound
  <2>3. Damage = "none" => pc' # "error"
    BY <2>1, <2>2 DEF Goto
  <2>4. ASSUME pc' # "error" PROVE ReadInv'
    <3>1. pc' = "expansion" /\ len <= Size(file) - (pos + 5)
      BY <2>1, <2>4 DEF Goto
    <3>2. ~Exceeds(file, T.expansionAt[n] + 1, most)
      BY <1>2, <1>5, <1>8, <3>1
    <3>3. len = ExpansionLength(T, n) /\ n # last
      BY <1>5, <1>12, <3>2
    <3>4. n + 1 \in 1 .. last /\ pos' = T.expansionAt[n + 1]
      BY <1>3, <1>5, <2>1, <3>3 DEF last
    <3>5. NoExpansionExceeds((n + 1) - 1)
      BY <1>10, <3>2, <1>3, <1>5
    <3>6. \E m \in 1 .. Len(T'.expansions) + 1 :
            pos' = T'.expansionAt[m] /\ NoExpansionExceeds(m - 1)'
      BY <1>9, <3>4, <3>5 DEF last
    <3>7. RowsInv'
      <4>1. pc' \notin ListPoints \cup {"characteristics", "width"} \cup LatePoints
            /\ pc' \notin LatePoints
        BY <3>1 DEF ListPoints, LatePoints
      <4> QED
        BY <3>6, <4>1, Zenon DEF RowsInv
    <3> QED
      BY <1>1, <2>1, <3>1, <3>7, MiddleStep
  <2> QED
    BY <2>3, <2>4 DEF Follows
<1> QED
  BY <1>11, <1>12

\* What the sum of the widths starts from.
LEMMA InWidth ==
  ASSUME OInv, ReadInv, IsLaidOut(file), pc = "width"
  PROVE  /\ file \in Files /\ DOMAIN reader = ReaderFields
         /\ columns = T.columns /\ NumVars = Len(T.columns) /\ NumVars \in Nat
         /\ index \in 1 .. NumVars + 1
         /\ reader.rowWidth = T.cell[index - 1] /\ reader.nObs = NRead
         /\ reader.version = T.version /\ Mapped = IsModern(T)
         /\ IsModern(T) => /\ reader.dataOffset = DataSum
                           /\ reader.strlsOffset = T.at.strls
                           /\ reader.labelsOffset = T.at.labels
         /\ ~IsModern(T) => /\ reader.dataOffset = T.dataOffset
                            /\ NoExpansionExceeds(Len(T.expansions) + 1)
<1>1. /\ file \in Files /\ DOMAIN reader = ReaderFields
      /\ NumVars \in Nat /\ index \in 1 .. NumVars + 1
  BY DEF OInv, ScalarsInv, ReaderInv, ColumnsInv, IsList, NumVars, IndexInv
<1>2. columns = T.columns
  BY DEF ReadInv, DescribedInv
<1>3. reader.nObs = NRead
  BY DEF ReadInv, CountsInv, AfterHeader
<1>4. /\ reader.rowWidth = T.cell[index - 1]
      /\ IsModern(T) => /\ reader.dataOffset = DataSum
                        /\ reader.strlsOffset = T.at.strls
                        /\ reader.labelsOffset = T.at.labels
      /\ ~IsModern(T) => /\ reader.dataOffset = T.dataOffset
                         /\ NoExpansionExceeds(Len(T.expansions) + 1)
  BY DEF ReadInv, RowsInv
<1>5. reader.version = T.version /\ Mapped = IsModern(T)
  BY <1>1, FormatRead
<1>6. NumVars = Len(T.columns)
  BY <1>2 DEF NumVars
<1> QED
  BY <1>1, <1>2, <1>3, <1>4, <1>5, <1>6

LEMMA AddWidthFollows ==
  ASSUME OInv, ReadInv, IsLaidOut(file), AddWidth
  PROVE  Follows
<1>1. /\ pc = "width" /\ pc' = "width" /\ index <= NumVars /\ index' = index + 1
      /\ UNCHANGED <<file, wantLabels, columns, strls, labels>>
      /\ reader' = [reader EXCEPT !.rowWidth = @ + TypeWidth(columns[index].type)]
  BY DEF AddWidth, Unchanged
<1>2. /\ file \in Files /\ DOMAIN reader = ReaderFields
      /\ columns = T.columns /\ NumVars = Len(T.columns) /\ NumVars \in Nat
      /\ index \in 1 .. NumVars + 1
      /\ reader.rowWidth = T.cell[index - 1]
      /\ IsModern(T) => /\ reader.dataOffset = DataSum
                        /\ reader.strlsOffset = T.at.strls
                        /\ reader.labelsOffset = T.at.labels
      /\ ~IsModern(T) => /\ reader.dataOffset = T.dataOffset
                         /\ NoExpansionExceeds(Len(T.expansions) + 1)
  BY <1>1, InWidth
<1>3. T' = T /\ DataSum' = DataSum
      /\ \A n : NoExpansionExceeds(n)' <=> NoExpansionExceeds(n)
  BY <1>1, SameFile
<1>4. /\ reader'.version = reader.version /\ reader'.modern = reader.modern
      /\ reader'.nObs = reader.nObs /\ reader'.dataOffset = reader.dataOffset
      /\ reader'.strlsOffset = reader.strlsOffset
      /\ reader'.labelsOffset = reader.labelsOffset
      /\ reader'.rowWidth = reader.rowWidth + TypeWidth(columns[index].type)
  BY <1>1, <1>2 DEF ReaderFields
<1>5. reader'.rowWidth = T'.cell[index' - 1]
  <2>1. index \in 1 .. Len(T.columns) /\ index' - 1 = index
    BY <1>1, <1>2
  <2>2. T.cell[index] = T.cell[index - 1] + TypeWidth(T.columns[index].type)
    BY <1>2, <2>1, CellsThere
  <2> QED
    BY <1>2, <1>3, <1>4, <2>1, <2>2
<1>6. ~IsModern(T) => NoExpansionExceeds(Len(T.expansions) + 1)'
  <2>1. PICK n : n = Len(T.expansions) + 1
    OBVIOUS
  <2>2. ~IsModern(T) => NoExpansionExceeds(n)'
    BY <1>2, <1>3, <2>1
  <2>3. n = (Len(T.expansions) + 1)'
    BY <1>3, <2>1
  <2> QED
    BY <2>2, <2>3
<1>7. RowsInv'
  <2>1. pc' # "expansion" /\ pc' \notin LatePoints
    BY <1>1 DEF LatePoints
  <2> QED
    BY <1>2, <1>3, <1>4, <1>5, <1>6, <2>1 DEF RowsInv
<1> QED
  BY <1>1, <1>4, <1>7, MiddleStep DEF Follows

\* The check of the rows accepts the numbers that do not exceed the file.
LEMMA RowsChecked ==
  ASSUME OInv, ReadInv, IsLaidOut(file), pc = "width", index > NumVars
  PROVE  /\ reader.rowWidth = RowWidth(T) /\ RowWidth(T) \in Nat
         /\ Damage = "none" => RowsFit
         /\ RowsFit => StartInv
         /\ RowsFit /\ ~Wraps => T.nObs * RowWidth(T) = reader.nObs * reader.rowWidth
<1>1. /\ file \in Files
      /\ NumVars = Len(T.columns) /\ NumVars \in Nat /\ index \in 1 .. NumVars + 1
      /\ reader.rowWidth = T.cell[index - 1] /\ reader.nObs = NRead
      /\ IsModern(T) => reader.dataOffset = DataSum
      /\ ~IsModern(T) => reader.dataOffset = T.dataOffset
  BY InWidth
<1>2. reader.rowWidth = RowWidth(T) /\ RowWidth(T) \in Nat
  <2>1. index - 1 = Len(T.columns)
    BY <1>1
  <2>2. T.cell \in [0 .. Len(T.columns) -> Nat] /\ Len(T.columns) \in 0 .. Len(T.columns)
    BY <1>1, CellsThere
  <2> QED
    BY <1>1, <2>1, <2>2 DEF RowWidth
<1>3. /\ NRead \in Nat /\ T.nObs \in Nat /\ T.dataOffset \in Nat
      /\ T.size \in Nat /\ Size(file) \in Nat
  BY <1>1, CountsThere, CellsThere, LaidOutSizes
<1>4. RowWidth(T) < Mod32 /\ T.dataOffset + T.nObs * RowWidth(T) <= T.size
  BY <1>1, CellsThere
<1>5. Damage \in Sound \/ ~Exceeds(file, NAt(T), MostRows(file)) => NRead = T.nObs
  BY <1>1, CountsThere, Zenon
<1>6. Damage # "cut" => Size(file) = T.size
  BY <1>1, LaidOutSizes
<1>7. IsModern(T) =>
        /\ DataRead \in Nat
        /\ Damage \in Sound \/ ~Exceeds(file, MapEntryAt(T, 9), MostData(file)) =>
             DataRead + DataTag = T.dataOffset
        /\ Exceeds(file, MapEntryAt(T, 9), MostData(file)) <=> DataRead > Size(file) - DataTag
        /\ Wraps => DataSum < DataTag /\ Damage \notin Sound
        /\ ~Wraps => DataSum = DataRead + DataTag
  <2> SUFFICES ASSUME IsModern(T)
      PROVE  /\ DataRead \in Nat
             /\ Damage \in Sound \/ ~Exceeds(file, MapEntryAt(T, 9), MostData(file)) =>
                  DataRead + DataTag = T.dataOffset
             /\ Exceeds(file, MapEntryAt(T, 9), MostData(file))
                  <=> DataRead > Size(file) - DataTag
             /\ Wraps => DataSum < DataTag /\ Damage \notin Sound
             /\ ~Wraps => DataSum = DataRead + DataTag
    OBVIOUS
  <2>1. DataRead \in 0 .. Mod64 - 1
        /\ (Damage \in Sound \/ ~Exceeds(file, MapEntryAt(T, 9), MostData(file)) =>
              DataRead + DataTag = T.dataOffset)
    BY <1>1, DataThere
  <2>2. Exceeds(file, MapEntryAt(T, 9), MostData(file)) <=> DataRead > Size(file) - DataTag
    BY DEF Exceeds, DataRead, MostData
  <2> QED
    BY <1>1, <2>1, <2>2, SumOfData, ModAssumption
<1>8. RowWidth(T) > 0 =>
        (Exceeds(file, NAt(T), MostRows(file))
           <=> NRead > (Size(file) - T.dataOffset) \div RowWidth(T))
  BY <1>2 DEF Exceeds, NRead, MostRows, T
<1>9. ASSUME Damage = "none" PROVE RowsFit
  <2>1. /\ reader.dataOffset = T.dataOffset /\ NRead = T.nObs /\ Size(file) = T.size
    <3>1. Damage \in Sound
      BY <1>9 DEF Sound
    <3>2. NRead = T.nObs /\ Size(file) = T.size
      BY <1>9, <1>5, <1>6, <3>1
    <3>3. reader.dataOffset = T.dataOffset
      BY <1>1, <1>7, <3>1, Zenon
    <3> QED
      BY <3>2, <3>3
  <2>2. T.nObs * RowWidth(T) \in Nat
    BY <1>2, <1>3
  <2>3. T.dataOffset <= Size(file) /\ T.nObs * RowWidth(T) <= Size(file) - T.dataOffset
        /\ Size(file) - T.dataOffset \in Nat
    <3> DEFINE rows == T.nObs * RowWidth(T)
    <3>1. rows \in Nat /\ T.dataOffset + rows <= Size(file)
      BY <1>4, <2>1, <2>2
    <3> HIDE DEF rows
    <3>2. T.dataOffset \in Nat /\ Size(file) \in Nat
      BY <1>3
    <3>3. T.dataOffset <= Size(file) /\ rows <= Size(file) - T.dataOffset
          /\ Size(file) - T.dataOffset \in Nat
      BY <3>1, <3>2
    <3> QED
      BY <3>3 DEF rows
  <2>4. RowWidth(T) > 0 => T.nObs <= (Size(file) - T.dataOffset) \div RowWidth(T)
    BY <1>2, <1>3, <2>3, QuotientBound
  <2> QED
    BY <1>1, <1>2, <1>4, <2>1, <2>3, <2>4 DEF RowsFit
<1>10. ASSUME RowsFit, ~Wraps
      PROVE  /\ reader.dataOffset = T.dataOffset
             /\ IsModern(T) => ~Exceeds(file, MapEntryAt(T, 9), MostData(file))
             /\ RowWidth(T) > 0 => ~Exceeds(file, NAt(T), MostRows(file))
             /\ T.nObs * RowWidth(T) = reader.nObs * reader.rowWidth
  <2>1. reader.dataOffset <= Size(file)
    BY <1>10 DEF RowsFit
  <2>2. IsModern(T) => ~Exceeds(file, MapEntryAt(T, 9), MostData(file))
    <3> SUFFICES ASSUME IsModern(T) PROVE ~Exceeds(file, MapEntryAt(T, 9), MostData(file))
      OBVIOUS
    <3>1. DataRead \in Nat /\ Size(file) \in Nat
      BY <1>3, <1>7
    <3>3. DataRead + DataTag <= Size(file)
      BY <1>1, <1>7, <1>10, <2>1, Zenon
    <3>2. ~(DataRead > Size(file) - DataTag)
      BY <3>1, <3>3 DEF DataTag
    <3> QED
      BY <1>7, <3>2, Zenon
  <2>3. reader.dataOffset = T.dataOffset
    BY <1>1, <1>7, <1>10, <2>2
  <2>4. RowWidth(T) > 0 => ~Exceeds(file, NAt(T), MostRows(file))
    <3> SUFFICES ASSUME RowWidth(T) > 0 PROVE ~Exceeds(file, NAt(T), MostRows(file))
      OBVIOUS
    <3>1. NRead <= (Size(file) - T.dataOffset) \div RowWidth(T)
      BY <1>1, <1>2, <1>10, <2>3 DEF RowsFit
    <3>2. (Size(file) - T.dataOffset) \div RowWidth(T) \in Int
      <4>1. Size(file) - T.dataOffset \in Int /\ RowWidth(T) \in Nat /\ RowWidth(T) > 0
        <5>1. RowWidth(T) \in Nat /\ RowWidth(T) > 0
          BY <1>2
        <5>2. Size(file) \in Nat /\ T.dataOffset \in Nat
          BY <1>3
        <5> QED
          BY <5>1, <5>2
      <4> QED
        BY <4>1
    <3> QED
      BY <1>3, <1>8, <3>1, <3>2
  <2>5. T.nObs * RowWidth(T) = reader.nObs * reader.rowWidth
    <3>1. CASE RowWidth(T) > 0
      <4>1. NRead = T.nObs
        BY <1>5, <2>4, <3>1, Zenon
      <4> QED
        BY <1>1, <1>2, <4>1, Zenon
    <3>2. CASE RowWidth(T) = 0
      BY <1>1, <1>2, <1>3, <3>2
    <3> QED
      BY <1>2, <3>1, <3>2
  <2> QED
    BY <2>2, <2>3, <2>4, <2>5
<1>11. ASSUME Wraps PROVE StartInv
  BY <1>1, <1>7, <1>11 DEF StartInv, Wraps
<1> QED
  BY <1>2, <1>9, <1>10, <1>11 DEF StartInv

LEMMA CheckRowsFollows ==
  ASSUME OInv, ReadInv, IsLaidOut(file), CheckRows
  PROVE  Follows
<1>1. /\ pc = "width" /\ index > NumVars /\ Goto("bind", RowsFit)
      /\ reader' = IF Mapped \/ ~RowsFit THEN reader
                   ELSE [reader EXCEPT !.labelsOffset =
                           reader.dataOffset + reader.nObs * reader.rowWidth]
      /\ UNCHANGED <<file, wantLabels, columns, strls, labels>>
  BY DEF CheckRows, Unchanged
<1>2. /\ reader.rowWidth = RowWidth(T)
      /\ Damage = "none" => RowsFit
      /\ RowsFit => StartInv
      /\ RowsFit /\ ~Wraps => T.nObs * RowWidth(T) = reader.nObs * reader.rowWidth
  BY <1>1, RowsChecked
<1>3. Damage = "none" => pc' # "error"
  BY <1>1, <1>2 DEF Goto
<1>4. ASSUME pc' # "error" PROVE ReadInv'
  <2>1. pc' = "bind" /\ RowsFit
    BY <1>1, <1>4 DEF Goto
  <2>2. /\ file \in Files /\ DOMAIN reader = ReaderFields /\ Mapped = IsModern(T)
        /\ IsModern(T) => /\ reader.dataOffset = DataSum
                          /\ reader.strlsOffset = T.at.strls
                          /\ reader.labelsOffset = T.at.labels
        /\ ~IsModern(T) => /\ reader.dataOffset = T.dataOffset
                           /\ NoExpansionExceeds(Len(T.expansions) + 1)
    BY <1>1, InWidth
  <2>3. ~IsModern(T) => T.at.labels = T.dataOffset + T.nObs * RowWidth(T)
    <3>1. ~IsModern(T) => Expansions(file)
      BY LaidOutParts
    <3> QED
      BY <3>1 DEF Expansions, T
  <2>4. /\ reader'.version = reader.version /\ reader'.modern = reader.modern
        /\ reader'.nObs = reader.nObs /\ reader'.dataOffset = reader.dataOffset
        /\ reader'.strlsOffset = reader.strlsOffset /\ reader'.rowWidth = reader.rowWidth
        /\ IsModern(T) => reader'.labelsOffset = reader.labelsOffset
        /\ ~IsModern(T) => reader'.labelsOffset
                             = reader.dataOffset + reader.nObs * reader.rowWidth
    BY <1>1, <2>1, <2>2 DEF ReaderFields
  <2>5. T' = T /\ DataSum' = DataSum
        /\ \A n : NoExpansionExceeds(n)' <=> NoExpansionExceeds(n)
    BY <1>1, SameFile
  <2>6. ~IsModern(T) => NoExpansionExceeds(Len(T.expansions) + 1)'
    <3>1. PICK n : n = Len(T.expansions) + 1
      OBVIOUS
    <3>2. ~IsModern(T) => NoExpansionExceeds(n)'
      BY <2>2, <2>5, <3>1
    <3>3. n = (Len(T.expansions) + 1)'
      BY <2>5, <3>1
    <3> QED
      BY <3>2, <3>3
  <2>7. RowsInv'
    <3>1. ~IsModern(T) => reader'.labelsOffset = T.at.labels
      BY <1>2, <2>1, <2>2, <2>3, <2>4 DEF Wraps
    <3>4. StartInv'
      BY <1>1, <1>2, <2>1, <2>4, SameStart
    <3>2. /\ reader'.rowWidth = RowWidth(T)
          /\ ~IsModern(T) => reader'.dataOffset = T.dataOffset
          /\ IsModern(T) => /\ reader'.dataOffset = DataSum
                            /\ reader'.strlsOffset = T.at.strls
                            /\ reader'.labelsOffset = T.at.labels
      BY <1>2, <2>1, <2>2, <2>4
    <3>3. pc' # "expansion" /\ pc' # "width"
      BY <2>1
    <3> QED
      BY <1>1, <2>5, <2>6, <3>1, <3>2, <3>3, <3>4 DEF RowsInv
  <2> QED
    BY <1>1, <2>1, <2>4, <2>7, MiddleStep
<1> QED
  BY <1>3, <1>4 DEF Follows

-----------------------------------------------------------------------------
(***************************************************************************)
(* The bind, and the label tables.                                         *)
(***************************************************************************)

\* Legacy files have no strLs.
LEMMA StrLsAreModern ==
  ASSUME IsLaidOut(file), HasStrLColumn(T)
  PROVE  IsModern(T)
<1>1. PICK i \in 1 .. Len(T.columns) : T.columns[i].type = StrL
  BY DEF HasStrLColumn
<1>2. PICK kept \in [1 .. Cardinality(InRows(T)) -> InRows(T)] :
        T.columns = [k \in 1 .. Cardinality(InRows(T)) |->
             [type |-> VariableType(T, kept[k]), name |-> T.variables[kept[k]].name,
              labelName |-> T.variables[kept[k]].labelName]]
  BY LaidOutParts, Zenon DEF Columns
<1>4. Len(T.columns) = Cardinality(InRows(T))
  BY ColumnsListed
<1>5. T.columns[i].type = VariableType(T, kept[i])
  <2>1. T.columns[i] = [type |-> VariableType(T, kept[i]), name |-> T.variables[kept[i]].name,
                        labelName |-> T.variables[kept[i]].labelName]
    BY <1>1, <1>2, <1>4, Zenon
  <2> QED
    BY <2>1
<1>6. ASSUME NEW code PROVE TranslateLegacyType(code) # StrL
  <2>1. CASE code \in 1 .. 244
    <3>1. PICK c \in 1 .. 244 : c = code
      BY <2>1
    <3>2. c \notin 251 .. 255 /\ c # 32768
      OBVIOUS
    <3> QED
      BY <3>1, <3>2 DEF TranslateLegacyType, StrL
  <2>2. CASE code \notin 1 .. 244 /\ code \in 251 .. 255
    <3>1. PICK c \in 251 .. 255 : c = code
      BY <2>2
    <3>2. TranslateLegacyType(c) = 65781 - c
      BY DEF TranslateLegacyType
    <3> QED
      BY <3>1, <3>2 DEF StrL
  <2>3. CASE code \notin 1 .. 244 /\ code \notin 251 .. 255
    BY <2>3 DEF TranslateLegacyType, StrL
  <2> QED
    BY <2>1, <2>2, <2>3
<1> QED
  BY <1>1, <1>5, <1>6 DEF VariableType

\* What does not change once the rows are checked.
LEMMA LateFrame ==
  ASSUME ReadInv, pc \in LatePoints, pc' \in LatePoints,
         UNCHANGED <<file, reader, columns>>, pc' \in ModernPoints => IsModern(T),
         PlaceInv', LabelsInv', StrLsInv'
  PROVE  ReadInv'
<1>1. T' = T /\ KRead' = KRead /\ NRead' = NRead /\ DataSum' = DataSum
      /\ \A n : NoExpansionExceeds(n)' <=> NoExpansionExceeds(n)
  BY SameFile
<1>2. \A p \in LatePoints :
        /\ p \in AfterHeader /\ p \notin LegacyPoints \cup ListPoints
        /\ p \notin {"first", "release", "map", "expansion", "width"}
        /\ p \notin {"N", "label", "labelText", "timestamp", "headerEnd"}
  BY DEF LatePoints, AfterHeader, LegacyPoints, ListPoints
<1>3. FormatInv'
  <2>1. reader.version = T.version /\ reader.modern = (pc # "first" /\ IsModern(T))
    BY <1>2 DEF ReadInv, FormatInv
  <2>2. reader'.modern = (pc' # "first" /\ IsModern(T'))
    BY <1>1, <1>2, <2>1
  <2> QED
    BY <1>1, <1>2, <2>1, <2>2 DEF FormatInv
<1>4. CountsInv'
  <2>1. reader.nObs = NRead /\ ~Exceeds(file, KAt(T), MostVariables(file))
    BY <1>2 DEF ReadInv, CountsInv
  <2> QED
    BY <1>1, <1>2, <2>1 DEF CountsInv
<1>5. DescribedInv'
  <2>1. columns = T.columns
    BY DEF ReadInv, DescribedInv
  <2>2. pc' \notin {"map"} \cup ListPoints /\ pc' \notin ListPoints \ {"types"}
        /\ pc' \notin ListPoints \ {"types", "names"} /\ pc' # "varLabels"
    BY <1>2 DEF ListPoints
  <2> QED
    BY <1>1, <2>1, <2>2, Zenon DEF DescribedInv
<1>6. RowsInv'
  <2>1. /\ IsModern(T) => /\ reader.dataOffset = DataSum
                          /\ reader.strlsOffset = T.at.strls
                          /\ reader.labelsOffset = T.at.labels
        /\ ~IsModern(T) => /\ reader.dataOffset = T.dataOffset
                           /\ NoExpansionExceeds(Len(T.expansions) + 1)
        /\ reader.rowWidth = RowWidth(T) /\ StartInv
        /\ ~IsModern(T) => reader.labelsOffset = T.at.labels
    BY DEF ReadInv, RowsInv
  <2>2. ~IsModern(T) => NoExpansionExceeds(Len(T.expansions) + 1)'
    <3>1. PICK n : n = Len(T.expansions) + 1
      OBVIOUS
    <3>2. ~IsModern(T) => NoExpansionExceeds(n)'
      BY <1>1, <2>1, <3>1
    <3>3. n = (Len(T.expansions) + 1)'
      BY <1>1, <3>1
    <3> QED
      BY <3>2, <3>3
  <2>3. pc' # "expansion" /\ pc' # "width"
    BY <1>2
  <2>4. StartInv'
    BY <2>1, SameStart
  <2> QED
    BY <1>1, <2>1, <2>2, <2>3, <2>4 DEF RowsInv
<1> QED
  BY <1>3, <1>4, <1>5, <1>6 DEF ReadInv

LEMMA StrLsKnown ==
  ASSUME ReadInv, pc \in LatePoints
  PROVE  HasStrLs <=> HasStrLColumn(T)
<1>1. columns = T.columns
  BY DEF ReadInv, DescribedInv
<1> QED
  BY <1>1 DEF HasStrLs, HasStrLColumn, NumVars

\* Going on to the strLs, if any, with the labels that were read.
LEMMA AfterLabelsFollow ==
  ASSUME ReadInv, IsLaidOut(file), pc \in LatePoints, pc' = AfterLabels,
         UNCHANGED <<file, wantLabels, reader, columns, strls, labels>>, StrLsRead(0),
         ~wantLabels => LabelsRead(0),
         wantLabels => \E n \in 0 .. Len(T.tables) :
           LabelsRead(n) /\ (Damage # "cut" => n = Len(T.tables))
  PROVE  ReadInv'
<1>1. /\ T' = T /\ Damage' = Damage
      /\ \A n : LabelsRead(n)' <=> LabelsRead(n)
      /\ \A n : StrLsRead(n)' <=> StrLsRead(n)
  BY SameFile, SameLabels, SameStrLs
<1>2. pc' = IF HasStrLColumn(T) THEN "seekStrLs" ELSE "columns"
  BY StrLsKnown DEF AfterLabels
<1>3. pc' \in LatePoints
  BY <1>2 DEF LatePoints
<1>4. pc' \in ModernPoints => IsModern(T)
  BY <1>2, StrLsAreModern DEF ModernPoints
<1>5. PlaceInv'
  BY <1>2 DEF PlaceInv, SectionPoints
<1>6. LabelsInv'
  <2>1. pc' \notin EarlyPoints \cup {"width", "bind", "labels", "nextTable", "table", "tableEnd"}
    BY <1>2 DEF EarlyPoints, HeaderPoints
  <2>2. ~wantLabels' => LabelsRead(0)'
    BY <1>1
  <2>3. wantLabels' => \E n \in 0 .. Len(T'.tables) :
          LabelsRead(n)' /\ (Damage' # "cut" => n = Len(T'.tables))
    BY <1>1, Zenon
  <2> QED
    BY <2>1, <2>2, <2>3, Zenon DEF LabelsInv
<1>7. StrLsInv'
  <2>1. StrLsRead(0)'
    BY <1>1
  <2>2. /\ pc' \in {"seekStrLs", "strls", "nextStrL", "strl"} => HasStrLColumn(T')
        /\ pc' \in {"columns", "bound"} => ~HasStrLColumn(T')
        /\ pc' # "nextStrL" /\ pc' # "strl"
    BY <1>1, <1>2
  <2> QED
    BY <2>1, <2>2, Zenon DEF StrLsInv
<1> QED
  BY <1>3, <1>4, <1>5, <1>6, <1>7, LateFrame

LEMMA BindFollows ==
  ASSUME OInv, ReadInv, IsLaidOut(file), ReadDtaBind
  PROVE  Follows
<1>1. /\ pc = "bind" /\ pc' = IF wantLabels THEN "labels" ELSE AfterLabels
      /\ pos' = IF wantLabels THEN reader.labelsOffset ELSE pos
      /\ UNCHANGED <<file, wantLabels, reader, columns, strls, labels>>
  BY DEF ReadDtaBind, Unchanged
<1>2. pc \in LatePoints /\ wantLabels \in BOOLEAN
  BY <1>1 DEF LatePoints, OInv, ScalarsInv
<1>3. LabelsRead(0) /\ StrLsRead(0)
  BY <1>1 DEF ReadInv, LabelsInv, StrLsInv
<1>4. CASE wantLabels
  <2>1. pc' = "labels" /\ pos' = T.at.labels
    BY <1>1, <1>2, <1>4 DEF ReadInv, RowsInv
  <2>2. /\ T' = T
        /\ \A n : LabelsRead(n)' <=> LabelsRead(n)
        /\ \A n : StrLsRead(n)' <=> StrLsRead(n)
    BY <1>1, SameFile, SameLabels, SameStrLs
  <2>3. PlaceInv'
    BY <2>1, <2>2 DEF PlaceInv
  <2>4. LabelsInv'
    <3>1. LabelsRead(0)' /\ wantLabels'
      BY <1>1, <1>3, <1>4, <2>2
    <3>2. pc' \notin {"nextTable", "table", "tableEnd", "seekStrLs", "strls", "nextStrL",
                      "strl", "columns", "bound"}
      BY <2>1
    <3> QED
      BY <3>1, <3>2, Zenon DEF LabelsInv
  <2>5. StrLsInv'
    <3>1. StrLsRead(0)'
      BY <1>3, <2>2
    <3>2. pc' \notin {"seekStrLs", "strls", "nextStrL", "strl", "columns", "bound"}
      BY <2>1
    <3> QED
      BY <3>1, <3>2, Zenon DEF StrLsInv
  <2>6. pc' \in LatePoints /\ pc' \notin ModernPoints
    BY <2>1 DEF LatePoints, ModernPoints
  <2> QED
    BY <1>1, <1>2, <2>1, <2>3, <2>4, <2>5, <2>6, LateFrame DEF Follows
<1>5. CASE ~wantLabels
  <2>1. pc' = AfterLabels /\ pc' # "error"
    BY <1>1, <1>5 DEF AfterLabels
  <2> QED
    BY <1>1, <1>2, <1>3, <1>5, <2>1, AfterLabelsFollow DEF Follows
<1> QED
  BY <1>4, <1>5

\* Where the parts of a label table are.
LEMMA TablePlaces ==
  ASSUME file \in Files, IsLaidOut(file)
  PROVE  /\ Len(T.tables) \in Nat
         /\ \A n \in 1 .. Len(T.tables) + 1 : T.tableAt[n] \in Nat /\ T.tableAt[n] <= T.size
         /\ \A n \in 1 .. Len(T.tables) :
              /\ T.tables[n].n \in Nat /\ T.tables[n].txtlen \in Nat
              /\ NameAt(T, n) \in Nat /\ EntriesAt(T, n) \in Nat
              /\ BodyAt(T, n) \in Nat /\ TableEnd(T, n) \in Nat
              /\ T.tableAt[n] + MarkerWidth(T) <= NameAt(T, n)
              /\ NameAt(T, n) <= EntriesAt(T, n) /\ BodyAt(T, n) = EntriesAt(T, n) + 8
              /\ TableEnd(T, n) =
                   BodyAt(T, n) + 8 * T.tables[n].n + T.tables[n].txtlen
              /\ BodyAt(T, n) <= TableEnd(T, n)
              /\ T.tableAt[n + 1] = TableEnd(T, n) + TagLen(Tagged(T, "</lbl>"))
              /\ TableEnd(T, n) <= T.tableAt[n + 1] /\ T.tableAt[n + 1] <= T.size
<1> DEFINE last == Len(T.tables) + 1
<1>1. /\ Len(T.tables) \in Nat /\ T.tableAt \in [1 .. last -> Nat] /\ T.size \in Nat
      /\ \A i \in 1 .. Len(T.tables) : T.tables[i].n \in Nat /\ T.tables[i].txtlen \in Nat
  <2>1. /\ IsListing(T["tables"]) /\ T.tableAt \in [1 .. last -> Nat] /\ T.size \in Nat
        /\ \A i \in DOMAIN T.tables : T.tables[i].n \in Nat /\ T.tables[i].txtlen \in Nat
    BY LaidOutParts DEF TableTypes
  <2> QED
    BY <2>1 DEF IsListing
<1>2. \A n \in 1 .. last - 1 :
        /\ T.tableAt[n + 1] = TableEnd(T, n) + TagLen(Tagged(T, "</lbl>"))
        /\ T.tableAt[n + 1] <= T.size
  BY LaidOutParts DEF LabelTables, T
<1>3. IF IsModern(T) THEN T.tableAt[last] + 5 <= T.size ELSE T.tableAt[last] = T.size
  BY LaidOutParts DEF LabelTables, T
<1>4. TagLen(Tagged(T, "</lbl>")) \in Nat /\ Params(T.version).labelName \in Nat
  BY TaggedType, TagsListed, TagLengths, WidthsOfFormat
<1>5. MarkerWidth(T) \in {4, 5}
  BY DEF MarkerWidth
<1>6. ASSUME NEW n \in 1 .. Len(T.tables)
      PROVE  /\ NameAt(T, n) \in Nat /\ EntriesAt(T, n) \in Nat
             /\ BodyAt(T, n) \in Nat /\ TableEnd(T, n) \in Nat
             /\ T.tableAt[n] + MarkerWidth(T) <= NameAt(T, n)
             /\ NameAt(T, n) <= EntriesAt(T, n) /\ BodyAt(T, n) = EntriesAt(T, n) + 8
             /\ TableEnd(T, n) = BodyAt(T, n) + 8 * T.tables[n].n + T.tables[n].txtlen
             /\ BodyAt(T, n) <= TableEnd(T, n)
             /\ TableEnd(T, n) <= T.tableAt[n + 1]
  <2>1. T.tableAt[n] \in Nat /\ T.tables[n].n \in Nat /\ T.tables[n].txtlen \in Nat
    <3>1. n \in 1 .. last
      BY <1>1
    <3>2. T.tableAt[n] \in Nat
      BY <1>1, <3>1
    <3>3. T.tables[n].n \in Nat /\ T.tables[n].txtlen \in Nat
      BY <1>1
    <3> QED
      BY <3>2, <3>3
  <2>2. NameAt(T, n) \in Nat /\ T.tableAt[n] + MarkerWidth(T) <= NameAt(T, n)
    BY <1>5, <2>1 DEF NameAt
  <2>3. /\ EntriesAt(T, n) \in Nat /\ NameAt(T, n) <= EntriesAt(T, n)
        /\ BodyAt(T, n) = EntriesAt(T, n) + 8 /\ BodyAt(T, n) \in Nat
    BY <1>4, <2>2 DEF EntriesAt, BodyAt
  <2>4. /\ TableEnd(T, n) = BodyAt(T, n) + 8 * T.tables[n].n + T.tables[n].txtlen
        /\ TableEnd(T, n) \in Nat /\ BodyAt(T, n) <= TableEnd(T, n)
    <3>1. TableEnd(T, n) = BodyAt(T, n) + 8 * T.tables[n].n + T.tables[n].txtlen
      BY DEF TableEnd
    <3>2. BodyAt(T, n) \in Nat /\ T.tables[n].n \in Nat /\ T.tables[n].txtlen \in Nat
      BY <2>1, <2>3
    <3>3. \A b, k, x \in Nat : b + 8 * k + x \in Nat /\ b <= b + 8 * k + x
      OBVIOUS
    <3> QED
      BY <3>1, <3>2, <3>3, Zenon
  <2>5. T.tableAt[n + 1] = TableEnd(T, n) + TagLen(Tagged(T, "</lbl>"))
    BY <1>1, <1>2
  <2> QED
    BY <1>4, <2>2, <2>3, <2>4, <2>5
<1>7. ASSUME NEW n \in 1 .. last PROVE T.tableAt[n] \in Nat /\ T.tableAt[n] <= T.size
  <2>1. T.tableAt[n] \in Nat
    BY <1>1
  <2>2. CASE n = last
    BY <1>1, <1>3, <2>1, <2>2
  <2>3. CASE n # last
    <3>1. n \in 1 .. Len(T.tables) /\ n + 1 \in 1 .. last
      BY <1>1, <2>3
    <3>2. /\ NameAt(T, n) \in Nat /\ EntriesAt(T, n) \in Nat
          /\ BodyAt(T, n) \in Nat /\ TableEnd(T, n) \in Nat /\ T.tableAt[n + 1] \in Nat
      BY <1>1, <1>6, <3>1
    <3>3. T.tableAt[n] <= NameAt(T, n)
      BY <1>5, <1>6, <2>1, <3>1, <3>2
    <3>4. NameAt(T, n) <= BodyAt(T, n)
      BY <1>6, <3>1, <3>2
    <3>5. BodyAt(T, n) <= T.tableAt[n + 1] /\ T.tableAt[n + 1] <= T.size
      BY <1>1, <1>2, <1>6, <3>1, <3>2
    <3> QED
      BY <1>1, <2>1, <3>2, <3>3, <3>4, <3>5
  <2> QED
    BY <2>2, <2>3
<1> QED
  BY <1>1, <1>2, <1>6, <1>7

\* The steps within the loop over label tables.
LEMMA LabelsStep ==
  ASSUME ReadInv, pc \in {"labels", "nextTable", "table", "tableEnd"},
         pc' \in {"nextTable", "table", "tableEnd"},
         UNCHANGED <<file, wantLabels, reader, columns, strls>>,
         pc' = "nextTable" => \E n \in 1 .. Len(T.tables) + 1 :
           pos' = T.tableAt[n] /\ LabelsRead(n - 1)',
         pc' = "table" => \E n \in 1 .. Len(T.tables) :
           pos' = T.tableAt[n] + MarkerWidth(T) /\ LabelsRead(n - 1)',
         pc' = "tableEnd" => \E n \in 1 .. Len(T.tables) :
           pos' = TableEnd(T, n) /\ LabelsRead(n)'
  PROVE  ReadInv'
<1>1. T' = T /\ StrLsRead(0) /\ wantLabels
  BY SameFile DEF ReadInv, LabelsInv, StrLsInv
<1>2. pc \in LatePoints /\ pc' \in LatePoints /\ pc' \notin ModernPoints \cup SectionPoints
  BY DEF LatePoints, ModernPoints, SectionPoints
<1>3. PlaceInv'
  BY <1>2 DEF PlaceInv, SectionPoints
<1>4. LabelsInv'
  <2>1. /\ pc' \notin EarlyPoints \cup {"width", "bind", "labels"}
        /\ pc' \notin {"seekStrLs", "strls", "nextStrL", "strl", "columns", "bound"}
    BY DEF EarlyPoints, HeaderPoints
  <2>2. wantLabels'
    BY <1>1
  <2>3. pc' = "nextTable" => \E n \in 1 .. Len(T'.tables) + 1 :
          pos' = T'.tableAt[n] /\ LabelsRead(n - 1)'
    BY <1>1
  <2>4. pc' = "table" => \E n \in 1 .. Len(T'.tables) :
          pos' = T'.tableAt[n] + MarkerWidth(T') /\ LabelsRead(n - 1)'
    BY <1>1
  <2>5. pc' = "tableEnd" => \E n \in 1 .. Len(T'.tables) :
          pos' = TableEnd(T', n) /\ LabelsRead(n)'
    BY <1>1
  <2> QED
    BY <2>1, <2>2, <2>3, <2>4, <2>5, Zenon DEF LabelsInv
<1>5. StrLsInv'
  <2>1. StrLsRead(0)'
    BY <1>1, SameStrLs
  <2>2. pc' \notin {"seekStrLs", "strls", "nextStrL", "strl", "columns", "bound"}
    OBVIOUS
  <2> QED
    BY <2>1, <2>2, Zenon DEF StrLsInv
<1> QED
  BY <1>2, <1>3, <1>4, <1>5, LateFrame

\* The tables begin after the tag of their section, if it has one.
LEMMA LabelsSection ==
  ASSUME ReadInv, IsLaidOut(file), file \in Files, pc = "labels"
  PROVE  SectionExpected(T.tableAt[1])
<1>1. pos = T.at.labels /\ Mapped = IsModern(T)
  BY FormatRead DEF ReadInv, PlaceInv, SectionPoints
<1>2. /\ IsModern(T) => Is(file, T.at.labels, "tag", "<value_labels>")
      /\ T.tableAt[1] = T.at.labels + TagLen(Tagged(T, "<value_labels>"))
  BY LaidOutParts DEF LabelTables, T
<1>3. T.tableAt[1] <= T.size
  BY TablePlaces
<1>4. Expected = Layout(Tagged(T, "<value_labels>"), 0, "")
  BY <1>1 DEF Expected, Tagged
<1>5. /\ T.at.labels \in Nat /\ TagLen(Tagged(T, "<value_labels>")) \in Nat
      /\ TagLen("") = 0
  BY LaidOutSizes, TaggedType, TagsListed, TagLengths DEF Sections
<1>6. Expected.open = Tagged(T, "<value_labels>") /\ Expected.bytes = 0 /\ Expected.close = ""
  BY <1>4 DEF Layout
<1>7. Expected.open # "" => Is(file, pos, "tag", Expected.open)
  BY <1>1, <1>2, <1>6 DEF Tagged
<1>8. T.tableAt[1] = pos + TagLen(Expected.open) + Expected.bytes + TagLen(Expected.close)
  <2>1. /\ TagLen(Expected.open) = TagLen(Tagged(T, "<value_labels>"))
        /\ TagLen(Expected.close) = 0
    BY <1>5, <1>6, Zenon
  <2>2. TagLen(Expected.open) \in Nat /\ pos \in Nat /\ Expected.bytes = 0
    BY <1>1, <1>5, <1>6, <2>1
  <2> QED
    BY <1>1, <1>2, <2>1, <2>2
<1> QED
  BY <1>3, <1>6, <1>7, <1>8 DEF SectionExpected, Section, T

LEMMA LoadValueLabelsFollows ==
  ASSUME OInv, ReadInv, IsLaidOut(file), LoadValueLabels
  PROVE  Follows
<1>1. /\ pc = "labels" /\ pc' = "nextTable" /\ Advance(0)
      /\ UNCHANGED <<file, wantLabels, reader, columns, strls, labels>>
  BY DEF LoadValueLabels, Skip, At, Unchanged
<1>2. file \in Files /\ pc \in ReadPoints
  BY <1>1, LatePointsOf DEF OInv, ScalarsInv
<1>3. pos' = T.tableAt[1]
  BY <1>1, <1>2, LabelsSection, SectionRead
<1>4. 1 \in 1 .. Len(T.tables) + 1 /\ LabelsRead(1 - 1)'
  <2>1. LabelsRead(0)'
    BY <1>1, SameLabels DEF ReadInv, LabelsInv
  <2> QED
    BY <1>2, <2>1, TablePlaces
<1> QED
  BY <1>1, <1>3, <1>4, LabelsStep DEF Follows

\* A tag that is there is the one that is read.
LEMMA TagIs ==
  ASSUME NEW p, NEW tag, Is(file, p, "tag", tag)
  PROVE  /\ p + TagLen(tag) <= Size(file) => TagAt(p, tag)
         /\ \A other : other \notin {"", tag} => ~TagAt(p, other)
<1>1. TokenAt(p) = Tag(tag)
  BY TokenThere DEF Tag
<1>2. ASSUME NEW a, NEW b, Tag(a) = Tag(b) PROVE a = b
  <2>1. Tag(a).value = a /\ Tag(b).value = b
    BY DEF Tag
  <2> QED
    BY <1>2, <2>1, Zenon
<1>3. ASSUME NEW other, other \notin {"", tag} PROVE ~TagAt(p, other)
  <2>1. other # tag
    BY <1>3
  <2>2. TokenAt(p) # Tag(other)
    BY <1>1, <1>2, <2>1, Zenon
  <2> QED
    BY <1>3, <2>2, Zenon DEF TagAt
<1>4. p + TagLen(tag) <= Size(file) => TagAt(p, tag)
  BY <1>1, Zenon DEF TagAt
<1> QED
  BY <1>3, <1>4, Zenon

\* The loops: the marker of an item leads to the item, unless it is cut off.
LEMMA ItemThere ==
  ASSUME NEW point, NEW width \in Nat, width > 0, NEW open, NEW item, NEW close, NEW after,
         NextItem(point, width, open, item, close, after), pos \in Nat, Size(file) \in Nat,
         pos + width <= Size(file) => TagAt(pos, open)
  PROVE  \/ pc' = item /\ pos' = pos + width /\ pos + width <= Size(file)
         \/ pc' = after /\ ~(pos + width <= Size(file))
<1>1. /\ IF Remaining < width THEN pc' = after
         ELSE IF TagAt(pos, open) THEN pc' = item
         ELSE Goto(after, TagAt(pos, close))
      /\ pos' = IF pc' = item THEN pos + width ELSE pos
  BY DEF NextItem, CutOff
<1>2. Remaining < width <=> ~(pos + width <= Size(file))
  BY DEF Remaining
<1> QED
  BY <1>1, <1>2

\* ... and the closing tag ends the loop, unless it is cut off.
LEMMA EndThere ==
  ASSUME NEW point, NEW width \in Nat, NEW open, NEW item, NEW close, NEW after,
         NextItem(point, width, open, item, close, after), ~TagAt(pos, open)
  PROVE  pc' = after \/ (pc' = "error" /\ ~TagAt(pos, close))
  BY DEF NextItem, CutOff, Goto

\* The marker of a label table is in a whole file.
LEMMA MarkersFit ==
  ASSUME file \in Files, IsLaidOut(file), NEW n \in 1 .. Len(T.tables)
  PROVE  T.tableAt[n] + MarkerWidth(T) <= T.size
<1>1. /\ NameAt(T, n) \in Nat /\ EntriesAt(T, n) \in Nat
      /\ BodyAt(T, n) \in Nat /\ TableEnd(T, n) \in Nat
      /\ T.tableAt[n] + MarkerWidth(T) <= NameAt(T, n)
      /\ NameAt(T, n) <= EntriesAt(T, n) /\ BodyAt(T, n) = EntriesAt(T, n) + 8
      /\ BodyAt(T, n) <= TableEnd(T, n)
      /\ TableEnd(T, n) <= T.tableAt[n + 1] /\ T.tableAt[n + 1] <= T.size
      /\ n + 1 \in 1 .. Len(T.tables) + 1 /\ n \in 1 .. Len(T.tables) + 1
  BY TablePlaces
<1>2. T.tableAt[n + 1] \in Nat /\ T.tableAt[n] \in Nat /\ T.size \in Nat
  BY <1>1, TablePlaces, LaidOutSizes
<1>3. MarkerWidth(T) \in Nat
  BY DEF MarkerWidth
<1>4. NameAt(T, n) <= BodyAt(T, n)
  BY <1>1
<1>5. BodyAt(T, n) <= T.size
  BY <1>1, <1>2
<1>6. \A x, a, b, c, m \in Nat : x + m <= a /\ a <= b /\ b <= c => x + m <= c
  OBVIOUS
<1> QED
  BY <1>1, <1>2, <1>3, <1>4, <1>5, <1>6, Zenon

LEMMA NextLabelTableFollows ==
  ASSUME OInv, ReadInv, IsLaidOut(file), NextLabelTable
  PROVE  Follows
<1>1. /\ pc = "nextTable"
      /\ UNCHANGED <<file, wantLabels, reader, columns, strls, labels>>
  BY DEF NextLabelTable, NextItem, Unchanged
<1>2. /\ file \in Files /\ pos \in Nat /\ Size(file) \in Nat /\ T.size \in Nat
      /\ Size(file) <= T.size
      /\ Damage # "cut" => Size(file) = T.size
  BY LaidOutSizes DEF OInv, ScalarsInv
<1>3. Mapped = IsModern(T) /\ wantLabels /\ StrLsRead(0) /\ pc \in LatePoints
  BY <1>1, <1>2, FormatRead DEF ReadInv, LabelsInv, StrLsInv, LatePoints
<1>4. PICK n \in 1 .. Len(T.tables) + 1 : pos = T.tableAt[n] /\ LabelsRead(n - 1)
  BY <1>1 DEF ReadInv, LabelsInv
<1>5. Len(T.tables) \in Nat
  BY <1>2, TablePlaces
<1>6. ASSUME pc' = AfterLabels, Damage # "cut" => n = Len(T.tables) + 1
      PROVE  Follows
  <2>1. n - 1 \in 0 .. Len(T.tables) /\ (Damage # "cut" => n - 1 = Len(T.tables))
    BY <1>5, <1>6
  <2>2. wantLabels => \E m \in 0 .. Len(T.tables) :
          LabelsRead(m) /\ (Damage # "cut" => m = Len(T.tables))
    BY <1>4, <2>1
  <2>3. ReadInv'
    BY <1>1, <1>3, <1>6, <2>2, AfterLabelsFollow
  <2>4. pc' # "error"
    BY <1>6 DEF AfterLabels
  <2> QED
    BY <2>3, <2>4 DEF Follows
<1>7. CASE n # Len(T.tables) + 1
  <2>1. n \in 1 .. Len(T.tables) /\ pos = T.tableAt[n]
    BY <1>4, <1>5, <1>7
  <2>2. MarkerWidth(T) \in Nat /\ MarkerWidth(T) > 0
    BY DEF MarkerWidth
  <2>3. \E open, close :
          /\ NextItem("nextTable", MarkerWidth(T), open, "table", close, AfterLabels)
          /\ pos + MarkerWidth(T) <= Size(file) => TagAt(pos, open)
    <3>1. CASE IsModern(T)
      <4>1. Is(file, pos, "tag", "<lbl>")
        <5>1. n \in 1 .. (Len(T.tables) + 1) - 1
          BY <1>5, <2>1
        <5>2. Is(file, T.tableAt[n], "tag", "<lbl>")
          BY <3>1, <5>1, LaidOutParts DEF LabelTables, T
        <5> QED
          BY <2>1, <5>2
      <4>2. MarkerWidth(T) = 5 /\ TagLen("<lbl>") = 5
        BY <3>1, TagLengths DEF MarkerWidth
      <4>3. NextItem("nextTable", 5, "<lbl>", "table", "</value_labels>", AfterLabels)
        BY <1>3, <3>1 DEF NextLabelTable
      <4>4. pos + TagLen("<lbl>") <= Size(file) => TagAt(pos, "<lbl>")
        BY <4>1, TagIs, Zenon
      <4> QED
        BY <4>2, <4>3, <4>4, Zenon
    <3>2. CASE ~IsModern(T)
      <4>1. NextItem("nextTable", 4, "", "table", "", AfterLabels)
        BY <1>3, <3>2 DEF NextLabelTable
      <4>2. TagAt(pos, "") /\ MarkerWidth(T) = 4
        BY <3>2 DEF TagAt, MarkerWidth
      <4> QED
        BY <4>1, <4>2, Zenon
    <3> QED
      BY <3>1, <3>2
  <2>4. \/ pc' = "table" /\ pos' = pos + MarkerWidth(T)
        \/ pc' = AfterLabels /\ ~(pos + MarkerWidth(T) <= Size(file))
    BY <1>2, <2>2, <2>3, ItemThere, Zenon
  <2>5. CASE pc' = "table" /\ pos' = pos + MarkerWidth(T)
    <3>1. LabelsRead(n - 1)'
      BY <1>1, <1>4, SameLabels
    <3>2. ReadInv'
      BY <1>1, <2>1, <2>5, <3>1, LabelsStep
    <3> QED
      BY <2>5, <3>2 DEF Follows
  <2>6. CASE pc' = AfterLabels /\ ~(pos + MarkerWidth(T) <= Size(file))
    <3>1. pos + MarkerWidth(T) <= T.size
      BY <1>2, <2>1, MarkersFit
    <3>2. Damage = "cut"
      BY <1>2, <2>6, <3>1, Zenon
    <3> QED
      BY <1>6, <2>6, <3>2
  <2> QED
    BY <2>4, <2>5, <2>6
<1>8. CASE n = Len(T.tables) + 1
  <2>1. CASE IsModern(T)
    <3>1. /\ Is(file, pos, "tag", "</value_labels>")
          /\ pos + TagLen("</value_labels>") <= T.size
      BY <1>4, <1>8, <2>1, LaidOutParts DEF LabelTables, T
    <3>2. NextItem("nextTable", 5, "<lbl>", "table", "</value_labels>", AfterLabels)
      BY <1>3, <2>1 DEF NextLabelTable
    <3>3. "<lbl>" \notin {"", "</value_labels>"} /\ 5 \in Nat
      OBVIOUS
    <3>4. ~TagAt(pos, "<lbl>")
      BY <3>1, <3>3, TagIs, Zenon
    <3>5. pc' = AfterLabels \/ (pc' = "error" /\ ~TagAt(pos, "</value_labels>"))
      BY <3>2, <3>3, <3>4, EndThere, Zenon
    <3>6. CASE pc' = AfterLabels
      BY <1>6, <1>8, <3>6
    <3>7. CASE pc' = "error" /\ ~TagAt(pos, "</value_labels>")
      <4>1. ~(pos + TagLen("</value_labels>") <= Size(file))
        BY <3>1, <3>7, TagIs, Zenon
      <4>2. Damage = "cut"
        BY <1>2, <3>1, <4>1, Zenon
      <4> QED
        BY <3>7, <4>2 DEF Follows
    <3> QED
      BY <3>5, <3>6, <3>7
  <2>2. CASE ~IsModern(T)
    <3>1. NextItem("nextTable", 4, "", "table", "", AfterLabels)
      BY <1>3, <2>2 DEF NextLabelTable
    <3>2. pos = T.size
      BY <1>4, <1>8, <2>2, LaidOutParts DEF LabelTables, T
    <3>3. pc' = AfterLabels
      <4>1. ~(pos + 4 <= Size(file))
        BY <1>2, <3>2
      <4>2. TagAt(pos, "") /\ 4 \in Nat /\ 4 > 0
        BY DEF TagAt
      <4> QED
        BY <1>2, <3>1, <4>1, <4>2, ItemThere, Zenon
    <3> QED
      BY <1>6, <1>8, <3>3
  <2> QED
    BY <2>1, <2>2
<1> QED
  BY <1>7, <1>8

\* The sizes of a label table are those of the table of the file, unless one of
\* them exceeds the file.
LEMMA TableSizes ==
  ASSUME file \in Files, IsLaidOut(file), NEW n \in 1 .. Len(T.tables)
  PROVE  LET p == EntriesAt(T, n)
             entries == Content(file)[p].value
             text == Content(file)[p + 4].value
         IN
           /\ p \in DOMAIN Content(file) /\ Content(file)[p].kind = "n"
           /\ p + 4 \in DOMAIN Content(file) /\ Content(file)[p + 4].kind = "txtlen"
           /\ entries \in Nat /\ text \in Nat
           /\ Damage \in Sound \/ ~Exceeds(file, p, MostEntries(file, n)) =>
                entries = T.tables[n].n
           /\ Damage \in Sound \/ ~Exceeds(file, p + 4, MostText(file, n)) =>
                text = T.tables[n].txtlen
           /\ Is(file, NameAt(T, n), "labelName", T.tables[n].name)
           /\ Is(file, BodyAt(T, n), "labels", T.tables[n].body)
           /\ T.labels[n] = LabelsOf(T, n)
<1> DEFINE p == EntriesAt(T, n)
<1>1. n \in 1 .. (Len(T.tables) + 1) - 1
  BY TablePlaces
<1>2. /\ Is(file, NameAt(T, n), "labelName", T.tables[n].name)
      /\ Sized(file, p, "n", T.tables[n].n, MostEntries(file, n))
      /\ Sized(file, p + 4, "txtlen", T.tables[n].txtlen, MostText(file, n))
      /\ Is(file, BodyAt(T, n), "labels", T.tables[n].body)
  BY <1>1, LaidOutParts DEF LabelTables, T
<1>3. T.labels[n] = LabelsOf(T, n)
  <2>1. T.labels = [i \in 1 .. (Len(T.tables) + 1) - 1 |-> LabelsOf(T, i)]
    BY LaidOutParts DEF LabelTables, T
  <2> QED
    BY <1>1, <2>1, Zenon
<1>4. /\ p \in DOMAIN Content(file) /\ Content(file)[p].kind = "n"
      /\ p + 4 \in DOMAIN Content(file) /\ Content(file)[p + 4].kind = "txtlen"
  BY <1>2, Zenon DEF Sized
<1>5. /\ Content(file)[p].value \in NumbersOf("n")
      /\ Content(file)[p + 4].value \in NumbersOf("txtlen")
  BY <1>4, ContentAssumption DEF Numbers
<1>6. Content(file)[p].value \in Nat /\ Content(file)[p + 4].value \in Nat
  BY <1>5 DEF NumbersOf
<1>7. /\ Damage \in Sound \/ ~Exceeds(file, p, MostEntries(file, n)) =>
           Content(file)[p].value = T.tables[n].n
      /\ Damage \in Sound \/ ~Exceeds(file, p + 4, MostText(file, n)) =>
           Content(file)[p + 4].value = T.tables[n].txtlen
  BY <1>2, Zenon DEF Sized, Damage
<1> HIDE DEF p
<1> QED
  BY <1>2, <1>3, <1>4, <1>6, <1>7 DEF p

\* What the sizes of a label table are checked against.
LEMMA TableChecked ==
  ASSUME file \in Files, IsLaidOut(file), NEW n \in 1 .. Len(T.tables),
         NEW entries, entries = Content(file)[EntriesAt(T, n)].value,
         NEW text, text = Content(file)[EntriesAt(T, n) + 4].value,
         NEW room, room = Size(file) - BodyAt(T, n), room \in Nat
  PROVE  /\ Damage = "none" => LabelTableFits(entries, text, room)
         /\ LabelTableFits(entries, text, room) =>
              /\ ~Exceeds(file, EntriesAt(T, n), MostEntries(file, n))
              /\ ~Exceeds(file, EntriesAt(T, n) + 4, MostText(file, n))
              /\ entries = T.tables[n].n /\ text = T.tables[n].txtlen
<1>1. /\ entries \in Nat /\ text \in Nat
      /\ Damage \in Sound \/ ~Exceeds(file, EntriesAt(T, n), MostEntries(file, n)) =>
           entries = T.tables[n].n
      /\ Damage \in Sound \/ ~Exceeds(file, EntriesAt(T, n) + 4, MostText(file, n)) =>
           text = T.tables[n].txtlen
  BY TableSizes
<1>2. /\ Exceeds(file, EntriesAt(T, n), MostEntries(file, n)) <=> entries > room \div 8
      /\ Exceeds(file, EntriesAt(T, n) + 4, MostText(file, n))
           <=> text > room - 8 * T.tables[n].n
  BY DEF Exceeds, MostEntries, MostText, T
<1>3. /\ T.tables[n].n \in Nat /\ T.tables[n].txtlen \in Nat /\ T.size \in Nat
      /\ BodyAt(T, n) \in Nat
      /\ TableEnd(T, n) = BodyAt(T, n) + 8 * T.tables[n].n + T.tables[n].txtlen
      /\ TableEnd(T, n) <= T.size
  <2>1. /\ T.tables[n].n \in Nat /\ T.tables[n].txtlen \in Nat
        /\ BodyAt(T, n) \in Nat /\ TableEnd(T, n) \in Nat
        /\ TableEnd(T, n) = BodyAt(T, n) + 8 * T.tables[n].n + T.tables[n].txtlen
        /\ TableEnd(T, n) <= T.tableAt[n + 1] /\ T.tableAt[n + 1] <= T.size
        /\ n + 1 \in 1 .. Len(T.tables) + 1
    BY TablePlaces
  <2>2. T.tableAt[n + 1] \in Nat /\ T.size \in Nat
    BY <2>1, TablePlaces, LaidOutSizes
  <2>3. TableEnd(T, n) <= T.size
    BY <2>1, <2>2
  <2> QED
    BY <2>1, <2>2, <2>3
<1>4. \A e, x, b, s, r \in Nat : r = s - b /\ b + 8 * e + x <= s =>
        e <= r \div 8 /\ x <= r - e * 8
  OBVIOUS
<1>5. \A e, x, r \in Nat : e <= r \div 8 /\ x <= r - e * 8 =>
        ~(e > r \div 8) /\ ~(x > r - 8 * e)
  OBVIOUS
<1>6. ASSUME Damage = "none" PROVE LabelTableFits(entries, text, room)
  <2>1. entries = T.tables[n].n /\ text = T.tables[n].txtlen
    BY <1>1, <1>6 DEF Sound
  <2>2. Size(file) = T.size
    BY <1>6, LaidOutSizes
  <2>3. entries <= room \div 8 /\ text <= room - entries * 8
    BY <1>1, <1>3, <1>4, <2>1, <2>2
  <2> QED
    BY <2>3 DEF LabelTableFits
<1>7. ASSUME LabelTableFits(entries, text, room)
      PROVE  /\ ~Exceeds(file, EntriesAt(T, n), MostEntries(file, n))
             /\ ~Exceeds(file, EntriesAt(T, n) + 4, MostText(file, n))
             /\ entries = T.tables[n].n /\ text = T.tables[n].txtlen
  <2>1. ~(entries > room \div 8) /\ ~(text > room - 8 * entries)
    BY <1>1, <1>5, <1>7 DEF LabelTableFits
  <2>2. ~Exceeds(file, EntriesAt(T, n), MostEntries(file, n))
    BY <1>2, <2>1, Zenon
  <2>3. entries = T.tables[n].n
    BY <1>1, <2>2, Zenon
  <2>4. ~Exceeds(file, EntriesAt(T, n) + 4, MostText(file, n))
    BY <1>2, <2>1, <2>3, Zenon
  <2> QED
    BY <1>1, <2>2, <2>3, <2>4, Zenon
<1> QED
  BY <1>6, <1>7, Zenon

\* Bytes without tags.
ExpectsBytes(n) == Expected = Layout("", n, "")

LEMMA BytesOnly ==
  ASSUME NEW n \in Nat, ExpectsBytes(n)
  PROVE  /\ Bytes(Expected) = n
         /\ Readable <=> pos + n <= Size(file)
<1>1. Expected.open = "" /\ Expected.close = ""
  BY DEF ExpectsBytes, Layout
<1>2. Expected.bytes = n
  BY DEF ExpectsBytes, Layout
<1>3. TagLen(Expected.open) = 0 /\ TagLen(Expected.close) = 0
  BY <1>1, TagLengths, Zenon
<1>4. Bytes(Expected) = n
  BY <1>2, <1>3 DEF Bytes
<1> QED
  BY <1>1, <1>4, Zenon DEF Readable, TagAt

\* The fields of a label table, seen from behind its marker.
LEMMA HeadOfTable ==
  ASSUME file \in Files, IsLaidOut(file), Mapped = IsModern(T), P = Params(T.version),
         pos \in Nat, NEW n \in 1 .. Len(T.tables), pos = T.tableAt[n] + MarkerWidth(T)
  PROVE  /\ LabelTableHead \in Nat
         /\ pos + LabelTableHead = EntriesAt(T, n)
         /\ pos + (LabelTableHead + 4) = EntriesAt(T, n) + 4
         /\ pos + (LabelTableHead + 8) = BodyAt(T, n)
         /\ pos + (LabelTableHead - P.labelName - 3) = NameAt(T, n)
<1> DEFINE head == LabelTableHead
           gap == IF IsModern(T) THEN 4 ELSE 0
<1>1. /\ P.labelName \in Nat /\ MarkerWidth(T) \in Nat /\ n \in 1 .. Len(T.tables) + 1
  BY TablePlaces, WidthsOfFormat DEF MarkerWidth
<1>2. /\ T.tableAt[n] \in Nat /\ BodyAt(T, n) = EntriesAt(T, n) + 8
      /\ EntriesAt(T, n) = NameAt(T, n) + P.labelName + 3
  BY <1>1, TablePlaces DEF EntriesAt
<1>3. NameAt(T, n) = pos + gap /\ head = gap + P.labelName + 3 /\ gap \in Nat
  BY DEF NameAt, LabelTableHead
<1> HIDE DEF gap, head
<1>4. head \in Nat
  BY <1>1, <1>3
<1>5. pos + head = EntriesAt(T, n)
  <2>1. \A q, g, w \in Nat : q + (g + w + 3) = (q + g) + w + 3
    OBVIOUS
  <2>2. EntriesAt(T, n) = (pos + gap) + P.labelName + 3
    BY <1>2, <1>3, Zenon
  <2>3. pos \in Nat /\ gap \in Nat /\ P.labelName \in Nat
    BY <1>1, <1>3
  <2> QED
    BY <1>3, <2>1, <2>2, <2>3, Zenon
<1>6. pos + (head - P.labelName - 3) = NameAt(T, n)
  <2>1. \A g, w \in Nat : (g + w + 3) - w - 3 = g
    OBVIOUS
  <2>2. head - P.labelName - 3 = gap
    BY <1>1, <1>3, <2>1, Zenon
  <2> QED
    BY <1>3, <2>2, Zenon
<1>7. pos + (head + 4) = EntriesAt(T, n) + 4 /\ pos + (head + 8) = BodyAt(T, n)
  <2>1. \A q, h \in Nat : q + (h + 4) = (q + h) + 4 /\ q + (h + 8) = (q + h) + 8
    OBVIOUS
  <2>2. pos \in Nat /\ head \in Nat
    BY <1>4
  <2>3. pos + (head + 4) = (pos + head) + 4 /\ pos + (head + 8) = (pos + head) + 8
    BY <2>1, <2>2, Zenon
  <2> QED
    BY <1>2, <1>5, <2>3, Zenon
<1> QED
  BY <1>4, <1>5, <1>6, <1>7 DEF head

\* A label table that was read is the next one of the file.
LEMMA ReadLabelTableFollows ==
  ASSUME OInv, ReadInv, IsLaidOut(file), ReadLabelTable
  PROVE  Follows
<1> DEFINE head == LabelTableHead
           room == Remaining - (head + 8)
<1>1. /\ pc = "table" /\ Readable
      /\ UNCHANGED <<file, wantLabels, reader, columns, strls>>
  BY DEF ReadLabelTable, At, Unchanged
<1>2. /\ file \in Files /\ pos \in Nat /\ Size(file) \in Nat
  BY LaidOutSizes DEF OInv, ScalarsInv
<1>3. Mapped = IsModern(T) /\ P = Params(T.version)
  BY <1>1, <1>2, FormatRead
<1>4. PICK n \in 1 .. Len(T.tables) : pos = T.tableAt[n] + MarkerWidth(T) /\ LabelsRead(n - 1)
  BY <1>1 DEF ReadInv, LabelsInv
<1>5. /\ NameAt(T, n) \in Nat /\ EntriesAt(T, n) \in Nat /\ BodyAt(T, n) \in Nat
      /\ BodyAt(T, n) = EntriesAt(T, n) + 8
      /\ TableEnd(T, n) = BodyAt(T, n) + 8 * T.tables[n].n + T.tables[n].txtlen
      /\ T.tables[n].n \in Nat /\ T.tables[n].txtlen \in Nat
  BY <1>2, TablePlaces
<1>6. /\ head \in Nat /\ pos + head = EntriesAt(T, n) /\ pos + (head + 4) = EntriesAt(T, n) + 4
      /\ pos + (head + 8) = BodyAt(T, n) /\ pos + (head - P.labelName - 3) = NameAt(T, n)
  BY <1>2, <1>3, <1>4, HeadOfTable
<1>7. /\ Field("n", head) = {Content(file)[EntriesAt(T, n)].value}
      /\ Field("txtlen", head + 4) = {Content(file)[EntriesAt(T, n) + 4].value}
  <2>1. /\ EntriesAt(T, n) \in DOMAIN Content(file)
        /\ Content(file)[EntriesAt(T, n)].kind = "n"
        /\ EntriesAt(T, n) + 4 \in DOMAIN Content(file)
        /\ Content(file)[EntriesAt(T, n) + 4].kind = "txtlen"
    BY <1>2, TableSizes
  <2> HIDE DEF head
  <2> QED
    BY <1>6, <2>1, FieldAt, Zenon
<1>8. /\ StringAt("labelName", head - P.labelName - 3) = T.tables[n].name
      /\ StringAt("labels", head + 8) = T.tables[n].body
  <2>1. /\ Is(file, NameAt(T, n), "labelName", T.tables[n].name)
        /\ Is(file, BodyAt(T, n), "labels", T.tables[n].body)
    BY <1>2, TableSizes
  <2> HIDE DEF head
  <2>2. /\ Is(file, pos + (head - P.labelName - 3), "labelName", T.tables[n].name)
        /\ Is(file, pos + (head + 8), "labels", T.tables[n].body)
    BY <1>6, <2>1, Zenon
  <2> QED
    BY <2>2, FieldThere, Zenon
<1> DEFINE entries == Content(file)[EntriesAt(T, n)].value
           text == Content(file)[EntriesAt(T, n) + 4].value
<1>9. /\ Goto("tableEnd", LabelTableFits(entries, text, room))
      /\ Advance(8 * entries + text)
      /\ LabelTableFits(entries, text, room) =>
           labels' = Append(labels, [name |-> StringAt("labelName", head - P.labelName - 3),
                                     n |-> entries, txtlen |-> text,
                                     body |-> StringAt("labels", head + 8)])
  BY <1>7 DEF ReadLabelTable
<1>10. Bytes(Expected) = head + 8 /\ pos + (head + 8) <= Size(file)
  <2>1. Expected = Layout("", head + 8, "")
    BY <1>1 DEF Expected
  <2> HIDE DEF head
  <2>2. head + 8 \in Nat
    BY <1>6
  <2> QED
    BY <1>1, <2>1, <2>2, BytesOnly DEF ExpectsBytes
<1> HIDE DEF head
<1>11. room = Size(file) - BodyAt(T, n) /\ room \in Nat
  <2>1. BodyAt(T, n) <= Size(file) /\ BodyAt(T, n) = pos + (head + 8)
    BY <1>6, <1>10
  <2>2. pos < Size(file)
    BY <1>2, <1>6, <2>1
  <2>3. Remaining = Size(file) - pos
    BY <2>2 DEF Remaining
  <2>4. \A q, h, b, z \in Nat : q + (h + 8) = b /\ b <= z =>
          (z - q) - (h + 8) = z - b /\ z - b \in Nat
    OBVIOUS
  <2>5. room = (Size(file) - pos) - (head + 8)
    BY <2>3
  <2>6. head \in Nat /\ pos \in Nat /\ BodyAt(T, n) \in Nat /\ Size(file) \in Nat
    BY <1>2, <1>5, <1>6
  <2> HIDE DEF room
  <2> QED
    BY <2>1, <2>4, <2>5, <2>6
<1>12. /\ entries \in Nat /\ text \in Nat
       /\ T.labels[n] = LabelsOf(T, n)
  BY <1>2, TableSizes
<1> HIDE DEF entries, text, room
<1>13. /\ Damage = "none" => LabelTableFits(entries, text, room)
       /\ LabelTableFits(entries, text, room) =>
            /\ ~Exceeds(file, EntriesAt(T, n), MostEntries(file, n))
            /\ ~Exceeds(file, EntriesAt(T, n) + 4, MostText(file, n))
            /\ entries = T.tables[n].n /\ text = T.tables[n].txtlen
  BY <1>2, <1>11, TableChecked DEF entries, text
<1>14. Damage = "none" => pc' # "error"
  BY <1>9, <1>13 DEF Goto
<1>15. ASSUME pc' # "error" PROVE ReadInv'
  <2>1. pc' = "tableEnd" /\ LabelTableFits(entries, text, room)
    BY <1>9, <1>15 DEF Goto
  <2>2. pos' = TableEnd(T, n)
    <3>1. pos' = pos + (head + 8) + (8 * entries + text)
      BY <1>9, <1>10 DEF Advance
    <3>2. pos' = BodyAt(T, n) + (8 * T.tables[n].n + T.tables[n].txtlen)
      BY <1>6, <1>13, <2>1, <3>1
    <3>3. \A b, e, x \in Nat : b + (8 * e + x) = b + 8 * e + x
      OBVIOUS
    <3> QED
      BY <1>5, <3>2, <3>3, Zenon
  <2>3. labels' = Append(labels, T.labels[n])
    BY <1>8, <1>9, <1>12, <1>13, <2>1 DEF LabelsOf
  <2>4. LabelsRead(n)'
    <3>1. n \in Nat /\ n > 0
      BY <1>2, TablePlaces
    <3>2. labels' = [i \in 1 .. n |-> T.labels[i]]
      <4>1. labels = [i \in 1 .. n - 1 |-> T.labels[i]]
        BY <1>4 DEF LabelsRead
      <4>2. \A t : Append([i \in 1 .. n - 1 |-> t[i]], t[n]) = [i \in 1 .. n |-> t[i]]
        BY <3>1
      <4> QED
        BY <2>3, <4>1, <4>2
    <3>3. ASSUME NEW i \in 1 .. n
          PROVE  /\ ~Exceeds(file, EntriesAt(T, i), MostEntries(file, i))
                 /\ ~Exceeds(file, EntriesAt(T, i) + 4, MostText(file, i))
      <4>1. CASE i = n
        BY <1>13, <2>1, <4>1
      <4>2. CASE i # n
        <5>1. i \in 1 .. n - 1
          BY <3>1, <4>2
        <5> QED
          BY <1>4, <5>1 DEF LabelsRead
      <4> QED
        BY <4>1, <4>2
    <3>4. T' = T /\ file' = file
      BY <1>1, SameFile
    <3> QED
      BY <3>2, <3>3, <3>4 DEF LabelsRead, MostEntries, MostText, Exceeds, T
  <2> QED
    BY <1>1, <2>1, <2>2, <2>4, LabelsStep
<1> QED
  BY <1>14, <1>15 DEF Follows

\* The end of a label table, with its tag if it has one.
LEMMA TableEndSection ==
  ASSUME ReadInv, IsLaidOut(file), file \in Files, pc = "tableEnd",
         NEW n \in 1 .. Len(T.tables), pos = TableEnd(T, n)
  PROVE  SectionExpected(T.tableAt[n + 1])
<1>1. Mapped = IsModern(T)
  BY FormatRead
<1>2. /\ IsModern(T) => Is(file, TableEnd(T, n), "tag", "</lbl>")
      /\ T.tableAt[n + 1] = TableEnd(T, n) + TagLen(Tagged(T, "</lbl>"))
      /\ T.tableAt[n + 1] <= T.size
  <2>1. n \in 1 .. (Len(T.tables) + 1) - 1
    BY TablePlaces
  <2> QED
    BY <2>1, LaidOutParts DEF LabelTables, T
<1>3. Expected = Layout("", 0, Tagged(T, "</lbl>"))
  BY <1>1 DEF Expected, Tagged
<1>4. Expected.open = "" /\ Expected.bytes = 0 /\ Expected.close = Tagged(T, "</lbl>")
  BY <1>3 DEF Layout
<1>5. TagLen(Expected.open) = 0 /\ pos \in Nat
  BY <1>4, TagLengths, TablePlaces, Zenon
<1>6. pos + TagLen(Expected.open) + Expected.bytes = pos
  <2>1. Expected.bytes = 0
    BY <1>4
  <2> QED
    BY <1>5, <2>1
<1>7. Tagged(T, "</lbl>") # "" => Is(file, pos, "tag", Tagged(T, "</lbl>"))
  BY <1>2 DEF Tagged
<1>8. T.tableAt[n + 1] = pos + TagLen(Tagged(T, "</lbl>"))
  BY <1>2
<1> QED
  BY <1>2, <1>4, <1>6, <1>7, <1>8, Zenon DEF SectionExpected, Section, T

LEMMA EndLabelTableFollows ==
  ASSUME OInv, ReadInv, IsLaidOut(file), EndLabelTable
  PROVE  Follows
<1>1. /\ pc = "tableEnd" /\ pc' = "nextTable" /\ Advance(0)
      /\ UNCHANGED <<file, wantLabels, reader, columns, strls, labels>>
  BY DEF EndLabelTable, Skip, At, Unchanged
<1>2. file \in Files /\ pc \in ReadPoints
  BY <1>1, LatePointsOf DEF OInv, ScalarsInv
<1>3. PICK n \in 1 .. Len(T.tables) : pos = TableEnd(T, n) /\ LabelsRead(n)
  BY <1>1 DEF ReadInv, LabelsInv
<1>4. pos' = T.tableAt[n + 1]
  BY <1>1, <1>2, <1>3, TableEndSection, SectionRead
<1>5. n + 1 \in 1 .. Len(T.tables) + 1 /\ LabelsRead((n + 1) - 1)'
  <2>1. Len(T.tables) \in Nat
    BY <1>2, TablePlaces
  <2>2. (n + 1) - 1 = n
    OBVIOUS
  <2>3. LabelsRead(n)'
    BY <1>1, <1>3, SameLabels
  <2> QED
    BY <2>1, <2>2, <2>3
<1> QED
  BY <1>1, <1>4, <1>5, LabelsStep DEF Follows

-----------------------------------------------------------------------------
(***************************************************************************)
(* The strLs, and the columns of the bind.                                 *)
(***************************************************************************)

\* Where the parts of a strL are.
LEMMA TextPlaces ==
  ASSUME file \in Files, IsLaidOut(file), IsModern(T)
  PROVE  /\ Len(T.texts) \in Nat
         /\ \A n \in 1 .. Len(T.texts) + 1 :
              T.textAt[n] \in Nat /\ T.textAt[n] + 3 <= T.size
         /\ \A n \in 1 .. Len(T.texts) :
              /\ T.texts[n].len \in Nat /\ StrLHeadOf(T) \in Nat
              /\ LengthAt(T, n) + 4 = T.textAt[n] + 3 + StrLHeadOf(T)
              /\ LengthAt(T, n) \in Nat
              /\ T.textAt[n + 1] = LengthAt(T, n) + 4 + T.texts[n].len
              /\ LengthAt(T, n) + 4 + T.texts[n].len <= T.size
<1> DEFINE last == Len(T.texts) + 1
<1>1. /\ Len(T.texts) \in Nat /\ T.textAt \in [1 .. last -> Nat] /\ T.size \in Nat
      /\ \A i \in 1 .. Len(T.texts) : T.texts[i].len \in Nat
  <2>1. /\ IsListing(T["texts"]) /\ T.textAt \in [1 .. last -> Nat] /\ T.size \in Nat
        /\ \A i \in DOMAIN T.texts : T.texts[i].len \in Nat
    BY LaidOutParts DEF TableTypes
  <2> QED
    BY <2>1 DEF IsListing
<1>2. StrLs(file)
  BY LaidOutParts
<1>3. /\ \A n \in 1 .. last - 1 :
           /\ T.textAt[n + 1] = LengthAt(T, n) + 4 + T.texts[n].len
           /\ T.textAt[n + 1] <= T.size
      /\ T.textAt[last] + 3 <= T.size
  BY <1>2, Zenon DEF StrLs, T
<1>4. StrLHeadOf(T) \in Nat /\ StrLHeadOf(T) >= 4
  BY DEF StrLHeadOf
<1>5. ASSUME NEW n \in 1 .. Len(T.texts)
      PROVE  /\ T.texts[n].len \in Nat /\ T.textAt[n] \in Nat
             /\ LengthAt(T, n) + 4 = T.textAt[n] + 3 + StrLHeadOf(T)
             /\ LengthAt(T, n) \in Nat
             /\ T.textAt[n + 1] = LengthAt(T, n) + 4 + T.texts[n].len
             /\ LengthAt(T, n) + 4 + T.texts[n].len <= T.size
             /\ T.textAt[n] + 3 <= T.size
  <2>1. n \in 1 .. last /\ n \in 1 .. last - 1
    BY <1>1
  <2>2. T.textAt[n] \in Nat /\ T.texts[n].len \in Nat
    BY <1>1, <2>1
  <2>3. LengthAt(T, n) = T.textAt[n] + 3 + StrLHeadOf(T) - 4
    BY DEF LengthAt
  <2>4. /\ T.textAt[n + 1] = LengthAt(T, n) + 4 + T.texts[n].len
        /\ T.textAt[n + 1] <= T.size
    BY <1>3, <2>1
  <2>5. LengthAt(T, n) + 4 = T.textAt[n] + 3 + StrLHeadOf(T) /\ LengthAt(T, n) \in Nat
    BY <1>4, <2>2, <2>3
  <2>6. LengthAt(T, n) + 4 + T.texts[n].len <= T.size
    BY <2>4, Zenon
  <2>7. T.textAt[n] + 3 <= T.size
    <3>1. \A t, h, l, x, z \in Nat : l + 4 = t + 3 + h /\ l + 4 + x <= z => t + 3 <= z
      OBVIOUS
    <3> QED
      BY <1>1, <1>4, <2>2, <2>5, <2>6, <3>1, Zenon
  <2> QED
    BY <2>2, <2>4, <2>5, <2>6, <2>7
<1>6. ASSUME NEW n \in 1 .. last PROVE T.textAt[n] \in Nat /\ T.textAt[n] + 3 <= T.size
  <2>1. n = last \/ n \in 1 .. Len(T.texts)
    BY <1>1
  <2>2. T.textAt[n] \in Nat
    BY <1>1
  <2> QED
    BY <1>3, <1>5, <2>1, <2>2
<1> QED
  BY <1>1, <1>4, <1>5, <1>6

\* The steps within the loop over strLs.
LEMMA StrLsStep ==
  ASSUME ReadInv, pc \in {"seekStrLs", "strls", "nextStrL", "strl"},
         pc' \in {"strls", "nextStrL", "strl", "columns"},
         UNCHANGED <<file, wantLabels, reader, columns, labels>>,
         pc' = "strls" => pos' = T.at.strls /\ StrLsRead(0)',
         pc' = "nextStrL" => \E n \in 1 .. Len(T.texts) + 1 :
           pos' = T.textAt[n] /\ StrLsRead(n - 1)',
         pc' = "strl" => \E n \in 1 .. Len(T.texts) :
           pos' = T.textAt[n] + 3 /\ StrLsRead(n - 1)',
         pc' = "columns" => \E n \in 0 .. Len(T.texts) :
           StrLsRead(n)' /\ (Damage # "cut" => n = Len(T.texts))
  PROVE  ReadInv'
<1>1. T' = T /\ Damage' = Damage /\ IsModern(T) /\ HasStrLColumn(T)
  BY SameFile DEF ReadInv, FormatInv, StrLsInv, ModernPoints
<1>2. pc \in LatePoints /\ pc' \in LatePoints
  BY DEF LatePoints
<1>3. PlaceInv'
  <2>1. pc' \in SectionPoints => pc' = "strls"
    BY DEF SectionPoints
  <2>2. pc' # "labelText" /\ pc' # "headerEnd"
    OBVIOUS
  <2> QED
    BY <1>1, <2>1, <2>2 DEF PlaceInv
<1>4. LabelsInv'
  <2>1. /\ ~wantLabels => LabelsRead(0)
        /\ wantLabels => \E n \in 0 .. Len(T.tables) :
             LabelsRead(n) /\ (Damage # "cut" => n = Len(T.tables))
    BY Zenon DEF ReadInv, LabelsInv
  <2>2. ~wantLabels' => LabelsRead(0)'
    BY <2>1, SameLabels
  <2>3. wantLabels' => \E n \in 0 .. Len(T'.tables) :
          LabelsRead(n)' /\ (Damage' # "cut" => n = Len(T'.tables))
    <3>1. \A n : LabelsRead(n)' <=> LabelsRead(n)
      BY SameLabels
    <3> QED
      BY <1>1, <2>1, <3>1
  <2>4. /\ pc' \notin EarlyPoints \cup {"width", "bind", "labels", "nextTable"}
        /\ pc' \notin {"labels", "nextTable", "table", "tableEnd"}
    BY DEF EarlyPoints, HeaderPoints
  <2> QED
    BY <2>2, <2>3, <2>4, Zenon DEF LabelsInv
<1>5. StrLsInv'
  <2>1. HasStrLColumn(T') /\ pc' # "bound"
    BY <1>1
  <2>2. pc' \notin {"nextStrL", "strl", "columns", "bound"} => StrLsRead(0)'
    OBVIOUS
  <2>3. pc' = "nextStrL" => \E n \in 1 .. Len(T'.texts) + 1 :
          pos' = T'.textAt[n] /\ StrLsRead(n - 1)'
    BY <1>1
  <2>4. pc' = "strl" => \E n \in 1 .. Len(T'.texts) :
          pos' = T'.textAt[n] + 3 /\ StrLsRead(n - 1)'
    BY <1>1
  <2>5. pc' = "columns" => \E n \in 0 .. Len(T'.texts) :
          StrLsRead(n)' /\ (Damage' # "cut" => n = Len(T'.texts))
    BY <1>1
  <2> QED
    BY <2>1, <2>2, <2>3, <2>4, <2>5, Zenon DEF StrLsInv
<1> QED
  BY <1>1, <1>2, <1>3, <1>4, <1>5, LateFrame

LEMMA SeekStrLsFollows ==
  ASSUME OInv, ReadInv, SeekStrLs
  PROVE  Follows
<1>1. /\ pc = "seekStrLs" /\ pc' = "strls" /\ pos' = reader.strlsOffset
      /\ UNCHANGED <<file, wantLabels, reader, columns, strls, labels>>
  BY DEF SeekStrLs, Unchanged
<1>2. reader.strlsOffset = T.at.strls
  BY <1>1 DEF ReadInv, FormatInv, ModernPoints, RowsInv, LatePoints
<1>3. StrLsRead(0)'
  BY <1>1, SameStrLs DEF ReadInv, StrLsInv
<1> QED
  BY <1>1, <1>2, <1>3, StrLsStep DEF Follows

LEMMA StrLsSection ==
  ASSUME ReadInv, IsLaidOut(file), file \in Files, pc = "strls"
  PROVE  SectionExpected(T.textAt[1])
<1>1. pos = T.at.strls /\ IsModern(T)
  BY DEF ReadInv, FormatInv, PlaceInv, ModernPoints, SectionPoints
<1>2. /\ Is(file, T.at.strls, "tag", "<strls>")
      /\ T.textAt[1] = T.at.strls + TagLen("<strls>")
  BY <1>1, LaidOutParts DEF StrLs, T
<1>3. T.textAt[1] <= T.size
  <2>1. 1 \in 1 .. Len(T.texts) + 1 /\ T.size \in Nat
    BY <1>1, TextPlaces, LaidOutSizes
  <2>2. T.textAt[1] \in Nat /\ T.textAt[1] + 3 <= T.size
    BY <1>1, <2>1, TextPlaces
  <2> QED
    BY <2>1, <2>2
<1>4. Expected = Layout("<strls>", 0, "")
  BY DEF Expected
<1>5. Expected.open = "<strls>" /\ Expected.bytes = 0 /\ Expected.close = ""
  BY <1>4 DEF Layout
<1>6. T.at.strls \in Nat /\ TagLen("<strls>") \in Nat /\ TagLen("") = 0
  BY LaidOutSizes, TagsListed, TagLengths DEF Sections
<1>7. T.textAt[1] = pos + TagLen("<strls>") + 0 + TagLen("")
  <2>1. \A p, l \in Nat : p + l = p + l + 0 + 0
    OBVIOUS
  <2>2. T.textAt[1] = pos + TagLen("<strls>")
    BY <1>1, <1>2, Zenon
  <2>3. pos \in Nat
    BY <1>1, <1>6, Zenon
  <2> QED
    BY <1>6, <2>1, <2>2, <2>3, Zenon
<1> QED
  BY <1>1, <1>2, <1>3, <1>5, <1>7, Zenon DEF SectionExpected, Section, T

LEMMA LoadStrLsFollows ==
  ASSUME OInv, ReadInv, IsLaidOut(file), LoadStrLs
  PROVE  Follows
<1>1. /\ pc = "strls" /\ pc' = "nextStrL" /\ Advance(0)
      /\ UNCHANGED <<file, wantLabels, reader, columns, strls, labels>>
  BY DEF LoadStrLs, Skip, At, Unchanged
<1>2. file \in Files /\ pc \in ReadPoints /\ IsModern(T)
  BY <1>1, LatePointsOf DEF OInv, ScalarsInv, ReadInv, FormatInv, ModernPoints
<1>3. pos' = T.textAt[1]
  BY <1>1, <1>2, StrLsSection, SectionRead
<1>4. 1 \in 1 .. Len(T.texts) + 1 /\ StrLsRead(1 - 1)'
  <2>1. StrLsRead(0)'
    BY <1>1, SameStrLs DEF ReadInv, StrLsInv
  <2> QED
    BY <1>2, <2>1, TextPlaces
<1> QED
  BY <1>1, <1>3, <1>4, StrLsStep DEF Follows

LEMMA NextStrLFollows ==
  ASSUME OInv, ReadInv, IsLaidOut(file), NextStrL
  PROVE  Follows
<1>1. /\ pc = "nextStrL" /\ NextItem("nextStrL", 3, "GSO", "strl", "</strls>", "columns")
      /\ UNCHANGED <<file, wantLabels, reader, columns, strls, labels>>
  BY DEF NextStrL, NextItem, Unchanged
<1>2. /\ file \in Files /\ pos \in Nat /\ Size(file) \in Nat /\ T.size \in Nat
      /\ Size(file) <= T.size
      /\ Damage # "cut" => Size(file) = T.size
  BY LaidOutSizes DEF OInv, ScalarsInv
<1>3. IsModern(T)
  BY <1>1 DEF ReadInv, FormatInv, ModernPoints
<1>4. PICK n \in 1 .. Len(T.texts) + 1 : pos = T.textAt[n] /\ StrLsRead(n - 1)
  BY <1>1 DEF ReadInv, StrLsInv
<1>5. Len(T.texts) \in Nat /\ pos + 3 <= T.size /\ StrLsRead(n - 1)'
  BY <1>1, <1>2, <1>3, <1>4, TextPlaces, SameStrLs
<1>6. ASSUME pc' = "columns", Damage # "cut" => n = Len(T.texts) + 1
      PROVE  Follows
  <2>1. n - 1 \in 0 .. Len(T.texts) /\ (Damage # "cut" => n - 1 = Len(T.texts))
    BY <1>5, <1>6
  <2>2. \E m \in 0 .. Len(T.texts) :
          StrLsRead(m)' /\ (Damage # "cut" => m = Len(T.texts))
    BY <1>5, <2>1
  <2> QED
    BY <1>1, <1>6, <2>2, StrLsStep DEF Follows
<1>7. StrLs(file)
  BY <1>3, LaidOutParts
<1>8. CASE n # Len(T.texts) + 1
  <2>1. n \in 1 .. Len(T.texts) /\ n \in 1 .. (Len(T.texts) + 1) - 1
    BY <1>5, <1>8
  <2>2. Is(file, pos, "tag", "GSO")
    BY <1>4, <1>7, <2>1 DEF StrLs, T
  <2>3. pos + 3 <= Size(file) => TagAt(pos, "GSO")
    <3>1. TagLen("GSO") = 3
      BY TagLengths
    <3>2. pos + TagLen("GSO") <= Size(file) => TagAt(pos, "GSO")
      BY <2>2, TagIs, Zenon
    <3> QED
      BY <3>1, <3>2, Zenon
  <2>4. 3 \in Nat /\ 3 > 0
    OBVIOUS
  <2>5. \/ pc' = "strl" /\ pos' = pos + 3
        \/ pc' = "columns" /\ ~(pos + 3 <= Size(file))
    BY <1>1, <1>2, <2>3, <2>4, ItemThere, Zenon
  <2>6. CASE pc' = "strl" /\ pos' = pos + 3
    <3>1. \E m \in 1 .. Len(T.texts) : pos' = T.textAt[m] + 3 /\ StrLsRead(m - 1)'
      BY <1>4, <1>5, <2>1, <2>6
    <3> QED
      BY <1>1, <2>6, <3>1, StrLsStep DEF Follows
  <2>7. CASE pc' = "columns" /\ ~(pos + 3 <= Size(file))
    <3>1. Damage = "cut"
      BY <1>2, <1>5, <2>7, Zenon
    <3> QED
      BY <1>6, <2>7, <3>1
  <2> QED
    BY <2>5, <2>6, <2>7
<1>9. CASE n = Len(T.texts) + 1
  <2>1. /\ Is(file, pos, "tag", "</strls>")
        /\ pos + TagLen("</strls>") <= T.size
    BY <1>4, <1>7, <1>9 DEF StrLs, T
  <2>2. "GSO" \notin {"", "</strls>"} /\ 3 \in Nat
    OBVIOUS
  <2>3. ~TagAt(pos, "GSO")
    BY <2>1, <2>2, TagIs, Zenon
  <2>4. pc' = "columns" \/ (pc' = "error" /\ ~TagAt(pos, "</strls>"))
    BY <1>1, <2>2, <2>3, EndThere, Zenon
  <2>5. CASE pc' = "columns"
    BY <1>6, <1>9, <2>5
  <2>6. CASE pc' = "error" /\ ~TagAt(pos, "</strls>")
    <3>1. ~(pos + TagLen("</strls>") <= Size(file))
      BY <2>1, <2>6, TagIs, Zenon
    <3>2. Damage = "cut"
      BY <1>2, <2>1, <3>1, Zenon
    <3> QED
      BY <2>6, <3>2 DEF Follows
  <2> QED
    BY <2>4, <2>5, <2>6
<1> QED
  BY <1>8, <1>9

\* What a strL of the file holds, as far as its length is right.
LEMMA TextThere ==
  ASSUME file \in Files, IsLaidOut(file), IsModern(T), NEW n \in 1 .. Len(T.texts),
         NEW len, len = Content(file)[LengthAt(T, n)].value,
         NEW room, room = Size(file) - (LengthAt(T, n) + 4), room \in Nat
  PROVE  /\ LengthAt(T, n) \in DOMAIN Content(file)
         /\ Content(file)[LengthAt(T, n)].kind = "strlLength"
         /\ Is(file, T.textAt[n] + 3, "ref", T.texts[n].ref)
         /\ Is(file, LengthAt(T, n) + 4, "strl", T.texts[n].text)
         /\ Damage = "none" => StrLFits(len, room)
         /\ StrLFits(len, room) =>
              len = T.texts[n].len /\ ~Exceeds(file, LengthAt(T, n), MostLength(file, n))
<1>1. n \in 1 .. (Len(T.texts) + 1) - 1
  BY TextPlaces
<1>2. /\ Is(file, T.textAt[n] + 3, "ref", T.texts[n].ref)
      /\ Sized(file, LengthAt(T, n), "strlLength", T.texts[n].len, MostLength(file, n))
      /\ Is(file, LengthAt(T, n) + 4, "strl", T.texts[n].text)
  BY <1>1, LaidOutParts DEF StrLs, T
<1>3. /\ LengthAt(T, n) \in DOMAIN Content(file)
      /\ Content(file)[LengthAt(T, n)].kind = "strlLength"
      /\ Damage \in Sound \/ ~Exceeds(file, LengthAt(T, n), MostLength(file, n)) =>
           len = T.texts[n].len
  BY <1>2, Zenon DEF Sized, Damage
<1>4. len \in Nat
  <2>1. len \in NumbersOf("strlLength")
    BY <1>3, ContentAssumption DEF Numbers
  <2> QED
    BY <2>1 DEF NumbersOf
<1>5. Exceeds(file, LengthAt(T, n), MostLength(file, n)) <=> len > room
  BY DEF Exceeds, MostLength, T
<1>6. StrLFits(len, room) <=> ~(len > room)
  BY <1>4 DEF StrLFits
<1>7. ASSUME Damage = "none" PROVE StrLFits(len, room)
  <2>1. len = T.texts[n].len /\ Size(file) = T.size
    BY <1>3, <1>7, LaidOutSizes DEF Sound
  <2>2. /\ LengthAt(T, n) + 4 + T.texts[n].len <= T.size /\ LengthAt(T, n) \in Nat
        /\ T.size \in Nat
    BY TextPlaces, LaidOutSizes
  <2>3. \A l, x, z \in Nat : l + 4 + x <= z => x <= z - (l + 4)
    OBVIOUS
  <2>4. len <= room
    BY <1>4, <2>1, <2>2, <2>3
  <2> QED
    BY <2>4 DEF StrLFits
<1> QED
  BY <1>2, <1>3, <1>5, <1>6, <1>7, Zenon

\* A strL that was read is the next one of the file.
LEMMA ReadStrLFollows ==
  ASSUME OInv, ReadInv, IsLaidOut(file), ReadStrL
  PROVE  Follows
<1> DEFINE head == StrLHead
           room == Remaining - head
<1>1. /\ pc = "strl" /\ Readable
      /\ UNCHANGED <<file, wantLabels, reader, columns, labels>>
  BY DEF ReadStrL, At, Unchanged
<1>2. /\ file \in Files /\ pos \in Nat /\ Size(file) \in Nat
  BY LaidOutSizes DEF OInv, ScalarsInv
<1>3. IsModern(T)
  BY <1>1 DEF ReadInv, FormatInv, ModernPoints
<1>4. PICK n \in 1 .. Len(T.texts) : pos = T.textAt[n] + 3 /\ StrLsRead(n - 1)
  BY <1>1 DEF ReadInv, StrLsInv
<1>5. /\ T.texts[n].len \in Nat /\ LengthAt(T, n) \in Nat
      /\ LengthAt(T, n) + 4 = T.textAt[n] + 3 + StrLHeadOf(T)
      /\ T.textAt[n + 1] = LengthAt(T, n) + 4 + T.texts[n].len
  BY <1>2, <1>3, TextPlaces
<1>6. head = StrLHeadOf(T) /\ head \in Nat
  BY <1>1, <1>2, FormatRead DEF StrLHead, StrLHeadOf
<1> HIDE DEF head
<1>7. /\ pos + head = LengthAt(T, n) + 4 /\ pos + (head - 4) = LengthAt(T, n)
      /\ pos + 0 = T.textAt[n] + 3
  <2>1. pos + head = LengthAt(T, n) + 4
    BY <1>4, <1>5, <1>6
  <2>2. \A p, h, l \in Nat : p + h = l + 4 => p + (h - 4) = l
    OBVIOUS
  <2>3. pos + (head - 4) = LengthAt(T, n)
    <3>1. pos \in Nat /\ head \in Nat /\ LengthAt(T, n) \in Nat
      BY <1>2, <1>5, <1>6
    <3> QED
      BY <2>1, <2>2, <3>1, Zenon
  <2>4. pos + 0 = pos
    BY <1>2
  <2> QED
    BY <1>4, <2>1, <2>3, <2>4, Zenon
<1>8. Bytes(Expected) = head /\ pos + head <= Size(file)
  <2>1. ExpectsBytes(head)
    BY <1>1 DEF ExpectsBytes, Expected, head
  <2> QED
    BY <1>1, <1>6, <2>1, BytesOnly
<1>9. room = Size(file) - (LengthAt(T, n) + 4) /\ room \in Nat
  <2>1. Remaining = Size(file) - pos
    BY <1>2, <1>6, <1>8 DEF Remaining
  <2>2. \A p, h, z \in Nat : p + h <= z => (z - p) - h = z - (p + h) /\ z - (p + h) \in Nat
    OBVIOUS
  <2>3. room = (Size(file) - pos) - head
    BY <2>1, Zenon
  <2>4. pos \in Nat /\ head \in Nat /\ Size(file) \in Nat
    BY <1>2, <1>6
  <2>5. pos + head = LengthAt(T, n) + 4 /\ pos + head <= Size(file)
    BY <1>7, <1>8
  <2>6. (Size(file) - pos) - head = Size(file) - (pos + head)
        /\ Size(file) - (pos + head) \in Nat
    BY <2>2, <2>4, <2>5, Zenon
  <2> HIDE DEF room
  <2> QED
    BY <2>3, <2>5, <2>6, Zenon
<1> HIDE DEF room
<1> DEFINE len == Content(file)[LengthAt(T, n)].value
<1>10. /\ LengthAt(T, n) \in DOMAIN Content(file)
       /\ Content(file)[LengthAt(T, n)].kind = "strlLength"
       /\ Is(file, T.textAt[n] + 3, "ref", T.texts[n].ref)
       /\ Is(file, LengthAt(T, n) + 4, "strl", T.texts[n].text)
       /\ Damage = "none" => StrLFits(len, room)
       /\ StrLFits(len, room) =>
            len = T.texts[n].len /\ ~Exceeds(file, LengthAt(T, n), MostLength(file, n))
  BY <1>2, <1>3, <1>9, TextThere
<1>11. Field("strlLength", head - 4) = {len}
  BY <1>7, <1>10, FieldAt, Zenon
<1>12. StringAt("ref", 0) = T.texts[n].ref /\ StringAt("strl", head) = T.texts[n].text
  <2>1. /\ Is(file, pos + 0, "ref", T.texts[n].ref)
        /\ Is(file, pos + head, "strl", T.texts[n].text)
    BY <1>7, <1>10, Zenon
  <2> QED
    BY <2>1, FieldThere, Zenon
<1> HIDE DEF len
<1>13. /\ Goto("nextStrL", StrLFits(len, room))
       /\ Advance(len)
       /\ StrLFits(len, room) =>
            strls' = [r \in DOMAIN strls \cup {T.texts[n].ref} |->
                        IF r = T.texts[n].ref THEN T.texts[n].text ELSE strls[r]]
  <2>1. \E l \in Field("strlLength", head - 4) :
          LET fits == StrLFits(l, room)
              ref == StringAt("ref", 0)
          IN
            /\ Goto("nextStrL", fits)
            /\ Advance(l)
            /\ strls' = IF fits THEN [r \in DOMAIN strls \cup {ref} |->
                                      IF r = ref THEN StringAt("strl", head)
                                      ELSE strls[r]]
                        ELSE strls
    BY DEF ReadStrL, head, room
  <2>2. /\ Goto("nextStrL", StrLFits(len, room))
        /\ Advance(len)
        /\ strls' = IF StrLFits(len, room)
                    THEN [r \in DOMAIN strls \cup {StringAt("ref", 0)} |->
                            IF r = StringAt("ref", 0) THEN StringAt("strl", head)
                            ELSE strls[r]]
                    ELSE strls
    BY <1>11, <2>1
  <2> QED
    BY <1>12, <2>2
<1>14. Damage = "none" => pc' # "error"
  BY <1>10, <1>13 DEF Goto
<1>15. ASSUME pc' # "error" PROVE ReadInv'
  <2>1. pc' = "nextStrL" /\ StrLFits(len, room)
    BY <1>13, <1>15 DEF Goto
  <2>2. pos' = T.textAt[n + 1]
    <3>1. pos' = pos + head + T.texts[n].len
      BY <1>8, <1>10, <1>13, <2>1 DEF Advance
    <3> QED
      BY <1>5, <1>7, <3>1
  <2>3. Len(T.texts) \in Nat /\ n \in Nat /\ n > 0
    BY <1>2, <1>3, TextPlaces
  <2>4. StrLsRead(n)'
    <3>1. /\ DOMAIN strls = {T.texts[i].ref : i \in 1 .. n - 1}
          /\ \A i \in 1 .. n - 1 :
               /\ strls[T.texts[i].ref] = T.texts[i].text
               /\ ~Exceeds(file, LengthAt(T, i), MostLength(file, i))
      BY <1>4, Zenon DEF StrLsRead
    <3>2. strls' = [r \in DOMAIN strls \cup {T.texts[n].ref} |->
                      IF r = T.texts[n].ref THEN T.texts[n].text ELSE strls[r]]
      BY <1>13, <2>1
    <3>3. strls' = [ref \in DOMAIN strls' |-> strls'[ref]]
      BY <3>2
    <3>4. \A i \in 1 .. n : i \in 1 .. n - 1 \/ i = n
      BY <2>3
    <3>5. 1 .. n - 1 \subseteq 1 .. n /\ n \in 1 .. n
      BY <2>3
    <3>6. DOMAIN strls' = {T.texts[i].ref : i \in 1 .. n}
      <4>1. DOMAIN strls' = DOMAIN strls \cup {T.texts[n].ref}
        BY <3>2
      <4> QED
        BY <3>1, <3>4, <3>5, <4>1
    <3>7. ASSUME NEW i \in 1 .. n
          PROVE  /\ strls'[T.texts[i].ref] = T.texts[i].text
                 /\ ~Exceeds(file, LengthAt(T, i), MostLength(file, i))
      <4>1. CASE i = n
        BY <1>10, <2>1, <3>2, <4>1
      <4>2. CASE i # n
        <5>1. i \in 1 .. n - 1
          BY <3>4, <4>2
        <5>2. T.texts[i].ref # T.texts[n].ref
          <6>1. i \in 1 .. (Len(T.texts) + 1) - 1 /\ n \in 1 .. (Len(T.texts) + 1) - 1
            BY <2>3, <5>1
          <6>2. StrLs(file)
            BY <1>3, LaidOutParts
          <6>3. \A k, m \in 1 .. (Len(T.texts) + 1) - 1 :
                  T.texts[k].ref = T.texts[m].ref => k = m
            BY <6>2, Zenon DEF StrLs, T
          <6> QED
            BY <4>2, <6>1, <6>3
        <5>3. T.texts[i].ref \in DOMAIN strls
          BY <3>1, <5>1
        <5>4. strls'[T.texts[i].ref] = strls[T.texts[i].ref]
          BY <3>2, <5>2, <5>3
        <5> QED
          BY <3>1, <5>1, <5>4
      <4> QED
        BY <4>1, <4>2
    <3>8. T' = T /\ file' = file
      BY <1>1, SameFile
    <3> QED
      BY <3>3, <3>6, <3>7, <3>8 DEF StrLsRead, Exceeds, MostLength, T
  <2>5. n + 1 \in 1 .. Len(T.texts) + 1 /\ StrLsRead((n + 1) - 1)'
    <3>1. (n + 1) - 1 = n
      BY <2>3
    <3> QED
      BY <2>3, <2>4, <3>1
  <2> QED
    BY <1>1, <2>1, <2>2, <2>5, StrLsStep
<1> QED
  BY <1>14, <1>15 DEF Follows

-----------------------------------------------------------------------------
(***************************************************************************)
(* The last steps, and those that throw.                                   *)
(***************************************************************************)
LEMMA LastFollows ==
  ASSUME OInv, ReadInv, MapColumn \/ BindReturns
  PROVE  Follows
<1>1. /\ pc = "columns" /\ pc' \in {"columns", "bound"}
      /\ UNCHANGED <<file, wantLabels, reader, columns, strls, labels>>
  BY DEF MapColumn, BindReturns, Unchanged
<1>2. /\ T' = T /\ Damage' = Damage
      /\ \A n : LabelsRead(n)' <=> LabelsRead(n)
      /\ \A n : StrLsRead(n)' <=> StrLsRead(n)
  BY <1>1, SameFile, SameLabels, SameStrLs
<1>3. pc \in LatePoints /\ pc' \in LatePoints /\ pc' \notin ModernPoints \cup SectionPoints
  BY <1>1 DEF LatePoints, ModernPoints, SectionPoints
<1>4. PlaceInv'
  BY <1>3 DEF PlaceInv, SectionPoints
<1>5. LabelsInv'
  <2>1. /\ ~wantLabels => LabelsRead(0)
        /\ wantLabels => \E n \in 0 .. Len(T.tables) :
             LabelsRead(n) /\ (Damage # "cut" => n = Len(T.tables))
    BY <1>1, Zenon DEF ReadInv, LabelsInv
  <2>2. ~wantLabels' => LabelsRead(0)'
    BY <1>1, <1>2, <2>1
  <2>3. wantLabels' => \E n \in 0 .. Len(T'.tables) :
          LabelsRead(n)' /\ (Damage' # "cut" => n = Len(T'.tables))
    BY <1>1, <1>2, <2>1
  <2>4. /\ pc' \notin EarlyPoints \cup {"width", "bind", "labels", "nextTable"}
        /\ pc' \notin {"labels", "nextTable", "table", "tableEnd"}
    BY <1>1 DEF EarlyPoints, HeaderPoints
  <2> QED
    BY <2>2, <2>3, <2>4, Zenon DEF LabelsInv
<1>6. StrLsInv'
  <2>1. IF HasStrLColumn(T)
        THEN \E n \in 0 .. Len(T.texts) :
               StrLsRead(n) /\ (Damage # "cut" => n = Len(T.texts))
        ELSE StrLsRead(0)
    BY <1>1, Zenon DEF ReadInv, StrLsInv
  <2>2. IF HasStrLColumn(T')
        THEN \E n \in 0 .. Len(T'.texts) :
               StrLsRead(n)' /\ (Damage' # "cut" => n = Len(T'.texts))
        ELSE StrLsRead(0)'
    BY <1>2, <2>1
  <2>3. pc' \notin {"seekStrLs", "strls", "nextStrL", "strl"}
    BY <1>1
  <2> QED
    BY <1>1, <2>2, <2>3, Zenon DEF StrLsInv
<1> QED
  BY <1>1, <1>3, <1>4, <1>5, <1>6, LateFrame DEF Follows

\* A whole file has what is read next.
LEMMA WholeIsReadable ==
  ASSUME OInv, ReadInv, IsLaidOut(file), Damage = "none", pc \in ReadPoints
  PROVE  Readable
<1>1. file \in Files /\ pos \in Nat /\ Size(file) = T.size /\ T.size \in Nat
  BY LaidOutSizes DEF OInv, ScalarsInv
<1>2. Damage # "cut"
  OBVIOUS
<1>3. CASE pc = "first"
  <2>1. pos = 0 /\ T.size >= 1
    BY <1>3, LaidOutParts DEF ReadInv, PlaceInv, SectionPoints, Header, T
  <2>2. ExpectsBytes(1)
    BY <1>3 DEF ExpectsBytes, Expected
  <2> QED
    BY <1>1, <2>1, <2>2, BytesOnly
<1>4. CASE pc \in ModernHeaderPoints
  BY <1>1, <1>2, <1>4, ModernHeaderSections, SectionRead
<1>5. CASE pc = "legacy"
  BY <1>1, <1>2, <1>5, LegacySection, SectionRead
<1>6. CASE pc \in ListPoints
  BY <1>1, <1>2, <1>6, ListSections, SectionRead
<1>7. CASE pc = "expansion"
  <2>1. ~IsModern(T)
    BY <1>7, InExpansion
  <2>2. Readable <=> pos + 5 <= Size(file)
    BY <1>7, InExpansion
  <2>3. PICK n \in 1 .. Len(T.expansions) + 1 : pos = T.expansionAt[n]
    BY <1>7, InExpansion
  <2>4. ExpansionLength(T, n) \in Nat /\ pos + 5 + ExpansionLength(T, n) <= T.size
    BY <1>1, <2>1, <2>3, ExpansionThere
  <2>5. \A p, x, z \in Nat : p + 5 + x <= z => p + 5 <= z
    OBVIOUS
  <2> QED
    BY <1>1, <2>2, <2>4, <2>5, Zenon
<1>8. CASE pc = "labels"
  BY <1>1, <1>2, <1>8, LabelsSection, SectionRead
<1>9. CASE pc = "table"
  <2>1. PICK n \in 1 .. Len(T.tables) : pos = T.tableAt[n] + MarkerWidth(T)
    BY <1>9 DEF ReadInv, LabelsInv
  <2>2. Mapped = IsModern(T) /\ P = Params(T.version)
    BY <1>1, <1>9, FormatRead
  <2>3. LabelTableHead \in Nat /\ pos + (LabelTableHead + 8) = BodyAt(T, n)
    BY <1>1, <2>1, <2>2, HeadOfTable
  <2>4. BodyAt(T, n) <= T.size
    <3>1. /\ BodyAt(T, n) \in Nat /\ TableEnd(T, n) \in Nat /\ BodyAt(T, n) <= TableEnd(T, n)
          /\ TableEnd(T, n) <= T.tableAt[n + 1] /\ n + 1 \in 1 .. Len(T.tables) + 1
      BY <1>1, TablePlaces
    <3>2. T.tableAt[n + 1] \in Nat /\ T.tableAt[n + 1] <= T.size
      BY <1>1, <3>1, TablePlaces
    <3> QED
      BY <1>1, <3>1, <3>2
  <2>5. ExpectsBytes(LabelTableHead + 8) /\ LabelTableHead + 8 \in Nat
    BY <1>9, <2>3 DEF ExpectsBytes, Expected
  <2> QED
    BY <1>1, <2>3, <2>4, <2>5, BytesOnly
<1>10. CASE pc = "tableEnd"
  <2>1. PICK n \in 1 .. Len(T.tables) : pos = TableEnd(T, n)
    BY <1>10 DEF ReadInv, LabelsInv
  <2> QED
    BY <1>1, <1>2, <1>10, <2>1, TableEndSection, SectionRead
<1>11. CASE pc = "strls"
  BY <1>1, <1>2, <1>11, StrLsSection, SectionRead
<1>12. CASE pc = "strl"
  <2>1. PICK n \in 1 .. Len(T.texts) : pos = T.textAt[n] + 3
    BY <1>12 DEF ReadInv, StrLsInv
  <2>2. IsModern(T)
    BY <1>12 DEF ReadInv, FormatInv, ModernPoints
  <2>3. /\ T.texts[n].len \in Nat /\ StrLHeadOf(T) \in Nat /\ LengthAt(T, n) \in Nat
        /\ LengthAt(T, n) + 4 = pos + StrLHeadOf(T)
        /\ LengthAt(T, n) + 4 + T.texts[n].len <= T.size
    BY <1>1, <2>1, <2>2, TextPlaces
  <2>4. StrLHead = StrLHeadOf(T)
    BY <1>1, <1>12, FormatRead DEF StrLHead, StrLHeadOf
  <2>5. ExpectsBytes(StrLHeadOf(T))
    BY <1>12, <2>4 DEF ExpectsBytes, Expected
  <2>6. pos + StrLHeadOf(T) <= T.size
    BY <1>1, <2>3
  <2> QED
    BY <1>1, <2>3, <2>5, <2>6, BytesOnly
<1> QED
  BY <1>3, <1>4, <1>5, <1>6, <1>7, <1>8, <1>9, <1>10, <1>11, <1>12
     DEF ReadPoints, ModernHeaderPoints, ListPoints

-----------------------------------------------------------------------------
(***************************************************************************)
(* The theorems.                                                           *)
(***************************************************************************)
LEMMA InitLayoutInv == Init => LayoutInv
<1> SUFFICES ASSUME Init, Damage \in Described PROVE LayoutInv
  BY DEF LayoutInv
<1>1. /\ file \in Files /\ pc = "first" /\ pos = 0 /\ reader.modern = FALSE
      /\ strls = <<>> /\ labels = <<>>
  BY DEF Init
<1>2. IsLaidOut(file)
  BY <1>1, LaidOut
<1>3. T.at.first = 0
  BY <1>2, LaidOutParts DEF Header, T
<1>4. LabelsRead(0)
  <2>1. labels = [i \in 1 .. 0 |-> T.labels[i]]
    BY <1>1
  <2>2. \A i : i \notin 1 .. 0
    OBVIOUS
  <2> QED
    BY <2>1, <2>2, Zenon DEF LabelsRead
<1>5. StrLsRead(0)
  <2>1. DOMAIN strls = {} /\ strls = [ref \in DOMAIN strls |-> strls[ref]]
    BY <1>1
  <2>2. \A i : i \notin 1 .. 0
    OBVIOUS
  <2>3. {T.texts[i].ref : i \in 1 .. 0} = {}
    BY <2>2
  <2> QED
    BY <2>1, <2>2, <2>3, Zenon DEF StrLsRead
<1>6. FormatInv /\ PlaceInv /\ CountsInv
  BY <1>1, <1>3 DEF FormatInv, PlaceInv, CountsInv, ModernPoints, LegacyPoints, SectionPoints,
     AfterHeader, ListPoints, LatePoints
<1>7. DescribedInv /\ RowsInv
  BY <1>1 DEF DescribedInv, RowsInv, ListPoints, LatePoints
<1>8. LabelsInv
  BY <1>1, <1>4 DEF LabelsInv
<1>9. StrLsInv
  BY <1>1, <1>5 DEF StrLsInv
<1> QED
  BY <1>1, <1>6, <1>7, <1>8, <1>9 DEF LayoutInv, ReadInv

\* A call is for one file, and an exception ends it.
LEMMA StepOfCall == ASSUME Step PROVE pc # "error" /\ UNCHANGED file
<1>1. CASE ReadFirstByte \/ ParseHeader \/ ParseMap \/ ParseLegacyHeader
  BY <1>1 DEF ReadFirstByte, ParseHeader, ParseRelease, SkipByteorder, ParseK, ParseN,
     ParseDatasetLabel, DatasetLabelText, ParseTimestamp, EndHeader, ParseMap,
     ParseLegacyHeader, ReadInto, Skip, At, Unchanged
<1>2. CASE ParseDescriptors \/ SkipCharacteristics \/ SkipExpansionField
  BY <1>2 DEF ParseDescriptors, ParseVariableTypes, ParseVarnames, SkipSortlist,
     ParseFormats, ParseValueLabelNames, ParseVariableLabels, Describe, SkipCharacteristics,
     SkipExpansionField, Skip, At, Unchanged
<1>3. CASE AddWidth \/ CheckRows \/ Bind
  BY <1>3 DEF AddWidth, CheckRows, Bind, ReadDtaBind, MapColumn, EnumThrows, BindReturns,
     Unchanged
<1>4. CASE LoadTables
  BY <1>4 DEF LoadTables, LoadValueLabels, NextLabelTable, ReadLabelTable, EndLabelTable,
     SeekStrLs, LoadStrLs, NextStrL, ReadStrL, NextItem, Skip, At, Unchanged
<1>5. CASE ReadFails
  BY <1>5 DEF ReadFails, ReadPoints, Unchanged
<1> QED
  BY <1>1, <1>2, <1>3, <1>4, <1>5 DEF Step, Construct

\* All label tables of a file were read.
LEMMA AllTables ==
  ASSUME file \in Files, IsLaidOut(file), LabelsRead(Len(T.tables))
  PROVE  labels = T.labels
<1>1. Len(T.tables) \in Nat
  BY TablePlaces
<1>2. T.labels = [i \in 1 .. (Len(T.tables) + 1) - 1 |-> LabelsOf(T, i)]
  BY LaidOutParts DEF LabelTables, T
<1>3. T.labels = [i \in 1 .. Len(T.tables) |-> T.labels[i]]
  BY <1>1, <1>2
<1> QED
  BY <1>3 DEF LabelsRead

\* An ENUM is made of a column of the table, and of the first label table that
\* has its name: when it has a text twice, so has the table of the file.
LEMMA EnumThrowsLayout ==
  ASSUME OInv, ReadInv, IsLaidOut(file), EnumThrows
  PROVE  LayoutInv'
<1>1. /\ pc = "columns" /\ index <= NumVars /\ TRUE \in TextsRepeat /\ pc' = "error"
      /\ UNCHANGED <<file, wantLabels>>
  BY DEF EnumThrows, Unchanged
<1>2. file \in Files /\ T' = T /\ Damage' = Damage
  BY <1>1, SameFile DEF OInv, ScalarsInv
<1>3. ASSUME Damage = "none" PROVE Refused
  <2>1. wantLabels
    <3>1. ~wantLabels => TextsRepeat = {FALSE}
      BY DEF TextsRepeat, EnumRepeats, TableOf
    <3> QED
      BY <1>1, <3>1
  <2>2. columns = T.columns
    BY <1>1 DEF ReadInv, DescribedInv, LatePoints
  <2>3. labels = T.labels
    <3>1. LabelsRead(Len(T.tables))
      BY <1>1, <1>3, <2>1 DEF ReadInv, LabelsInv
    <3> QED
      BY <1>2, <3>1, AllTables
  <2>4. index \in DOMAIN T.columns
    <3>1. index \in 1 .. NumVars + 1 /\ NumVars \in Nat /\ DOMAIN columns = 1 .. NumVars
      BY DEF OInv, IndexInv, ColumnsInv, IsList, NumVars
    <3> QED
      BY <1>1, <2>2, <3>1
  <2>5. TRUE \in EnumRepeats(T.columns[index], T.labels,
                             TableIn(T.labels, T.columns[index].labelName))
    BY <1>1, <2>1, <2>2, <2>3 DEF TextsRepeat, TableOf
  <2> QED
    BY <2>1, <2>4, <2>5 DEF Refused, HasRepeats
<1>4. Refused' <=> Refused
  BY <1>1, <1>2 DEF Refused
<1> QED
  BY <1>1, <1>2, <1>3, <1>4 DEF LayoutInv

\* Steps of the constructor.
LEMMA ConstructFollows ==
  ASSUME OInv, ReadInv, IsLaidOut(file), Construct
  PROVE  Follows
<1>1. CASE ReadFirstByte
  BY <1>1, FirstByteFollows
<1>2. CASE ParseRelease
  BY <1>2, ReleaseFollows
<1>3. CASE ParseK
  <2>1. ReadInto("K", "N", "K", "k")
    BY <1>3 DEF ParseK
  <2> QED
    BY <2>1, ReadIntoFollows
<1>4. CASE ParseN
  <2>1. ReadInto("N", "label", "N", "nObs")
    BY <1>4 DEF ParseN
  <2> QED
    BY <2>1, ReadIntoFollows
<1>5. CASE ParseDatasetLabel
  <2>1. ReadInto("label", "labelText", "length", "length")
    BY <1>5 DEF ParseDatasetLabel
  <2> QED
    BY <2>1, ReadIntoFollows
<1>6. CASE ParseTimestamp
  <2>1. ReadInto("timestamp", "headerEnd", "length", "length")
    BY <1>6 DEF ParseTimestamp
  <2> QED
    BY <2>1, ReadIntoFollows
<1>7. CASE SkipByteorder \/ DatasetLabelText
  BY <1>7, SkipInHeaderFollows
<1>8. CASE EndHeader
  BY <1>8, EndHeaderFollows
<1>9. CASE ParseMap
  BY <1>9, MapFollows
<1>10. CASE ParseLegacyHeader
  BY <1>10, LegacyHeaderFollows
<1>11. CASE ParseVariableTypes
  BY <1>11, TypesFollowLayout
<1>12. CASE ParseVarnames
  BY <1>12, NamesFollow
<1>13. CASE SkipSortlist \/ ParseFormats
  BY <1>13, SkipListFollows
<1>14. CASE ParseValueLabelNames
  BY <1>14, LabelNamesFollow
<1>15. CASE ParseVariableLabels
  BY <1>15, VariableLabelsFollow
<1>16. CASE SkipCharacteristics
  BY <1>16, CharacteristicsFollow
<1>17. CASE SkipExpansionField
  BY <1>17, ExpansionFollows
<1>18. CASE AddWidth
  BY <1>18, AddWidthFollows
<1>19. CASE CheckRows
  BY <1>19, CheckRowsFollows
<1> QED
  BY <1>1, <1>2, <1>3, <1>4, <1>5, <1>6, <1>7, <1>8, <1>9, <1>10, <1>11, <1>12, <1>13,
     <1>14, <1>15, <1>16, <1>17, <1>18, <1>19
     DEF Construct, ParseHeader, ParseDescriptors

\* Steps of the bind and of its loaders.
LEMMA BindingFollows ==
  ASSUME OInv, ReadInv, IsLaidOut(file), ReadDtaBind \/ LoadTables \/ MapColumn \/ BindReturns
  PROVE  Follows
<1>1. CASE ReadDtaBind
  BY <1>1, BindFollows
<1>2. CASE LoadValueLabels
  BY <1>2, LoadValueLabelsFollows
<1>3. CASE NextLabelTable
  BY <1>3, NextLabelTableFollows
<1>4. CASE ReadLabelTable
  BY <1>4, ReadLabelTableFollows
<1>5. CASE EndLabelTable
  BY <1>5, EndLabelTableFollows
<1>6. CASE SeekStrLs
  BY <1>6, SeekStrLsFollows
<1>7. CASE LoadStrLs
  BY <1>7, LoadStrLsFollows
<1>8. CASE NextStrL
  BY <1>8, NextStrLFollows
<1>9. CASE ReadStrL
  BY <1>9, ReadStrLFollows
<1>10. CASE MapColumn \/ BindReturns
  BY <1>10, LastFollows
<1> QED
  BY <1>1, <1>2, <1>3, <1>4, <1>5, <1>6, <1>7, <1>8, <1>9, <1>10 DEF LoadTables

LEMMA SameState == ASSUME UNCHANGED vars, LayoutInv PROVE LayoutInv'
<1>1. /\ UNCHANGED <<file, wantLabels, pc, pos, index, reader, columns, strls, labels>>
      /\ T' = T /\ Damage' = Damage
  BY SameFile DEF vars
<1>2. FormatInv' <=> FormatInv
  BY <1>1 DEF FormatInv
<1>3. PlaceInv' <=> PlaceInv
  BY <1>1 DEF PlaceInv
<1>4. CountsInv' <=> CountsInv
  BY <1>1, SameFile DEF CountsInv
<1>5. DescribedInv' <=> DescribedInv
  BY <1>1 DEF DescribedInv, NumVars
<1>6. RowsInv' <=> RowsInv
  BY <1>1, SameFile, SameStart DEF RowsInv
<1>7. LabelsInv' <=> LabelsInv
  BY <1>1, SameLabels DEF LabelsInv
<1>8. StrLsInv' <=> StrLsInv
  BY <1>1, SameStrLs DEF StrLsInv
<1>9. Refused' <=> Refused
  BY <1>1 DEF Refused
<1> QED
  BY <1>1, <1>2, <1>3, <1>4, <1>5, <1>6, <1>7, <1>8, <1>9 DEF LayoutInv, ReadInv

LEMMA NextLayoutInv == OInv /\ LayoutInv /\ [Next]_vars => LayoutInv'
<1> SUFFICES ASSUME OInv, LayoutInv, [Next]_vars PROVE LayoutInv'
  OBVIOUS
<1>1. CASE UNCHANGED vars
  BY <1>1, SameState
<1>2. CASE Step
  <2>1. pc # "error" /\ UNCHANGED file
    BY <1>2, StepOfCall
  <2>2. CASE Damage \notin Described
    BY <2>1, <2>2 DEF LayoutInv, Damage
  <2>3. CASE Damage \in Described
    <3>1. ReadInv /\ IsLaidOut(file)
      BY <2>1, <2>3, LaidOut DEF LayoutInv, OInv, ScalarsInv
    <3>2. CASE Construct
      BY <2>1, <3>1, <3>2, ConstructFollows, FollowsLayout
    <3>3. CASE ReadDtaBind \/ LoadTables \/ MapColumn \/ BindReturns
      BY <2>1, <3>1, <3>3, BindingFollows, FollowsLayout
    <3>4. CASE ReadFails
      <4>1. Damage # "none" /\ pc' = "error"
        BY <3>1, <3>4, WholeIsReadable DEF ReadFails
      <4> QED
        BY <2>1, <4>1, FollowsLayout DEF Follows
    <3>5. CASE EnumThrows
      BY <3>1, <3>5, EnumThrowsLayout
    <3> QED
      BY <1>2, <3>2, <3>3, <3>4, <3>5 DEF Step, Bind
  <2> QED
    BY <2>2, <2>3
<1> QED
  BY <1>1, <1>2 DEF Next, Over

\* For all files: at each point of a call, the handle is where the layout has
\* what is read next, and what was read so far is what the table holds.
THEOREM OpenLayout == Spec => []LayoutInv
  BY InitLayoutInv, NextLayoutInv, OpenInvariant, PTL DEF Spec

\* Every file that is whole opens, of whatever size, in each format, unless an
\* ENUM that the bind makes of a label table may have a text twice.
THEOREM OpenWholeFilesOpen == Spec => []WholeFilesOpen
<1>1. LayoutInv => WholeFilesOpen
  BY DEF LayoutInv, WholeFilesOpen, Refused, Described, Sound, T
<1> QED
  BY <1>1, OpenLayout, PTL

LEMMA BoundAsLaidOut ==
  ASSUME OInv, LayoutInv, Bound, Damage \in Described
  PROVE  /\ ReadInv /\ IsLaidOut(file) /\ file \in Files
         /\ pc = "bound" /\ pc \in LatePoints /\ pc \in AfterHeader
<1>1. pc = "bound" /\ pc # "error" /\ file \in Files
  BY DEF Bound, OInv, ScalarsInv
<1>2. ReadInv /\ IsLaidOut(file)
  BY <1>1, LaidOut DEF LayoutInv
<1> QED
  BY <1>1, <1>2 DEF LatePoints, AfterHeader

\* What was read of the label tables and of the strLs.
LEMMA LoadedAtBind ==
  ASSUME ReadInv, pc = "bound"
  PROVE  /\ ~wantLabels => LabelsRead(0)
         /\ wantLabels => \E n \in 0 .. Len(T.tables) :
              LabelsRead(n) /\ (Damage # "cut" => n = Len(T.tables))
         /\ ~HasStrLColumn(T) => StrLsRead(0)
         /\ HasStrLColumn(T) => \E n \in 0 .. Len(T.texts) :
              StrLsRead(n) /\ (Damage # "cut" => n = Len(T.texts))
  BY Zenon DEF ReadInv, LabelsInv, StrLsInv

LEMMA RejectionFollows == OInv /\ LayoutInv => ExcessIsRejected
<1> SUFFICES ASSUME OInv, LayoutInv, Bound
    PROVE  /\ Damage = "excess" => reader.dataOffset < DataTag
           /\ wantLabels => Damage # "label excess"
  BY DEF ExcessIsRejected
<1>1. ASSUME Damage = "excess" PROVE reader.dataOffset < DataTag
  <2>1. /\ ReadInv /\ IsLaidOut(file) /\ file \in Files
        /\ pc = "bound" /\ pc \in LatePoints /\ pc \in AfterHeader
    BY <1>1, BoundAsLaidOut DEF Described
  <2>2. ~Exceeds(file, KAt(T), MostVariables(file))
    BY <2>1 DEF ReadInv, CountsInv
  <2>3. /\ StartInv
        /\ ~IsModern(T) => NoExpansionExceeds(Len(T.expansions) + 1)
    BY <2>1, Zenon DEF ReadInv, RowsInv
  <2>4. IsModern(T) /\ HasStrLColumn(T) =>
          \A i \in DOMAIN T.texts : ~Exceeds(file, LengthAt(T, i), MostLength(file, i))
    <3>1. HasStrLColumn(T) => StrLsRead(Len(T.texts))
      BY <1>1, <2>1, LoadedAtBind
    <3>2. DOMAIN T.texts = 1 .. Len(T.texts)
      <4>1. IsListing(T["texts"])
        BY <2>1, LaidOutParts DEF TableTypes
      <4> QED
        BY <4>1 DEF IsListing
    <3> QED
      BY <3>1, <3>2 DEF StrLsRead
  <2>5. HasExcess(file)
    BY <1>1, <2>1, LaidOutParts
  <2>6. CASE Wraps
    BY <2>3, <2>6 DEF StartInv
  <2>7. ASSUME ~Wraps PROVE FALSE
    <3>1. /\ RowWidth(T) > 0 => ~Exceeds(file, NAt(T), MostRows(file))
          /\ IsModern(T) => ~Exceeds(file, MapEntryAt(T, 9), MostData(file))
      BY <2>3, <2>7 DEF StartInv
    <3> QED
      BY <2>2, <2>3, <2>4, <2>5, <3>1, Zenon DEF HasExcess, NoExpansionExceeds, T
  <2> QED
    BY <2>6, <2>7
<1>2. ASSUME wantLabels, Damage = "label excess" PROVE FALSE
  <2>1. ReadInv /\ IsLaidOut(file) /\ pc = "bound"
    BY <1>2, BoundAsLaidOut DEF Described
  <2>2. LabelsRead(Len(T.tables))
    BY <1>2, <2>1, LoadedAtBind
  <2>3. DOMAIN T.tables = 1 .. Len(T.tables)
    <3>1. IsListing(T["tables"])
      BY <2>1, LaidOutParts DEF TableTypes
    <3> QED
      BY <3>1 DEF IsListing
  <2>4. HasLabelExcess(file)
    BY <1>2, <2>1, LaidOutParts
  <2> QED
    BY <2>2, <2>3, <2>4, Zenon DEF HasLabelExcess, LabelsRead, T
<1> QED
  BY <1>1, <1>2

\* A count, an offset or a length that a file has no room for is never bound,
\* nor a size in a label table when they are read.  What can be bound is a map
\* whose offset of <data> wraps with the 6 bytes that are added to it.
THEOREM OpenExcessIsRejected == Spec => []ExcessIsRejected
  BY OpenInvariant, OpenLayout, RejectionFollows, PTL

LEMMA TableFollows == OInv /\ LayoutInv => OpenedTablesAreTrue
<1> SUFFICES ASSUME OInv, LayoutInv, Bound, Damage \in Sound
    PROVE  /\ reader.nObs = T.nObs
           /\ columns = T.columns
           /\ reader.dataOffset = T.dataOffset
           /\ reader.dataOffset + T.nObs * reader.rowWidth <= Size(file)
           /\ \A ref \in DOMAIN strls :
                ref \in DOMAIN T.strls /\ strls[ref] = T.strls[ref]
           /\ IsStartOf(labels, T.labels)
           /\ Damage = "none" => /\ HasStrLs => strls = T.strls
                                 /\ wantLabels => labels = T.labels
  BY DEF OpenedTablesAreTrue, Sound, T
<1>1. /\ ReadInv /\ IsLaidOut(file) /\ file \in Files
      /\ pc = "bound" /\ pc \in LatePoints /\ pc \in AfterHeader
  BY BoundAsLaidOut DEF Described
<1>2. reader.nObs = T.nObs
  <2>1. NRead = T.nObs
    BY <1>1, CountsThere
  <2>2. reader.nObs = NRead
    BY <1>1 DEF ReadInv, CountsInv
  <2> QED
    BY <2>1, <2>2
<1>3. columns = T.columns /\ reader.dataOffset = T.dataOffset
  <2>1. columns = T.columns /\ StartInv
    BY <1>1 DEF ReadInv, DescribedInv, RowsInv
  <2> QED
    BY <2>1 DEF StartInv
<1>4. reader.dataOffset + T.nObs * reader.rowWidth <= Size(file)
  BY <1>1, <1>2, RowsEnd DEF OInv, ScalarsInv, OffsetsInv
<1>5. ASSUME NEW n \in 0 .. Len(T.texts), StrLsRead(n), IsModern(T)
      PROVE  /\ \A ref \in DOMAIN strls :
                  ref \in DOMAIN T.strls /\ strls[ref] = T.strls[ref]
             /\ n = Len(T.texts) => strls = T.strls
  <2> DEFINE last == Len(T.texts) + 1
  <2>1. Len(T.texts) \in Nat /\ (last - 1 = Len(T.texts))
    BY <1>1, <1>5, TextPlaces
  <2>2. /\ \A i, j \in 1 .. Len(T.texts) : T.texts[i].ref = T.texts[j].ref => i = j
        /\ T.strls = [ref \in {T.texts[i].ref : i \in 1 .. Len(T.texts)} |->
                        T.texts[CHOOSE i \in 1 .. Len(T.texts) : T.texts[i].ref = ref].text]
    <3>1. StrLs(file)
      BY <1>1, <1>5, LaidOutParts
    <3>2. /\ \A i, j \in 1 .. last - 1 : T.texts[i].ref = T.texts[j].ref => i = j
          /\ T.strls = [ref \in {T.texts[i].ref : i \in 1 .. last - 1} |->
                          T.texts[CHOOSE i \in 1 .. last - 1 : T.texts[i].ref = ref].text]
      BY <3>1, Zenon DEF StrLs, T
    <3> QED
      BY <2>1, <3>2
  <2>3. ASSUME NEW i \in 1 .. Len(T.texts) PROVE T.strls[T.texts[i].ref] = T.texts[i].text
    <3>1. (CHOOSE j \in 1 .. Len(T.texts) : T.texts[j].ref = T.texts[i].ref) = i
      BY <2>2
    <3>2. T.texts[i].ref \in {T.texts[j].ref : j \in 1 .. Len(T.texts)}
      OBVIOUS
    <3>3. T.strls[T.texts[i].ref] =
            T.texts[CHOOSE j \in 1 .. Len(T.texts) : T.texts[j].ref = T.texts[i].ref].text
      BY <2>2, <3>2, Zenon
    <3> QED
      BY <3>1, <3>3
  <2>4. /\ strls = [ref \in DOMAIN strls |-> strls[ref]]
        /\ DOMAIN strls = {T.texts[i].ref : i \in 1 .. n}
        /\ \A i \in 1 .. n : strls[T.texts[i].ref] = T.texts[i].text
    BY <1>5, Zenon DEF StrLsRead
  <2>5. 1 .. n \subseteq 1 .. Len(T.texts)
    BY <2>1
  <2>6. DOMAIN T.strls = {T.texts[i].ref : i \in 1 .. Len(T.texts)}
        /\ T.strls = [ref \in DOMAIN T.strls |-> T.strls[ref]]
    BY <2>2
  <2>7. \A ref \in DOMAIN strls : ref \in DOMAIN T.strls /\ strls[ref] = T.strls[ref]
    BY <2>3, <2>4, <2>5, <2>6
  <2>8. n = Len(T.texts) => strls = T.strls
    BY <2>4, <2>6, <2>7
  <2> QED
    BY <2>7, <2>8
<1>6. \A ref \in DOMAIN strls : ref \in DOMAIN T.strls /\ strls[ref] = T.strls[ref]
  <2>1. CASE HasStrLColumn(T)
    BY <1>1, <1>5, <2>1, LoadedAtBind, StrLsAreModern
  <2>2. CASE ~HasStrLColumn(T)
    <3>1. DOMAIN strls = {T.texts[i].ref : i \in 1 .. 0}
      BY <1>1, <2>2, LoadedAtBind DEF StrLsRead
    <3> QED
      BY <3>1
  <2> QED
    BY <2>1, <2>2
<1>7. ASSUME Damage = "none", HasStrLs PROVE strls = T.strls
  BY <1>1, <1>5, <1>7, LoadedAtBind, StrLsAreModern, StrLsKnown
<1>8. ASSUME NEW n \in 0 .. Len(T.tables), LabelsRead(n)
      PROVE  IsStartOf(labels, T.labels) /\ (n = Len(T.tables) => labels = T.labels)
  <2>1. Len(T.tables) \in Nat
    BY <1>1, TablePlaces
  <2>2. T.labels = [i \in 1 .. Len(T.tables) |-> T.labels[i]]
    <3>1. T.labels = [i \in 1 .. (Len(T.tables) + 1) - 1 |-> LabelsOf(T, i)]
      BY <1>1, LaidOutParts DEF LabelTables, T
    <3> QED
      BY <2>1, <3>1
  <2>3. labels = [i \in 1 .. n |-> T.labels[i]]
    BY <1>8 DEF LabelsRead
  <2>4. Len(labels) = n /\ Len(T.labels) = Len(T.tables)
    BY <2>1, <2>2, <2>3
  <2>5. labels = SubSeq(T.labels, 1, n)
    BY <2>1, <2>2, <2>3
  <2> QED
    BY <2>1, <2>2, <2>3, <2>4, <2>5 DEF IsStartOf
<1>9. IsStartOf(labels, T.labels)
  <2>1. Len(T.tables) \in Nat
    BY <1>1, TablePlaces
  <2>2. \E n \in 0 .. Len(T.tables) : LabelsRead(n)
    BY <1>1, <2>1, LoadedAtBind
  <2> QED
    BY <1>8, <2>2
<1>10. ASSUME Damage = "none", wantLabels PROVE labels = T.labels
  BY <1>1, <1>8, <1>10, LoadedAtBind
<1> QED
  BY <1>2, <1>3, <1>4, <1>6, <1>7, <1>9, <1>10

\* A whole file, or the beginning of one, is bound only as its own table.
THEOREM OpenTablesAreTrue == Spec => []OpenedTablesAreTrue
  BY OpenInvariant, OpenLayout, TableFollows, PTL
=============================================================================
