------------------------------ MODULE DtaOpen ------------------------------
(***************************************************************************)
(* Opening a .dta file: the constructor of DtaReader and its loaders of    *)
(* value labels and strLs (src/src/dta_reader.cpp), and the bind of        *)
(* read_dta that calls them (src/src/read_dta_function.cpp), for formats   *)
(* 113 to 115 and 117 to 121, on any sequence of bytes: whole files,       *)
(* truncated ones, sizes and offsets that lie.                             *)
(*                                                                         *)
(* Abstractions.  A file is its size in bytes and the tokens (tags,        *)
(* fields, strings) that begin at some of its positions; widths are those  *)
(* of the format.  Bytes read as a field that is not there have any of the *)
(* values of Samples, bytes read as a string give Garbage.  Adjacent tags  *)
(* are one.  A skip (Seek) past the end fails at once instead of at the    *)
(* read that follows it.  32 and 64 bits are scaled down to Mod32 and      *)
(* Mod64.  Byte order, formats and variable labels are read over.  The     *)
(* texts of a label table are one opaque body (ValueLabels has them) of    *)
(* which only this is known: whether two values have the same text.        *)
(***************************************************************************)
EXTENDS Integers, Sequences, FiniteSets

CONSTANTS
  Files,        \* the files that may be opened
  Size(_),      \* the size of each in bytes
  Content(_),   \* the tokens of each, by position
  Source(_),    \* the table each was made from, and how it was damaged
  Samples,      \* what fields may hold that are not in the file
  TagLen(_),    \* strlen of a tag
  Garbage,      \* a string made of other bytes
  Repeats(_),   \* whether two values of a label table have the same text
  Mod32, Mod64  \* the values of a uint32_t and of a uint64_t

\* 64 bits hold the size of a file, and 32 bits times the bytes that the
\* metadata of a variable takes.
ASSUME ModAssumption ==
  /\ Mod32 \in Nat \ {0}
  /\ Mod64 \in Nat /\ 638 * Mod32 <= Mod64
ASSUME SizeAssumption == \A f \in Files : Size(f) \in 0 .. Mod64 - 1

\* The tags that the reader expects; none is "".
Tags ==
  {"", "<stata_dta><header><release>", "</release>", "<byteorder>",
   "</byteorder>", "<K>", "</K>", "<N>", "</N>", "<label>", "</label>",
   "<timestamp>", "</timestamp></header>", "<map>", "</map>",
   "<variable_types>", "</variable_types>", "<varnames>", "</varnames>",
   "<sortlist>", "</sortlist>", "<formats>", "</formats>",
   "<value_label_names>", "</value_label_names>", "<variable_labels>",
   "</variable_labels>", "<value_labels>", "<lbl>", "</lbl>", "<strls>"}
ASSUME TagAssumption == \A tag \in Tags : TagLen(tag) \in Nat

\* The fields that hold numbers, and the values that they have room for.
Numbers == {"version", "K", "N", "length", "dataAt", "strlsAt", "labelsAt", "type",
            "expansion", "expansionLength", "n", "txtlen", "strlLength"}
MaxLength == 65535
NumbersOf(kind) ==
  CASE kind = "K"      -> 0 .. Mod32 - 1
    [] kind = "length" -> 0 .. MaxLength
    [] kind \in {"dataAt", "strlsAt", "labelsAt"} -> 0 .. Mod64 - 1
    [] OTHER           -> Nat
ASSUME SamplesAssumption == \A kind \in Numbers : Samples[kind] \subseteq NumbersOf(kind)
ASSUME ContentAssumption ==
  \A f \in Files : LET tokens == Content(f) IN
    \A p \in DOMAIN tokens :
      tokens[p].kind \in Numbers => tokens[p].value \in NumbersOf(tokens[p].kind)

VARIABLES
  file,         \* the file read_dta is called on
  wantLabels,   \* its option value_labels
  pc,           \* what is done next; "error" when an exception was thrown
  pos,          \* position of the handle
  index,        \* index of the loops over columns
  reader,       \* the scalar fields of DtaReader, n_vars and a text length
  columns,      \* columns_
  strls,        \* strl_table_
  labels,       \* value_labels_
  mapped,       \* the bind data of the columns: offsets and label tables
  allocated     \* the largest size taken from the file that was allocated

vars == <<file, wantLabels, pc, pos, index, reader, columns, strls,
          labels, mapped, allocated>>

Larger(a, b) == IF a >= b THEN a ELSE b

-----------------------------------------------------------------------------
(***************************************************************************)
(* DtaVersionParams::ForVersion.                                           *)
(***************************************************************************)
Versions == (113 .. 115) \cup (117 .. 121)

Params(v) ==
  IF v <= 117
  THEN [name |-> 33, sort |-> 2, format |-> IF v = 113 THEN 12 ELSE 49,
        labelName |-> 33, varLabel |-> 81, k |-> 2, n |-> 4,
        dataLabel |-> IF v = 117 THEN 1 ELSE 2, aliases |-> FALSE]
  ELSE [name |-> 129, sort |-> IF v \in {119, 121} THEN 4 ELSE 2, format |-> 57,
        labelName |-> 129, varLabel |-> 321,
        k |-> IF v \in {119, 121} THEN 4 ELSE 2, n |-> 8,
        dataLabel |-> 2, aliases |-> v \in {120, 121}]

P == Params(reader.version)

Alias == 65525
StrL == 32768
MaxStr == 2045

\* Mutant: the codes after the last one, too.
KnownTypesAndAbove == (1 .. MaxStr) \cup {StrL} \cup (65525 .. 65535)

\* Type codes: 1 to MaxStr are the lengths of strings.
KnownTypes == (1 .. MaxStr) \cup {StrL} \cup (65525 .. 65530)

TypeWidth(code) ==
  CASE code \in 1 .. MaxStr    -> code
    [] code \in {StrL, 65526}  -> 8
    [] code \in {65527, 65528} -> 4
    [] code = 65529            -> 2
    [] code = 65530            -> 1
    [] OTHER                   -> 0

\* The type code of a legacy one; 0 is none.
TranslateLegacyType(code) ==
  CASE code \in 1 .. 244   -> code
    [] code \in 251 .. 255 -> 65781 - code
    [] OTHER               -> 0

-----------------------------------------------------------------------------
(***************************************************************************)
(* Reading: what is expected at each point of the code is an opening tag,  *)
(* a number of bytes and a closing tag, either of which may be missing.    *)
(***************************************************************************)
NoToken == [kind |-> "none"]
Tag(name) == [kind |-> "tag", value |-> name]

TokenAt(p) == IF p \in DOMAIN Content(file) THEN Content(file)[p] ELSE NoToken

TagAt(p, tag) ==
  tag = "" \/ (TokenAt(p) = Tag(tag) /\ p + TagLen(tag) <= Size(file))

Remaining == IF pos < Size(file) THEN Size(file) - pos ELSE 0

\* The value of a field, and of a string, some bytes after the handle.
Field(kind, skip) ==
  IF TokenAt(pos + skip).kind = kind THEN {TokenAt(pos + skip).value}
  ELSE Samples[kind]

StringAt(kind, skip) ==
  IF TokenAt(pos + skip).kind = kind THEN TokenAt(pos + skip).value
  ELSE Garbage

Layout(open, bytes, close) == [open |-> open, bytes |-> bytes, close |-> close]

\* A list with an entry for each variable; legacy files have no tags.
List(open, bytes, close) ==
  IF reader.modern THEN Layout(open, bytes, close) ELSE Layout("", bytes, "")

NumVars == Len(columns)

\* Mutant: an entry for each variable, none for the end of the list.
SortEntriesOfVariables == NumVars

SortEntries == NumVars + 1
TypeBytes == IF reader.modern THEN 2 ELSE 1

\* Files before 117 have no map; their label tables follow the rows.
Mapped == reader.version >= 117
LabelTableHead == (IF Mapped THEN 4 ELSE 0) + P.labelName + 3

StrLHead == IF reader.version = 117 THEN 13 ELSE 17

Expected ==
  CASE pc = "first"      -> Layout("", 1, "")
    [] pc = "release"    -> Layout("<stata_dta><header><release>", 3, "</release>")
    [] pc = "byteorder"  -> Layout("<byteorder>", 3, "</byteorder>")
    [] pc = "K"          -> Layout("<K>", P.k, "</K>")
    [] pc = "N"          -> Layout("<N>", P.n, "</N>")
    [] pc = "label"      -> Layout("<label>", P.dataLabel, "")
    [] pc = "labelText"  -> Layout("", reader.length, "</label>")
    [] pc = "timestamp"  -> Layout("<timestamp>", 1, "")
    [] pc = "headerEnd"  -> Layout("", reader.length, "</timestamp></header>")
    [] pc = "legacy"     -> Layout("", 109, "")
    [] pc = "map"        -> Layout("<map>", 112, "</map>")
    [] pc = "types"      -> List("<variable_types>", NumVars * TypeBytes,
                                 "</variable_types>")
    [] pc = "names"      -> List("<varnames>", NumVars * P.name, "</varnames>")
    [] pc = "sortlist"   -> List("<sortlist>", SortEntries * P.sort,
                                 "</sortlist>")
    [] pc = "formats"    -> List("<formats>", NumVars * P.format, "</formats>")
    [] pc = "labelNames" -> List("<value_label_names>", NumVars * P.labelName,
                                 "</value_label_names>")
    [] pc = "varLabels"  -> List("<variable_labels>", NumVars * P.varLabel,
                                 "</variable_labels>")
    [] pc = "expansion"  -> Layout("", 5, "")
    [] pc = "labels"     -> Layout(IF Mapped THEN "<value_labels>" ELSE "", 0, "")
    [] pc = "table"      -> Layout("", LabelTableHead + 8, "")
    [] pc = "tableEnd"   -> Layout("", 0, IF Mapped THEN "</lbl>" ELSE "")
    [] pc = "strls"      -> Layout("<strls>", 0, "")
    [] pc = "strl"       -> Layout("", StrLHead, "")

ReadPoints ==
  {"first", "release", "byteorder", "K", "N", "label", "labelText", "timestamp",
   "headerEnd", "legacy", "map", "types", "names", "sortlist", "formats",
   "labelNames", "varLabels", "expansion", "labels", "table", "tableEnd",
   "strls", "strl"}

Bytes(r) == TagLen(r.open) + r.bytes + TagLen(r.close)

Readable ==
  LET r == Expected IN
    /\ TagAt(pos, r.open)
    /\ TagAt(pos + TagLen(r.open) + r.bytes, r.close)
    /\ pos + Bytes(r) <= Size(file)

\* Where the bytes after the opening tag begin, seen from the handle.
Body == TagLen(Expected.open)

\* Going on, or throwing when a check of the code fails.
At(point) == pc = point /\ Readable
Goto(point, check) == pc' = IF check THEN point ELSE "error"
Advance(more) == pos' = pos + Bytes(Expected) + more

Unchanged(rest) == UNCHANGED rest /\ UNCHANGED <<file, wantLabels>>

\* What is read has no effect.
Skip(point, next) ==
  /\ At(point)
  /\ pc' = next
  /\ Advance(0)
  /\ Unchanged(<<index, reader, columns, strls, labels, mapped, allocated>>)

\* ReadBytes and ReadTag throw.
ReadFails ==
  /\ pc \in ReadPoints
  /\ ~Readable
  /\ pc' = "error"
  /\ Unchanged(<<pos, index, reader, columns, strls, labels, mapped, allocated>>)

-----------------------------------------------------------------------------
(***************************************************************************)
(* The constructor: ParseHeader and what is before it.                     *)
(***************************************************************************)
Init ==
  /\ file \in Files
  /\ wantLabels \in BOOLEAN
  /\ pc = "first"
  /\ pos = 0
  /\ index = 1
  /\ reader = [version |-> 0, modern |-> FALSE, k |-> 0, length |-> 0,
               nObs |-> 0, dataOffset |-> 0, strlsOffset |-> 0,
               labelsOffset |-> 0, rowWidth |-> 0]
  /\ columns = <<>>
  /\ strls = <<>>
  /\ labels = <<>>
  /\ mapped = <<>>
  /\ allocated = 0

\* The first byte is "<" in formats 117 and later, the version in earlier ones.
LessThan == 60
FirstByte == IF TokenAt(0).kind = "tag" THEN {LessThan} ELSE Field("version", 0)

ReadFirstByte ==
  /\ At("first")
  /\ \E byte \in FirstByte :
       IF byte = LessThan
       THEN /\ pc' = "release"
            /\ reader' = [reader EXCEPT !.modern = TRUE]
       ELSE /\ Goto("legacy", byte \in Versions)
            /\ reader' = [reader EXCEPT !.version = byte]
  /\ Unchanged(<<pos, index, columns, strls, labels, mapped, allocated>>)

ReadInto(point, next, kind, field) ==
  /\ At(point)
  /\ \E v \in Field(kind, Body) :
       /\ Goto(next, kind = "version" => v \in Versions)
       /\ reader' = [reader EXCEPT ![field] = v]
  /\ Advance(0)
  /\ Unchanged(<<index, columns, strls, labels, mapped>>)

ParseRelease == ReadInto("release", "byteorder", "version", "version")
                /\ UNCHANGED allocated
SkipByteorder == Skip("byteorder", "K")
ParseK == ReadInto("K", "N", "K", "k") /\ UNCHANGED allocated
ParseN == ReadInto("N", "label", "N", "nObs") /\ UNCHANGED allocated

\* dataset_label_ is sized before it is known to be in the file.
ParseDatasetLabel == ReadInto("label", "labelText", "length", "length")
                     /\ allocated' = Larger(allocated, reader'.length)
DatasetLabelText == Skip("labelText", "timestamp")
ParseTimestamp == ReadInto("timestamp", "headerEnd", "length", "length")
                  /\ UNCHANGED allocated

\* The variables need at least this much metadata, so that K is bounded by
\* the size of the file before columns_ is sized.
MinBytesPerVar ==
  TypeBytes + P.name + P.format + P.labelName + P.varLabel

\* Mutant: the product is one of 32 bits.
VariableCountFits32(k) == (k * MinBytesPerVar) % Mod32 <= Size(file)

VariableCountFits(k) == (k * MinBytesPerVar) % Mod64 <= Size(file)

\* The check, and columns_.resize.
Resize(k, next) ==
  /\ Goto(next, VariableCountFits(k))
  /\ IF VariableCountFits(k)
     THEN /\ columns' = [i \in 1 .. k |-> [type |-> 0, name |-> Garbage,
                                           labelName |-> Garbage]]
          /\ allocated' = Larger(allocated, k * MinBytesPerVar)
     ELSE UNCHANGED <<columns, allocated>>
  /\ Advance(0)

EndHeader ==
  /\ At("headerEnd")
  /\ Resize(reader.k, "map")
  /\ Unchanged(<<index, reader, strls, labels, mapped>>)

\* Version, byte order and two more bytes; K, N, label and timestamp.
ParseLegacyHeader ==
  /\ At("legacy")
  /\ \E k \in Field("K", 4), n \in Field("N", 6) :
       /\ Resize(k, "types")
       /\ reader' = [reader EXCEPT !.k = k, !.nObs = n]
  /\ Unchanged(<<index, strls, labels, mapped>>)

\* The length of the <data> tag before the rows.
DataTag == 6

\* Entries 9 to 11 of the 14.  The <data> tag is skipped, in 64 bits.
ParseMap ==
  /\ At("map")
  /\ pc' = "types"
  /\ \E data \in Field("dataAt", Body + 72), texts \in Field("strlsAt", Body + 80),
        tables \in Field("labelsAt", Body + 88) :
       reader' = [reader EXCEPT !.dataOffset = (data + DataTag) % Mod64,
                                !.strlsOffset = texts,
                                !.labelsOffset = tables]
  /\ Advance(0)
  /\ Unchanged(<<index, columns, strls, labels, mapped, allocated>>)

-----------------------------------------------------------------------------
(***************************************************************************)
(* The descriptors of the variables, in the same order in all formats:     *)
(* ParseVariableTypes to ParseVariableLabels, ParseLegacyDescriptors.      *)
(***************************************************************************)
Describe(point, next, described) ==
  /\ At(point)
  /\ pc' = next
  /\ columns' = described
  /\ Advance(0)
  /\ Unchanged(<<index, reader, strls, labels, mapped, allocated>>)

TypeOf(raw) == IF reader.modern THEN raw ELSE TranslateLegacyType(raw)

RawType(i) == Field("type", Body + (i - 1) * TypeBytes)

ParseVariableTypes ==
  /\ At("types")
  /\ \E raw \in [1 .. NumVars -> UNION {RawType(i) : i \in 1 .. NumVars}] :
       /\ \A i \in 1 .. NumVars : raw[i] \in RawType(i)
       /\ Describe("types",
            IF \A i \in 1 .. NumVars : TypeOf(raw[i]) \in KnownTypes
            THEN "names" ELSE "error",
            [i \in 1 .. NumVars |-> [columns[i] EXCEPT !.type = TypeOf(raw[i])]])

ParseVarnames ==
  Describe("names", "sortlist",
    [i \in 1 .. NumVars |->
       [columns[i] EXCEPT !.name = StringAt("name", Body + (i - 1) * P.name)]])

SkipSortlist == Skip("sortlist", "formats")
ParseFormats == Skip("formats", "labelNames")

ParseValueLabelNames ==
  Describe("labelNames", "varLabels",
    [i \in 1 .. NumVars |->
       [columns[i] EXCEPT !.labelName =
          StringAt("labelName", Body + (i - 1) * P.labelName)]])

\* Aliases are filtered out only now: they count in all the lists above.
Kept == {i \in 1 .. NumVars : ~P.aliases \/ columns[i].type # Alias}

ParseVariableLabels ==
  \E at \in [1 .. Cardinality(Kept) -> Kept] :
    /\ \A i, j \in DOMAIN at : i < j => at[i] < at[j]
    /\ Describe("varLabels", IF reader.modern THEN "characteristics" ELSE "expansion",
                [i \in 1 .. Cardinality(Kept) |-> columns[at[i]]])

SkipCharacteristics ==
  /\ pc = "characteristics"
  /\ pc' = "width"
  /\ pos' = reader.dataOffset
  /\ Unchanged(<<index, reader, columns, strls, labels, mapped, allocated>>)

\* An expansion field of a legacy file, or the one that ends them.
SkipExpansionField ==
  /\ At("expansion")
  /\ \E type \in Field("expansion", 0), len \in Field("expansionLength", 1) :
       IF type = 0 /\ len = 0
       THEN /\ pc' = "width"
            /\ Advance(0)
            /\ reader' = [reader EXCEPT !.dataOffset = pos']
       ELSE /\ Goto("expansion", len <= Size(file) - (pos + 5))
            /\ Advance(len)
            /\ UNCHANGED reader
  /\ Unchanged(<<index, columns, strls, labels, mapped, allocated>>)

-----------------------------------------------------------------------------
(***************************************************************************)
(* The end of the constructor: the width of a row, and whether the rows    *)
(* that were declared are in the file.                                     *)
(***************************************************************************)
AddWidth ==
  /\ pc = "width" /\ index <= NumVars
  /\ reader' = [reader EXCEPT !.rowWidth = @ + TypeWidth(columns[index].type)]
  /\ index' = index + 1
  /\ Unchanged(<<pc, pos, columns, strls, labels, mapped, allocated>>)

\* Mutants: the end of the rows computed by a product and a sum of 64 bits;
\* the bytes before the rows counted as room for them.
RowsFitByProduct ==
  (reader.dataOffset + reader.nObs * reader.rowWidth) % Mod64 <= Size(file)
RowsFitWholeFile ==
  reader.rowWidth > 0 => reader.nObs <= Size(file) \div reader.rowWidth

RowsFit ==
  /\ reader.dataOffset <= Size(file)
  /\ reader.rowWidth < Mod32
  /\ reader.rowWidth > 0 =>
       reader.nObs <= (Size(file) - reader.dataOffset) \div reader.rowWidth

CheckRows ==
  /\ pc = "width" /\ index > NumVars
  /\ Goto("bind", RowsFit)
  /\ reader' = IF Mapped \/ ~RowsFit THEN reader
               ELSE [reader EXCEPT !.labelsOffset =
                       reader.dataOffset + reader.nObs * reader.rowWidth]
  /\ Unchanged(<<pos, index, columns, strls, labels, mapped, allocated>>)

-----------------------------------------------------------------------------
(***************************************************************************)
(* ReadDtaBind and LoadValueLabels.                                        *)
(***************************************************************************)
HasStrLs == \E i \in 1 .. NumVars : columns[i].type = StrL

AfterLabels == IF HasStrLs THEN "seekStrLs" ELSE "columns"

ReadDtaBind ==
  /\ pc = "bind"
  /\ pc' = IF wantLabels THEN "labels" ELSE AfterLabels
  /\ pos' = IF wantLabels THEN reader.labelsOffset ELSE pos
  /\ index' = 1
  /\ Unchanged(<<reader, columns, strls, labels, mapped, allocated>>)

LoadValueLabels == Skip("labels", "nextTable")

\* The loops over label tables and strLs: another item, or the closing tag; a
\* marker that the end of the file cuts off ends them as well.
\* Mutant: there the loop goes on.
LoopGoesOn(after) == pc

CutOff(after) == after

NextItem(point, width, open, item, close, after) ==
  /\ pc = point
  /\ IF Remaining < width THEN pc' = CutOff(after)
     ELSE IF TagAt(pos, open) THEN pc' = item
     ELSE Goto(after, TagAt(pos, close))
  /\ pos' = IF pc' = item THEN pos + width ELSE pos
  /\ Unchanged(<<index, reader, columns, strls, labels, mapped, allocated>>)

\* Legacy files have a length, which is not used, for a marker.
NextLabelTable ==
  IF Mapped
  THEN NextItem("nextTable", 5, "<lbl>", "table", "</value_labels>", AfterLabels)
  ELSE NextItem("nextTable", 4, "", "table", "", AfterLabels)

\* ReadValueLabelTable.
LabelTableFits(n, txtlen, room) == n <= room \div 8 /\ txtlen <= room - n * 8

ReadLabelTable ==
  /\ At("table")
  /\ \E n \in Field("n", LabelTableHead), txtlen \in Field("txtlen", LabelTableHead + 4) :
       LET room == Remaining - (LabelTableHead + 8) IN
         /\ Goto("tableEnd", LabelTableFits(n, txtlen, room))
         /\ Advance(8 * n + txtlen)
         /\ IF LabelTableFits(n, txtlen, room)
            THEN /\ labels' = Append(labels,
                      [name |-> StringAt("labelName", LabelTableHead - P.labelName - 3),
                       n |-> n, txtlen |-> txtlen,
                       body |-> StringAt("labels", LabelTableHead + 8)])
                 /\ allocated' = Larger(allocated, 8 * n + txtlen)
            ELSE UNCHANGED <<labels, allocated>>
  /\ Unchanged(<<index, reader, columns, strls, mapped>>)

EndLabelTable == Skip("tableEnd", "nextTable")

-----------------------------------------------------------------------------
(***************************************************************************)
(* LoadStrLs.                                                              *)
(***************************************************************************)
SeekStrLs ==
  /\ pc = "seekStrLs"
  /\ pc' = "strls"
  /\ pos' = reader.strlsOffset
  /\ Unchanged(<<index, reader, columns, strls, labels, mapped, allocated>>)

LoadStrLs == Skip("strls", "nextStrL")

NextStrL == NextItem("nextStrL", 3, "GSO", "strl", "</strls>", "columns")

StrLFits(len, room) == len <= room

\* The strL replaces one with the same reference.
ReadStrL ==
  /\ At("strl")
  /\ \E len \in Field("strlLength", StrLHead - 4) :
       LET fits == StrLFits(len, Remaining - StrLHead)
           ref == StringAt("ref", 0)
       IN
         /\ Goto("nextStrL", fits)
         /\ Advance(len)
         /\ strls' = IF fits THEN [r \in DOMAIN strls \cup {ref} |->
                                   IF r = ref THEN StringAt("strl", StrLHead)
                                   ELSE strls[r]]
                     ELSE strls
         /\ allocated' = IF fits THEN Larger(allocated, len) ELSE allocated
  /\ Unchanged(<<index, reader, columns, labels, mapped>>)

-----------------------------------------------------------------------------
(***************************************************************************)
(* The rest of the bind: offsets of the columns and their label tables, of *)
(* which the first with the name is taken.                                 *)
(***************************************************************************)
NoTable == 0

TableIn(tables, name) ==
  LET named == {i \in DOMAIN tables : tables[i].name = name}
  IN  IF name = "" \/ named = {} THEN NoTable
      ELSE CHOOSE i \in named : \A j \in named : i <= j

TableOf(column) == IF wantLabels THEN TableIn(labels, column.labelName) ELSE NoTable

\* Columns of strings stay VARCHAR, numeric ones with a table become an ENUM.
IsString(type) == type \in 1 .. MaxStr \/ type = StrL

\* Whether the ENUM of a column would have a text twice.
EnumRepeats(column, tables, i) ==
  IF IsString(column.type) \/ i = NoTable THEN {FALSE} ELSE Repeats(tables[i])

TextsRepeat == EnumRepeats(columns[index], labels, TableOf(columns[index]))

\* Mutant: an offset that counts columns.
OffsetByIndex == index - 1

ColumnOffset ==
  IF index = 1 THEN 0
  ELSE mapped[index - 1].offset + TypeWidth(columns[index - 1].type)

MapColumn ==
  /\ pc = "columns" /\ index <= NumVars
  /\ FALSE \in TextsRepeat
  /\ mapped' = Append(mapped, [offset |-> ColumnOffset, table |-> TableOf(columns[index])])
  /\ index' = index + 1
  /\ Unchanged(<<pc, pos, reader, columns, strls, labels, allocated>>)

\* LogicalType::ENUM does not take a text twice.
EnumThrows ==
  /\ pc = "columns" /\ index <= NumVars
  /\ TRUE \in TextsRepeat
  /\ pc' = "error"
  /\ Unchanged(<<pos, index, reader, columns, strls, labels, mapped, allocated>>)

BindReturns ==
  /\ pc = "columns" /\ index > NumVars
  /\ pc' = "bound"
  /\ Unchanged(<<pos, index, reader, columns, strls, labels, mapped, allocated>>)

Over ==
  /\ pc \in {"bound", "error"}
  /\ UNCHANGED vars

ParseHeader ==
  \/ ParseRelease \/ SkipByteorder \/ ParseK \/ ParseN \/ ParseDatasetLabel
  \/ DatasetLabelText \/ ParseTimestamp \/ EndHeader

ParseDescriptors ==
  \/ ParseVariableTypes \/ ParseVarnames \/ SkipSortlist \/ ParseFormats
  \/ ParseValueLabelNames \/ ParseVariableLabels

Construct ==
  \/ ReadFirstByte \/ ParseHeader \/ ParseMap \/ ParseLegacyHeader \/ ParseDescriptors
  \/ SkipCharacteristics \/ SkipExpansionField \/ AddWidth \/ CheckRows

LoadTables ==
  \/ LoadValueLabels \/ NextLabelTable \/ ReadLabelTable \/ EndLabelTable
  \/ SeekStrLs \/ LoadStrLs \/ NextStrL \/ ReadStrL

Bind == ReadDtaBind \/ MapColumn \/ EnumThrows \/ BindReturns

Step == Construct \/ LoadTables \/ Bind \/ ReadFails

Next == Step \/ Over

\* The call goes on until it returns or throws.
Fairness == WF_vars(Step)

Spec == Init /\ [][Next]_vars
FairSpec == Spec /\ Fairness
-----------------------------------------------------------------------------
(***************************************************************************)
(* Properties.                                                             *)
(***************************************************************************)
Damage == Source(file).damage
Bound == pc = "bound"

\* The fields keep their types in every file: offsets stay in 64 bits, columns
\* whose types were read have one that takes bytes in a row, unless they are
\* aliases, and there are no more of them than the header declares.
TypeOK ==
  /\ wantLabels \in BOOLEAN
  /\ pc \in ReadPoints \cup {"characteristics", "width", "bind", "nextTable",
                             "seekStrLs", "nextStrL", "columns", "bound", "error"}
  /\ pos \in Nat /\ allocated \in Nat
  /\ index \in 1 .. NumVars + 1
  /\ reader.version \in Nat /\ reader.modern \in BOOLEAN
  /\ reader.dataOffset \in 0 .. Mod64 - 1 /\ reader.labelsOffset \in 0 .. Mod64 - 1
  /\ \A field \in {"k", "length", "nObs", "strlsOffset", "rowWidth"} :
       reader[field] \in Nat
  /\ NumVars <= reader.k
  /\ pc # "error" => \A i \in 1 .. NumVars :
       columns[i].type \in {0, Alias} \/ TypeWidth(columns[i].type) > 0
  /\ Len(mapped) <= NumVars
  /\ \A i \in 1 .. Len(mapped) :
       mapped[i].offset \in Nat /\ mapped[i].table \in 0 .. Len(labels)

\* Once read_dta is bound, whatever the file says of itself, the cells of every
\* column in every row that scans will claim lie in the file and within one
\* row, and no two columns share bytes: the reads of ReadRows and the copies
\* from the row buffer rely on the checks of the constructor and make none.
ScansStayInFile ==
  Bound => \A c \in 1 .. NumVars :
    LET cellEnd == mapped[c].offset + TypeWidth(columns[c].type) IN
      /\ cellEnd <= reader.rowWidth
      /\ \A d \in c + 1 .. NumVars : cellEnd <= mapped[d].offset
      /\ reader.nObs > 0 /\ reader.rowWidth > 0 =>
           reader.dataOffset + (reader.nObs - 1) * reader.rowWidth + cellEnd
             <= Size(file)

\* A numeric column has a label table that may have a text twice.
HasRepeats(table) ==
  \E i \in DOMAIN table.columns :
    TRUE \in EnumRepeats(table.columns[i], table.labels,
                         TableIn(table.labels, table.columns[i].labelName))

\* A file that is whole opens, in every format, with one exception: each list
\* and section is found where the one before it ended.  The exception is the
\* throw of LogicalType::ENUM: with value_labels, a file does not open when a
\* numeric column has a label table with the same text for two values.  Texts
\* that repeat in tables of no column, or of columns of strings, do not matter.
WholeFilesOpen ==
  Damage = "none" /\ pc = "error" => wantLabels /\ HasRepeats(Source(file))

IsStartOf(s, t) == Len(s) <= Len(t) /\ s = SubSeq(t, 1, Len(s))

\* A whole file, or one that was cut off anywhere, is bound only as the table
\* it was made from: its rows, which are all in the file, and its columns but
\* for aliases, under their own names, types and labels.  What a file that was
\* cut off may lack is strings and label tables at its end, not in the middle.
OpenedTablesAreTrue ==
  Bound /\ Damage \in {"none", "cut"} =>
    LET table == Source(file) IN
      /\ reader.nObs = table.nObs
      /\ columns = table.columns
      /\ reader.dataOffset = table.dataOffset
      /\ reader.dataOffset + table.nObs * reader.rowWidth <= Size(file)
      /\ \A ref \in DOMAIN strls :
           ref \in DOMAIN table.strls /\ strls[ref] = table.strls[ref]
      /\ IsStartOf(labels, table.labels)
      /\ Damage = "none" => /\ HasStrLs => strls = table.strls
                            /\ wantLabels => labels = table.labels

\* test/sql/error_handling.test says that size fields which exceed the actual
\* file size must error: a count of variables or rows, an offset of the rows or
\* the length of a strL or of an expansion field that the file has no room for
\* is never bound, be it one too many or so large that the products of counts
\* and widths wrap in 64 bits.  This is not so of one sum: ParseMap adds the 6
\* bytes of <data> to an offset in 64 bits, and the last 6 offsets wrap to one
\* before the 6th byte, from which rows may fit.  ScansStayInFile holds for them.
\* The sizes in label tables are looked at with value_labels only.
ExcessIsRejected ==
  Bound => /\ Damage = "excess" => reader.dataOffset < DataTag
           /\ wantLabels => Damage # "label excess"

\* ... instead of allocating: no size read from a file is allocated before it
\* is known to be in the file, the 16-bit length of the dataset label apart.
AllocationsFitFile == allocated <= Larger(Size(file), MaxLength)

\* The loops over expansion fields, label tables, strLs and columns end, also
\* where the file breaks off between two items.
OpenEnds == <>(pc \in {"bound", "error"})
=============================================================================
