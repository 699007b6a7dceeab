------------------------------ MODULE DtaFile ------------------------------
(***************************************************************************)
(* A .dta file of format 119 as the writer lays it out                     *)
(* (src/src/dta_writer.cpp) and what read_dta makes of any prefix of one   *)
(* (src/src/dta_reader.cpp, src/src/read_dta_function.cpp).                *)
(*                                                                         *)
(* Abstractions.  The file is a sequence of tokens, each a tag, a field    *)
(* of the header, a data cell, a strL (GSO) or a value label table, and a  *)
(* file position counts tokens.  Of the map only the three entries the     *)
(* reader uses are kept, and the descriptors (types to characteristics)    *)
(* are one token.  Strings, numbers and labels are opaque values.          *)
(***************************************************************************)
EXTENDS Integers, Sequences, FiniteSets

CONSTANTS
  Columns,      \* the kind of each column: "str" (strL), "num" or "enum"
  Dictionary,   \* the label of each code of an ENUM column
  VMod,         \* 2^24: the values the column part of a strL reference takes
  OMod,         \* 2^40: the values its observation part takes
  Null,         \* SQL NULL
  Garbage       \* a value decoded from bytes that are not a cell

ASSUME ColumnsAssumption ==
  Columns \in Seq({"str", "num", "enum"}) /\ Columns # <<>>
ASSUME ReferenceAssumption == VMod \in Nat \ {0} /\ OMod \in Nat \ {0}
ASSUME DictionaryAssumption == Null \notin DOMAIN Dictionary

ColumnIds == DOMAIN Columns
RowWidth == Len(Columns)

Tag(name) == [kind |-> name]
ObsCount(n) == [kind |-> "N", n |-> n]
MapEntry(pos) == [kind |-> "map", pos |-> pos]

-----------------------------------------------------------------------------
(***************************************************************************)
(* The layout up to the first row, N and the map holding placeholders, and *)
(* where those are in the sequence.                                        *)
(***************************************************************************)
Metadata == << Tag("<stata_dta>"), ObsCount(0),
               MapEntry(0), MapEntry(0), MapEntry(0),
               Tag("descriptors"), Tag("<data>") >>
ObsSlot == 2
DataSlot == 3
StrLsSlot == 4
LabelsSlot == 5

\* Columns of kind "enum", in their order, name a label table after themselves.
EnumColumns == {c \in ColumnIds : Columns[c] = "enum"}
EnumColumn(i) ==
  CHOOSE c \in EnumColumns : Cardinality({d \in EnumColumns : d <= c}) = i

LabelTables ==
  [i \in 1 .. Cardinality(EnumColumns) |->
     [kind |-> "lbl", name |-> EnumColumn(i), mappings |-> Dictionary]]

-----------------------------------------------------------------------------
(***************************************************************************)
(* Reading.  A read past the end of the file finds no token.               *)
(***************************************************************************)
TokenAt(file, pos) == IF pos < Len(file) THEN file[pos + 1] ELSE Tag("eof")

\* A section is its tag, its items and its closing tag.  A section cut off
\* between two items is accepted, as the loops over items stop at the end of
\* the file; one that continues with another token is an error.
FirstOther(file, pos, item) ==
  CHOOSE e \in pos + 1 .. pos + 1 + Len(file) :
    /\ TokenAt(file, e).kind # item
    /\ \A i \in pos + 1 .. e - 1 : TokenAt(file, i).kind = item

SectionLoads(file, pos, open, item, close) ==
  /\ TokenAt(file, pos).kind = open
  /\ TokenAt(file, FirstOther(file, pos, item)).kind \in {close, "eof"}

Items(file, pos, item) == pos + 1 .. FirstOther(file, pos, item) - 1

NumObs(file) == file[ObsSlot].n
\* Mutant: the rows begin at the <data> tag itself.
DataTagNotSkipped(file) == file[DataSlot].pos

DataOffset(file) == file[DataSlot].pos + 1

\* The header, the map and the descriptors are complete, and the rows N
\* declares fit between the data offset and the end of the file.
ReaderOpens(file) ==
  /\ Len(file) >= Len(Metadata) - 1
  /\ DataOffset(file) <= Len(file)
  /\ NumObs(file) <= (Len(file) - DataOffset(file)) \div RowWidth

HasStrLs == \E c \in ColumnIds : Columns[c] = "str"

\* The bind of read_dta, with the option value_labels or without.
BindSucceeds(file, labels) ==
  /\ ReaderOpens(file)
  /\ labels => SectionLoads(file, file[LabelsSlot].pos,
                            "<value_labels>", "lbl", "</value_labels>")
  /\ HasStrLs => SectionLoads(file, file[StrLsSlot].pos,
                              "<strls>", "GSO", "</strls>")

\* The key of the strL table: v in its top bytes, o in the others.
StrLKey(v, o) == <<v % VMod, o % OMod>>

\* Of two strLs with one key the later replaces the earlier; a key that is
\* not in the table is the empty string.
ResolveStrL(file, key) ==
  LET hits == {i \in Items(file, file[StrLsSlot].pos, "GSO") :
                 StrLKey(file[i + 1].v, file[i + 1].o) = key}
  IN  IF hits = {} THEN ""
      ELSE file[(CHOOSE i \in hits : \A j \in hits : j <= i) + 1].value

\* The label of a code: the first table named after the column has it.
LabelOf(file, c, code) ==
  LET tables == {i \in Items(file, file[LabelsSlot].pos, "lbl") :
                   file[i + 1].name = c}
      first == CHOOSE i \in tables : \A j \in tables : i <= j
  IN  IF tables = {} THEN code
      ELSE IF code \in DOMAIN file[first + 1].mappings
           THEN file[first + 1].mappings[code]
           ELSE Null

DecodeCell(file, c, cell, labels) ==
  IF cell.kind # Columns[c] THEN Garbage
  ELSE CASE Columns[c] = "str" -> IF cell.ref = <<0, 0>> THEN Null
                                  ELSE ResolveStrL(file, cell.ref)
         [] Columns[c] = "enum" /\ labels /\ cell.value # Null ->
              LabelOf(file, c, cell.value)
         [] OTHER -> cell.value

\* What a query over the whole file sees.
ReadBack(file, labels) ==
  [ok   |-> BindSucceeds(file, labels),
   rows |-> IF BindSucceeds(file, labels)
            THEN [i \in 1 .. NumObs(file) |->
                    [c \in ColumnIds |->
                       DecodeCell(file, c,
                         TokenAt(file, DataOffset(file) + (i - 1) * RowWidth + c - 1),
                         labels)]]
            ELSE <<>>]

-----------------------------------------------------------------------------
(***************************************************************************)
(* What the reader should show for a row that was written: the row, except *)
(* that an empty string comes back as NULL, and that an ENUM value comes   *)
(* back as its code when value labels are not asked for.                   *)
(***************************************************************************)
CodeOf(label) == CHOOSE code \in DOMAIN Dictionary : Dictionary[code] = label

ShownValue(c, value, labels) ==
  IF value = Null \/ (Columns[c] = "str" /\ value = "") THEN Null
  ELSE IF Columns[c] = "enum" /\ ~labels THEN CodeOf(value)
  ELSE value

Shown(rows, labels) ==
  [i \in DOMAIN rows |-> [c \in ColumnIds |-> ShownValue(c, rows[i][c], labels)]]
=============================================================================
