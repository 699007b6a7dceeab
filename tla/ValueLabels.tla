---------------------------- MODULE ValueLabels ----------------------------
(***************************************************************************)
(* Value labels: the tables COPY TO writes for ENUM columns, or those of   *)
(* another program's file, read by read_dta with value_labels=true into    *)
(* ENUM types and indexes, and the cells of a column decoded with them     *)
(* (src/src/dta_writer.cpp, src/src/dta_reader.cpp, WriteDtaBind,          *)
(* ReadDtaBind and ReadDtaScan).                                           *)
(*                                                                         *)
(* Names and texts are sequences of bytes, of which only NUL matters.  A   *)
(* name field of NameField bytes (129) is scaled down.  A cell of a label  *)
(* column is missing or a number of halves, so that a floating one need    *)
(* not be whole; Int32Max scales down what FitsInInt32 lets through.       *)
(***************************************************************************)
EXTENDS Integers, Sequences, FiniteSets, SequencesExt

CONSTANTS
  Copied,         \* the columns a COPY may write: sequences of [name, texts]
  Foreign,        \* other files: [columns, tables], columns as [labelName, floating]
  Halves,         \* the numbers of halves a cell may hold
  Int32Max,
  NameField,      \* bytes of a name field of the file
  Bytes,
  NUL, Outside,   \* the byte 0, and bytes that are not in the text of a table
  Null

Int32 == -Int32Max - 1 .. Int32Max
Names == Seq(Bytes \ {NUL})
Tables == [name : Names, entries : Seq([off : Nat, val : Int32]), txt : Seq(Bytes)]

\* A column has a name; an ENUM has a text once, and its positions fit 32 bits.
ASSUME LabelsAssumption ==
  /\ NUL \in Bytes /\ Outside \notin Bytes /\ Null \notin Seq(Bytes) \cup Int
  /\ NameField \in Nat /\ NameField > 1 /\ Int32Max \in Nat /\ Halves \subseteq Int
  /\ Copied \subseteq Seq([name : Names \ {<<>>}, texts : Seq(Seq(Bytes))])
  /\ \A columns \in Copied : \A c \in DOMAIN columns :
       Len(columns[c].texts) <= Int32Max + 1 /\ IsInjective(columns[c].texts)
  /\ Foreign \subseteq [columns : Seq([labelName : Names, floating : BOOLEAN]),
                        tables : Seq(Tables)]

VARIABLES
  source,         \* the COPY or the foreign file: what is known of the file
  written,        \* number of the tables written
  file,           \* the label sections: [columns, tables]
  labels,         \* DtaReader::value_labels_
  bound,          \* return type and enum index of each column bound so far
  shown,          \* a column, a cell of it and what read_dta shows
  pc              \* "write", "read", "bind", "scan", "done" or "error"

vars == <<source, written, file, labels, bound, shown, pc>>

-----------------------------------------------------------------------------
(***************************************************************************)
(* WriteFixed, and the table of an ENUM column: WriteDtaBind numbers the   *)
(* texts, Finalize lays them out one after the other.                      *)
(***************************************************************************)
First(s, n) == SubSeq(s, 1, Min({n, Len(s)}))

\* Mutant: a name may fill its field, without a NUL.
FieldWithoutNul(s) == First(s, NameField)

Field(s) == First(s, NameField - 1)

\* Mutant: the NUL after each text is not counted.
TextOffsetWithoutNul(texts, i) == Len(FlattenSeq(SubSeq(texts, 1, i - 1)))

Blob(texts) == FlattenSeq([i \in 1 .. Len(texts) |-> Append(texts[i], NUL)])
TextOffset(texts, i) == Len(Blob(SubSeq(texts, 1, i - 1)))

TableFor(c) ==
  [name |-> Field(c.name),
   entries |-> [i \in 1 .. Len(c.texts) |->
                  [off |-> TextOffset(c.texts, i), val |-> i - 1]],
   txt |-> Blob(c.texts)]

Init ==
  /\ \/ \E columns \in Copied :
          /\ source = [copied |-> TRUE, columns |-> columns]
          /\ file = [columns |-> [i \in 1 .. Len(columns) |->
                                    [labelName |-> Field(columns[i].name),
                                     floating |-> FALSE]],
                     tables |-> <<>>]
          /\ pc = "write"
     \/ /\ file \in Foreign
        /\ source = [copied |-> FALSE, columns |-> file.columns]
        /\ pc = "read"
  /\ written = 0
  /\ labels = <<>>
  /\ bound = <<>>
  /\ shown = <<>>

Finalize ==
  /\ pc = "write"
  /\ IF written < Len(source.columns)
     THEN /\ file' = [file EXCEPT !.tables =
                        Append(@, TableFor(source.columns[written + 1]))]
          /\ written' = written + 1
          /\ UNCHANGED pc
     ELSE /\ pc' = "read"
          /\ UNCHANGED <<file, written>>
  /\ UNCHANGED <<source, labels, bound, shown>>

-----------------------------------------------------------------------------
(***************************************************************************)
(* ReadValueLabelTable.                                                    *)
(***************************************************************************)
\* Mutant: the search for the NUL is given the length of the whole text.
WholeText(t, off) == Len(t.txt)

ScanLimit(t, off) == Len(t.txt) - off

\* The text that strnlen finds at an offset.
TextAt(t, off) ==
  LET byte(k) == IF off + k <= Len(t.txt) THEN t.txt[off + k] ELSE Outside
      ends == {k \in 0 .. ScanLimit(t, off) :
                 k = ScanLimit(t, off) \/ byte(k + 1) = NUL}
      len == CHOOSE k \in ends : \A j \in ends : k <= j
  IN  [k \in 1 .. len |-> byte(k)]

\* Entries whose offset leaves the text are left out; of several with the same
\* value, the last stays.
Mappings(t) ==
  LET kept == {i \in 1 .. Len(t.entries) : t.entries[i].off < Len(t.txt)}
      OfValue(v) == {i \in kept : t.entries[i].val = v}
      last(v) == CHOOSE i \in OfValue(v) : \A j \in OfValue(v) : j <= i
  IN  [v \in {t.entries[i].val : i \in kept} |-> TextAt(t, t.entries[last(v)].off)]

LoadValueLabels ==
  /\ pc = "read"
  /\ IF Len(labels) < Len(file.tables)
     THEN LET t == file.tables[Len(labels) + 1] IN
            /\ labels' = Append(labels, [name |-> t.name, mappings |-> Mappings(t)])
            /\ UNCHANGED pc
     ELSE /\ pc' = "bind"
          /\ UNCHANGED labels
  /\ UNCHANGED <<source, written, file, bound, shown>>

-----------------------------------------------------------------------------
(***************************************************************************)
(* ReadDtaBind: the first table of the name, the ENUM in the order of the  *)
(* values, and the position of each value in it.                           *)
(***************************************************************************)
\* Mutant: tables that come later win.
LastTable(tables) == CHOOSE i \in tables : \A j \in tables : j <= i

FirstTable(tables) == CHOOSE i \in tables : \A j \in tables : i <= j

MappingsOf(name) ==
  LET tables == {i \in 1 .. Len(labels) : labels[i].name = name} IN
    IF name = <<>> \/ tables = {} THEN <<>> ELSE labels[FirstTable(tables)].mappings

\* The values in ascending order, each at its rank.
SortedValues(m) ==
  [i \in 1 .. Cardinality(DOMAIN m) |->
     CHOOSE v \in DOMAIN m : Cardinality({w \in DOMAIN m : w <= v}) = i]

\* col_enum_index
EnumIndex(m) == [v \in DOMAIN m |-> CHOOSE i \in 1 .. Len(SortedValues(m)) :
                                      SortedValues(m)[i] = v]

\* MapDtaType: the texts of the ENUM, none for a plain type.
EnumTexts(m) == [i \in 1 .. Len(SortedValues(m)) |-> m[SortedValues(m)[i]]]

\* An ENUM type does not have a text twice.
EngineAccepts(texts) == IsInjective(texts)

BindColumn ==
  /\ pc = "bind" /\ Len(bound) < Len(file.columns)
  /\ LET m == MappingsOf(file.columns[Len(bound) + 1].labelName) IN
       IF EngineAccepts(EnumTexts(m))
       THEN /\ bound' = Append(bound, [texts |-> EnumTexts(m), index |-> EnumIndex(m)])
            /\ UNCHANGED pc
       ELSE /\ pc' = "error"
            /\ UNCHANGED bound
  /\ UNCHANGED <<source, written, file, labels, shown>>

BindReturns ==
  /\ pc = "bind" /\ Len(bound) = Len(file.columns)
  /\ pc' = "scan"
  /\ UNCHANGED <<source, written, file, labels, bound, shown>>

-----------------------------------------------------------------------------
(***************************************************************************)
(* A cell of a column that is an ENUM: missing values first, then numbers  *)
(* outside 32 bits, then write_enum of the whole part.                     *)
(***************************************************************************)
WholePart(halves) == IF halves >= 0 THEN halves \div 2 ELSE -((-halves) \div 2)

FitsInInt32(halves) == -2 * (Int32Max + 1) <= halves /\ halves < 2 * (Int32Max + 1)

Decoded(b, cell) ==
  IF cell = Null \/ ~FitsInInt32(cell) THEN Null
  ELSE IF WholePart(cell) \notin DOMAIN b.index THEN Null
  ELSE b.texts[b.index[WholePart(cell)]]

\* What a column may hold: ENUM positions where COPY wrote it.
Cells(c) ==
  {Null} \cup
  IF source.copied THEN {2 * (i - 1) : i \in 1 .. Len(source.columns[c].texts)}
  ELSE {h \in Halves : file.columns[c].floating \/ (h % 2 = 0 /\ FitsInInt32(h))}

ReadCell ==
  /\ pc = "scan"
  /\ \E c \in 1 .. Len(file.columns) : \E cell \in Cells(c) :
       /\ bound[c].texts # <<>>
       /\ shown' = [column |-> c, cell |-> cell, text |-> Decoded(bound[c], cell)]
  /\ pc' = "done"
  /\ UNCHANGED <<source, written, file, labels, bound>>

Next == Finalize \/ LoadValueLabels \/ BindColumn \/ BindReturns \/ ReadCell

Spec == Init /\ [][Next]_vars

-----------------------------------------------------------------------------
(***************************************************************************)
(* Properties.                                                             *)
(***************************************************************************)
\* An earlier column whose name agrees with that of c in all bytes the file keeps.
Shadowed(c) ==
  \E d \in 1 .. c - 1 : First(source.columns[d].name, NameField - 1)
                        = First(source.columns[c].name, NameField - 1)

\* Names fit their fields; a column that is bound has the texts of one table,
\* none twice, and an index into them for each of their values.
TypeOK ==
  /\ pc \in {"write", "read", "bind", "scan", "done", "error"}
  /\ source.copied =>
       \A i \in 1 .. Len(file.tables) : Len(file.tables[i].name) < NameField
  /\ Len(bound) <= Len(file.columns) /\ written <= Len(source.columns)
  /\ \A c \in 1 .. Len(bound) :
       /\ IsInjective(bound[c].texts)
       /\ {bound[c].index[v] : v \in DOMAIN bound[c].index} = 1 .. Len(bound[c].texts)

\* What a text that ends at its first NUL is read as.
Kept(text) ==
  SubSeq(text, 1, CHOOSE n \in 0 .. Len(text) :
                    /\ \A k \in 1 .. n : text[k] # NUL
                    /\ n < Len(text) => text[n + 1] = NUL)
KeptTexts(c) == [i \in 1 .. Len(source.columns[c].texts) |->
                   Kept(source.columns[c].texts[i])]

\* An ENUM column that COPY wrote is bound as the ENUM it was, with the same
\* texts up to a NUL in the same order, empty ones and others' prefixes among
\* them, and its cells read back as the texts they were; unless the bytes that
\* the file keeps of its name are those of an earlier column, whose texts it
\* then gets.  Only ENUMs with texts that agree up to a NUL are not bound.
EnumsSurvive ==
  source.copied =>
    /\ pc = "error" =>
         \E c \in 1 .. Len(source.columns) : ~IsInjective(KeptTexts(c))
    /\ \A c \in 1 .. Len(bound) : ~Shadowed(c) => bound[c].texts = KeptTexts(c)
    /\ pc = "done" /\ ~Shadowed(shown.column) =>
         shown.text = IF shown.cell = Null THEN Null
                      ELSE KeptTexts(shown.column)[shown.cell \div 2 + 1]

\* test/sql/error_handling.test has a text without its NUL "truncated at the end
\* of the text blob instead of reading past it".  Whatever offsets and texts a
\* table holds, no label has bytes from outside the text of its table.
TextsStayInBlob ==
  \A i \in 1 .. Len(labels) : \A v \in DOMAIN labels[i].mappings :
    \A k \in 1 .. Len(labels[i].mappings[v]) : labels[i].mappings[v][k] # Outside

\* The text of a table that belongs to a value, from the table alone.
IsLabelOf(t, v, text) ==
  \E i \in 1 .. Len(t.entries) :
    LET off == t.entries[i].off IN
      /\ t.entries[i].val = v /\ off < Len(t.txt)
      /\ \A j \in i + 1 .. Len(t.entries) :
           t.entries[j].val # v \/ t.entries[j].off >= Len(t.txt)
      /\ off + Len(text) <= Len(t.txt)
      /\ text = SubSeq(t.txt, off + 1, off + Len(text))
      /\ \A k \in 1 .. Len(text) : text[k] # NUL
      /\ off + Len(text) < Len(t.txt) => t.txt[off + Len(text) + 1] = NUL

\* In a file of any program a cell is never shown under the label of another
\* value: it shows the label that the first table of the column's name has for
\* its whole part, and NULL only when it is missing, there is none, or it is a
\* fraction less than the least 32-bit integer, to which it would be rounded.
CellsShowTheirLabel ==
  pc = "done" =>
    LET name == file.columns[shown.column].labelName
        named == {i \in 1 .. Len(file.tables) : file.tables[i].name = name}
        t == file.tables[CHOOSE i \in named : \A j \in named : i <= j]
    IN
      IF shown.text # Null
      THEN shown.cell # Null /\ IsLabelOf(t, WholePart(shown.cell), shown.text)
      ELSE \/ shown.cell = Null \/ shown.cell < -2 * (Int32Max + 1)
           \/ \A i \in 1 .. Len(t.entries) :
                t.entries[i].val = WholePart(shown.cell)
                  => t.entries[i].off >= Len(t.txt)
=============================================================================
