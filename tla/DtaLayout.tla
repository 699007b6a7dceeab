------------------------------ MODULE DtaLayout ------------------------------
(***************************************************************************)
(* What a .dta file holds and where: the layout of a table in formats 113  *)
(* to 115 and 117 to 121, as other programs write it.  DtaOpen opens any   *)
(* sequence of bytes; here its constants are tied to each other: a whole   *)
(* file is the layout of its table, one that was cut off is the beginning  *)
(* of one, and in one with an excess some sizes exceed the room for them.  *)
(*                                                                         *)
(* Source(f) is the table a file was made from: its version, variables     *)
(* (with the type codes of the format), nObs, the lengths label, timestamp *)
(* and expansions, the strLs texts, the label tables, its size in bytes;   *)
(* what should be read (columns, dataOffset, strls, labels); and where it  *)
(* lies: at (by section), expansionAt, textAt, tableAt, and cell, the end  *)
(* of each column in a row.                                                *)
(***************************************************************************)
EXTENDS DtaOpen

ASSUME TagLengthAssumption ==
  /\ TagLen("") = 0 /\ TagLen("GSO") = 3 /\ TagLen("<lbl>") = 5
  /\ TagLen("</strls>") \in Nat /\ TagLen("</value_labels>") \in Nat

Sound == {"none", "cut"}
Described == Sound \cup {"excess", "label excess"}

IsModern(t) == t.version >= 117
Tagged(t, tag) == IF IsModern(t) THEN tag ELSE ""

Is(f, p, kind, value) ==
  p \in DOMAIN Content(f) /\ Content(f)[p] = [kind |-> kind, value |-> value]

\* A field whose value, in a file with an excess, may be more than the most
\* that the file has room for.
Exceeds(f, p, most) == Content(f)[p].value > most

Sized(f, p, kind, value, most) ==
  /\ p \in DOMAIN Content(f) /\ Content(f)[p].kind = kind
  /\ Content(f)[p].value = value \/ (Source(f).damage \notin Sound /\ Exceeds(f, p, most))

\* A section from p to next: bytes between an opening and a closing tag.
Section(f, p, open, bytes, close, next) ==
  /\ open # "" => Is(f, p, "tag", open)
  /\ close # "" => Is(f, p + TagLen(open) + bytes, "tag", close)
  /\ next = p + TagLen(open) + bytes + TagLen(close)
  /\ next <= Source(f).size

-----------------------------------------------------------------------------
(***************************************************************************)
(* The header, with the numbers of variables and rows.                     *)
(***************************************************************************)
BytesPerVariable(v) ==
  LET w == Params(v)
  IN  (IF v >= 117 THEN 2 ELSE 1) + w.name + w.format + w.labelName + w.varLabel

RowWidth(t) == t.cell[Len(t.columns)]

KAt(t) == IF IsModern(t) THEN t.at.K + TagLen("<K>") ELSE 4
NAt(t) == IF IsModern(t) THEN t.at.N + TagLen("<N>") ELSE 6
MapEntryAt(t, i) == t.at.map + TagLen("<map>") + 8 * i

MostVariables(f) == Size(f) \div BytesPerVariable(Source(f).version)
MostRows(f) ==
  LET t == Source(f)
  IN  IF RowWidth(t) = 0 THEN 0 ELSE (Size(f) - t.dataOffset) \div RowWidth(t)
MostData(f) == Size(f) - DataTag

ModernHeader(f) ==
  LET t == Source(f)
      w == Params(t.version)
  IN
    /\ t.at.release = 0
    /\ Section(f, t.at.release, "<stata_dta><header><release>", 3, "</release>", t.at.byteorder)
    /\ Is(f, TagLen("<stata_dta><header><release>"), "version", t.version)
    /\ Section(f, t.at.byteorder, "<byteorder>", 3, "</byteorder>", t.at.K)
    /\ Section(f, t.at.K, "<K>", w.k, "</K>", t.at.N)
    /\ Section(f, t.at.N, "<N>", w.n, "</N>", t.at.label)
    /\ Section(f, t.at.label, "<label>", w.dataLabel, "", t.at.labelText)
    /\ Is(f, t.at.label + TagLen("<label>"), "length", t.label)
    /\ Section(f, t.at.labelText, "", t.label, "</label>", t.at.timestamp)
    /\ Section(f, t.at.timestamp, "<timestamp>", 1, "", t.at.headerEnd)
    /\ Is(f, t.at.timestamp + TagLen("<timestamp>"), "length", t.timestamp)
    /\ Section(f, t.at.headerEnd, "", t.timestamp, "</timestamp></header>", t.at.map)
    /\ Section(f, t.at.map, "<map>", 112, "</map>", t.at.types)
    /\ Sized(f, MapEntryAt(t, 9), "dataAt", t.at.data, MostData(f))
    /\ Is(f, MapEntryAt(t, 10), "strlsAt", t.at.strls)
    /\ Is(f, MapEntryAt(t, 11), "labelsAt", t.at.labels)
    /\ t.dataOffset = t.at.data + DataTag

LegacyHeader(f) ==
  LET t == Source(f) IN
    /\ t.at.legacy = 0
    /\ Is(f, 0, "version", t.version)
    /\ Section(f, 0, "", 109, "", t.at.types)

Header(f) ==
  LET t == Source(f) IN
    /\ t.version \in Versions
    /\ t.at.first = 0 /\ t.size >= 1
    /\ IF IsModern(t) THEN ModernHeader(f) ELSE LegacyHeader(f)
    /\ Sized(f, KAt(t), "K", Len(t.variables), MostVariables(f))
    /\ Sized(f, NAt(t), "N", t.nObs, MostRows(f))

-----------------------------------------------------------------------------
(***************************************************************************)
(* The descriptors of the variables, and the columns read from them.       *)
(***************************************************************************)
EntryAt(t, p, open, i, width) == p + TagLen(Tagged(t, open)) + (i - 1) * width

Descriptors(f) ==
  LET t == Source(f)
      w == Params(t.version)
      n == Len(t.variables)
      typeWidth == IF IsModern(t) THEN 2 ELSE 1
      Listing(p, open, bytes, close, next) ==
        Section(f, p, Tagged(t, open), bytes, Tagged(t, close), next)
  IN
    /\ Listing(t.at.types, "<variable_types>", n * typeWidth, "</variable_types>", t.at.names)
    /\ Listing(t.at.names, "<varnames>", n * w.name, "</varnames>", t.at.sortlist)
    /\ Listing(t.at.sortlist, "<sortlist>", (n + 1) * w.sort, "</sortlist>", t.at.formats)
    /\ Listing(t.at.formats, "<formats>", n * w.format, "</formats>", t.at.labelNames)
    /\ Listing(t.at.labelNames, "<value_label_names>", n * w.labelName,
            "</value_label_names>", t.at.varLabels)
    /\ Listing(t.at.varLabels, "<variable_labels>", n * w.varLabel, "</variable_labels>",
            t.at.described)
    /\ \A i \in 1 .. n :
         /\ Is(f, EntryAt(t, t.at.types, "<variable_types>", i, typeWidth),
               "type", t.variables[i].type)
         /\ Is(f, EntryAt(t, t.at.names, "<varnames>", i, w.name),
               "name", t.variables[i].name)
         /\ Is(f, EntryAt(t, t.at.labelNames, "<value_label_names>", i, w.labelName),
               "labelName", t.variables[i].labelName)

VariableType(t, i) ==
  IF IsModern(t) THEN t.variables[i].type ELSE TranslateLegacyType(t.variables[i].type)

InRows(t) ==
  {i \in 1 .. Len(t.variables) : ~Params(t.version).aliases \/ VariableType(t, i) # Alias}

\* Each column but the aliases, in their order.
Columns(t) ==
  /\ \A i \in 1 .. Len(t.variables) : VariableType(t, i) \in KnownTypes
  /\ \E kept \in [1 .. Cardinality(InRows(t)) -> InRows(t)] :
       /\ \A i, j \in DOMAIN kept : i < j => kept[i] < kept[j]
       /\ t.columns = [i \in 1 .. Cardinality(InRows(t)) |->
            [type |-> VariableType(t, kept[i]), name |-> t.variables[kept[i]].name,
             labelName |-> t.variables[kept[i]].labelName]]

-----------------------------------------------------------------------------
(***************************************************************************)
(* What ends the metadata of a legacy file, and the rows.                  *)
(***************************************************************************)
ExpansionLength(t, i) == IF i \in DOMAIN t.expansions THEN t.expansions[i] ELSE 0
MostExpansion(f, i) == Size(f) - (Source(f).expansionAt[i] + 5)

Expansions(f) ==
  LET t == Source(f)
      last == Len(t.expansions) + 1
  IN
    /\ t.expansionAt[1] = t.at.described
    /\ \A i \in 1 .. last :
         /\ Is(f, t.expansionAt[i], "expansion", IF i = last THEN 0 ELSE 1)
         /\ Sized(f, t.expansionAt[i] + 1, "expansionLength", ExpansionLength(t, i),
                  MostExpansion(f, i))
         /\ t.expansionAt[i] + 5 + ExpansionLength(t, i) <= t.size
    /\ \A i \in 1 .. last - 1 :
         t.expansionAt[i + 1] = t.expansionAt[i] + 5 + t.expansions[i]
    /\ t.dataOffset = t.expansionAt[last] + 5
    /\ t.at.labels = t.dataOffset + t.nObs * RowWidth(t)

Rows(t) ==
  /\ t.cell[0] = 0
  /\ \A i \in 1 .. Len(t.columns) : t.cell[i] = t.cell[i - 1] + TypeWidth(t.columns[i].type)
  /\ RowWidth(t) < Mod32
  /\ t.dataOffset + t.nObs * RowWidth(t) <= t.size

-----------------------------------------------------------------------------
(***************************************************************************)
(* The strLs and the label tables.                                         *)
(***************************************************************************)
StrLHeadOf(t) == IF t.version = 117 THEN 13 ELSE 17
LengthAt(t, i) == t.textAt[i] + 3 + StrLHeadOf(t) - 4
MostLength(f, i) == Size(f) - (LengthAt(Source(f), i) + 4)

StrLs(f) ==
  LET t == Source(f)
      last == Len(t.texts) + 1
  IN
    /\ Is(f, t.at.strls, "tag", "<strls>")
    /\ t.textAt[1] = t.at.strls + TagLen("<strls>")
    /\ \A i \in 1 .. last - 1 :
         /\ Is(f, t.textAt[i], "tag", "GSO")
         /\ Is(f, t.textAt[i] + 3, "ref", t.texts[i].ref)
         /\ Sized(f, LengthAt(t, i), "strlLength", t.texts[i].len, MostLength(f, i))
         /\ Is(f, LengthAt(t, i) + 4, "strl", t.texts[i].text)
         /\ t.textAt[i + 1] = LengthAt(t, i) + 4 + t.texts[i].len
         /\ t.textAt[i + 1] <= t.size
    /\ Is(f, t.textAt[last], "tag", "</strls>")
    /\ t.textAt[last] + 3 <= t.size /\ t.textAt[last] + TagLen("</strls>") <= t.size
    /\ \A i, j \in 1 .. last - 1 : t.texts[i].ref = t.texts[j].ref => i = j
    /\ t.strls = [ref \in {t.texts[i].ref : i \in 1 .. last - 1} |->
                    t.texts[CHOOSE i \in 1 .. last - 1 : t.texts[i].ref = ref].text]

\* The marker of a table is a tag, or the length of the table.
MarkerWidth(t) == IF IsModern(t) THEN 5 ELSE 4
NameAt(t, i) == t.tableAt[i] + MarkerWidth(t) + (IF IsModern(t) THEN 4 ELSE 0)
EntriesAt(t, i) == NameAt(t, i) + Params(t.version).labelName + 3
BodyAt(t, i) == EntriesAt(t, i) + 8
TableEnd(t, i) == BodyAt(t, i) + 8 * t.tables[i].n + t.tables[i].txtlen
LabelsOf(t, i) ==
  [name |-> t.tables[i].name, n |-> t.tables[i].n, txtlen |-> t.tables[i].txtlen,
   body |-> t.tables[i].body]
MostEntries(f, i) == (Size(f) - BodyAt(Source(f), i)) \div 8
MostText(f, i) == Size(f) - BodyAt(Source(f), i) - 8 * Source(f).tables[i].n

LabelTables(f) ==
  LET t == Source(f)
      last == Len(t.tables) + 1
  IN
    /\ IsModern(t) => Is(f, t.at.labels, "tag", "<value_labels>")
    /\ t.tableAt[1] = t.at.labels + TagLen(Tagged(t, "<value_labels>"))
    /\ \A i \in 1 .. last - 1 :
         /\ IsModern(t) => Is(f, t.tableAt[i], "tag", "<lbl>")
         /\ Is(f, NameAt(t, i), "labelName", t.tables[i].name)
         /\ Sized(f, EntriesAt(t, i), "n", t.tables[i].n, MostEntries(f, i))
         /\ Sized(f, EntriesAt(t, i) + 4, "txtlen", t.tables[i].txtlen, MostText(f, i))
         /\ Is(f, BodyAt(t, i), "labels", t.tables[i].body)
         /\ IsModern(t) => Is(f, TableEnd(t, i), "tag", "</lbl>")
         /\ t.tableAt[i + 1] = TableEnd(t, i) + TagLen(Tagged(t, "</lbl>"))
         /\ t.tableAt[i + 1] <= t.size
    /\ IF IsModern(t)
       THEN /\ Is(f, t.tableAt[last], "tag", "</value_labels>")
            /\ t.tableAt[last] + 5 <= t.size
            /\ t.tableAt[last] + TagLen("</value_labels>") <= t.size
       ELSE t.tableAt[last] = t.size
    /\ t.labels = [i \in 1 .. last - 1 |-> LabelsOf(t, i)]

-----------------------------------------------------------------------------
(***************************************************************************)
(* The files: what the damage of each says of it.                          *)
(***************************************************************************)
HasStrLColumn(t) == \E i \in 1 .. Len(t.columns) : t.columns[i].type = StrL

HasExcess(f) ==
  LET t == Source(f) IN
    \/ Exceeds(f, KAt(t), MostVariables(f))
    \/ RowWidth(t) > 0 /\ Exceeds(f, NAt(t), MostRows(f))
    \/ IsModern(t) /\ Exceeds(f, MapEntryAt(t, 9), MostData(f))
    \/ /\ ~IsModern(t)
       /\ \E i \in 1 .. Len(t.expansions) + 1 :
            Exceeds(f, t.expansionAt[i] + 1, MostExpansion(f, i))
    \/ /\ IsModern(t) /\ HasStrLColumn(t)
       /\ \E i \in DOMAIN t.texts : Exceeds(f, LengthAt(t, i), MostLength(f, i))

HasLabelExcess(f) ==
  LET t == Source(f) IN
    \E i \in DOMAIN t.tables :
      \/ Exceeds(f, EntriesAt(t, i), MostEntries(f, i))
      \/ Exceeds(f, EntriesAt(t, i) + 4, MostText(f, i))

\* Lengths and positions are numbers of bytes.
Sections ==
  {"first", "release", "byteorder", "K", "N", "label", "labelText", "timestamp",
   "headerEnd", "legacy", "map", "types", "names", "sortlist", "formats",
   "labelNames", "varLabels", "described", "data", "strls", "labels"}

IsListing(s) == Len(s) \in Nat /\ DOMAIN s = 1 .. Len(s)

TableTypes(t) ==
  /\ t.size \in Nat /\ t.size < Mod64
  /\ t.nObs \in Nat /\ t.label \in Nat /\ t.timestamp \in Nat
  /\ t.dataOffset \in Nat
  /\ t.at \in [Sections -> Nat]
  /\ \A list \in {"variables", "expansions", "texts", "tables"} : IsListing(t[list])
  /\ t.expansionAt \in [1 .. Len(t.expansions) + 1 -> Nat]
  /\ t.textAt \in [1 .. Len(t.texts) + 1 -> Nat]
  /\ t.tableAt \in [1 .. Len(t.tables) + 1 -> Nat]
  /\ t.cell \in [0 .. Len(t.columns) -> Nat]
  /\ \A i \in DOMAIN t.expansions : t.expansions[i] \in Nat
  /\ \A i \in DOMAIN t.texts : t.texts[i].len \in Nat
  /\ \A i \in DOMAIN t.tables : t.tables[i].n \in Nat /\ t.tables[i].txtlen \in Nat

IsLaidOut(f) ==
  LET t == Source(f) IN
    /\ TableTypes(t) /\ Header(f) /\ Descriptors(f) /\ Columns(t) /\ Rows(t)
    /\ IF IsModern(t) THEN StrLs(f) ELSE Expansions(f)
    /\ LabelTables(f)
    /\ IF t.damage = "cut" THEN Size(f) <= t.size ELSE Size(f) = t.size
    /\ t.damage = "excess" => HasExcess(f)
    /\ t.damage = "label excess" => HasLabelExcess(f)

ASSUME LayoutAssumption ==
  \A f \in Files : Source(f).damage \in Described => IsLaidOut(f)
=============================================================================
