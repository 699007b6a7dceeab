----------------------------- MODULE MCDtaOpen -----------------------------
(***************************************************************************)
(* Files for the run of DtaOpen: tables laid out in every format, whole,   *)
(* cut off one byte before, at and after every border of two tokens, and   *)
(* with one field replaced; and a file that is text.                       *)
(***************************************************************************)
EXTENDS DtaLayout, SequencesExt, TLC

TagBytes(tag) == Len(tag)
Width32 == 100000
Width64 == 100000000

\* The function f, which TLC then evaluates once and not at each use.
Listed(f) == f @@ <<>>

\* A token with the bytes it takes.
T(tag) == <<"tag", tag, Len(tag)>>
F(kind, value, width) == <<kind, value, width>>
\* A name for the position of the token that follows.
Mark(name) == <<"mark", name, 0>>
Each(list, token(_)) == FlattenSeq([i \in 1 .. Len(list) |-> token(list[i])])

Column(type, name, labelName) == [type |-> type, name |-> name, labelName |-> labelName]

LabelFields(p, table) ==
  <<F("labelName", table.name, p.labelName), F("pad", 0, 3), F("n", table.n, 4),
    F("txtlen", table.txtlen, 4), F("labels", table.body, 8 * table.n + table.txtlen)>>

DescriptorTokens(t, open(_), close(_), typeBytes) ==
  LET p == Params(t.version)
      ListOf(name, tag, token(_)) ==
        <<Mark(name)>> \o open(tag) \o Each(t.columns, token) \o close(tag)
  IN  ListOf("types", "variable_types", LAMBDA c : <<F("type", c.type, typeBytes)>>)
      \o ListOf("names", "varnames", LAMBDA c : <<F("name", c.name, p.name)>>)
      \o <<Mark("sortlist")>> \o open("sortlist")
      \o <<F("pad", 0, (Len(t.columns) + 1) * p.sort)>> \o close("sortlist")
      \o ListOf("formats", "formats", LAMBDA c : <<F("pad", 0, p.format)>>)
      \o ListOf("labelNames", "value_label_names",
                LAMBDA c : <<F("labelName", c.labelName, p.labelName)>>)
      \o ListOf("varLabels", "variable_labels", LAMBDA c : <<F("pad", 0, p.varLabel)>>)
      \o <<Mark("described")>>

\* Formats 117 and later, with the positions for the map.
Modern(t, at) ==
  LET p == Params(t.version)
      Open(tag) == <<T("<" \o tag \o ">")>>
      Close(tag) == <<T("</" \o tag \o ">")>>
  IN
    <<T("<stata_dta><header><release>"), F("version", t.version, 3), T("</release>"),
      Mark("byteorder"), T("<byteorder>"), F("pad", 0, 3), T("</byteorder>"),
      Mark("K"), T("<K>"), F("K", Len(t.columns), p.k), T("</K>"),
      Mark("N"), T("<N>"), F("N", t.nObs, p.n), T("</N>"),
      Mark("label"), T("<label>"), F("length", 4, p.dataLabel),
      Mark("labelText"), F("pad", 0, 4), T("</label>"),
      Mark("timestamp"), T("<timestamp>"), F("length", 17, 1),
      Mark("headerEnd"), F("pad", 0, 17), T("</timestamp></header>"),
      Mark("map"), T("<map>"), F("pad", 0, 72), F("dataAt", at.data, 8),
      F("strlsAt", at.strls, 8), F("labelsAt", at.labels, 8), F("pad", 0, 16), T("</map>")>>
    \o DescriptorTokens(t, Open, Close, 2)
    \o <<T("<characteristics>"), F("pad", 0, t.extra), T("</characteristics>"),
         Mark("data"), T("<data>"), Mark("rows"), F("rows", 0, t.nObs * t.width),
         T("</data>"), Mark("strls"), T("<strls>")>>
    \o Each(t.texts, LAMBDA x :
         <<Mark("text"), T("GSO"), F("ref", x.ref, IF t.version = 117 THEN 8 ELSE 12),
           F("pad", 0, 1), F("strlLength", x.len, 4), F("strl", x.text, x.len)>>)
    \o <<Mark("text"), T("</strls>"), Mark("labels"), T("<value_labels>")>>
    \o Each(t.tables, LAMBDA x : <<Mark("table"), T("<lbl>"), F("pad", 0, 4)>>
                                 \o LabelFields(p, x) \o <<T("</lbl>")>>)
    \o <<Mark("table"), T("</value_labels>"), T("</stata_dta>")>>

\* Formats 113 to 115.
Legacy(t) ==
  LET None(tag) == <<>> IN
    <<F("version", t.version, 1), F("pad", 0, 3), F("K", Len(t.columns), 2),
      F("N", t.nObs, 4), F("pad", 0, 81), F("pad", 0, 18)>>
    \o DescriptorTokens(t, None, None, 1)
    \o (IF t.extra = 0 THEN <<>>
        ELSE <<Mark("expansion"), F("expansion", 1, 1), F("expansionLength", t.extra, 4),
               F("pad", 0, t.extra)>>)
    \o <<Mark("expansion"), F("expansion", 0, 1), F("expansionLength", 0, 4),
         Mark("rows"), F("rows", 0, t.nObs * t.width), Mark("labels")>>
    \o Each(t.tables, LAMBDA x :
         <<Mark("table"), F("pad", 0, 4)>> \o LabelFields(Params(t.version), x))
    \o <<Mark("table")>>

\* A layout: its size, its tokens by position, and the positions of its marks.
Place(tokens) ==
  LET end[i \in 0 .. Len(tokens)] == IF i = 0 THEN 0 ELSE end[i - 1] + tokens[i][3]
      begin == Listed([i \in 1 .. Len(tokens) |-> end[i - 1]])
      held == {i \in 1 .. Len(tokens) : tokens[i][3] > 0}
      All(name) == SetToSortSeq({begin[i] : i \in {j \in 1 .. Len(tokens) :
                                                     tokens[j] = Mark(name)}}, <)
      First(name) == IF All(name) = <<>> THEN 0 ELSE All(name)[1]
  IN  [size |-> end[Len(tokens)],
       content |-> Listed([p \in {begin[i] : i \in held} |->
                             LET i == CHOOSE j \in held : begin[j] = p
                             IN  [kind |-> tokens[i][1], value |-> tokens[i][2]]]),
       at |-> Listed([section \in Sections |-> First(section)]),
       rows |-> First("rows"),
       expansionAt |-> All("expansion"), textAt |-> All("text"), tableAt |-> All("table")]

WholeFile(t) ==
  IF t.version < 117 THEN Place(Legacy(t))
  ELSE Place(Modern(t, Place(Modern(t, [section \in Sections |-> 0])).at))

-----------------------------------------------------------------------------
(* The tables.  The type codes of legacy formats are their own. *)
LegacyColumns == <<Column(253, "x", "yesno"), Column(4, "s", "other")>>
ModernColumns == <<Column(65528, "x", "yesno"), Column(4, "s", "other"), Column(StrL, "t", "")>>
AliasColumns == <<Column(Alias, "a", "yesno"), Column(StrL, "t", ""), Column(65528, "x", "yesno")>>

YesNo == [name |-> "yesno", n |-> 2, txtlen |-> 7, body |-> "yes, no"]
Twice == [name |-> "yesno", n |-> 2, txtlen |-> 8, body |-> "yes, yes"]
Other == [name |-> "other", n |-> 2, txtlen |-> 4, body |-> "o, o"]
SecondYesNo == [name |-> "yesno", n |-> 1, txtlen |-> 2, body |-> "y"]

\* Tables that other values or bytes make may have a text twice or not.
MCRepeats(table) ==
  IF table \in {Twice, Other} THEN {TRUE}
  ELSE IF table = YesNo \/ table.n < 2 THEN {FALSE}
  ELSE BOOLEAN

Text(ref, len, text) == [ref |-> ref, len |-> len, text |-> text]

Table(v, cols, nObs, width, extra, texts, tables) ==
  [version |-> v, columns |-> cols, nObs |-> nObs, width |-> width, extra |-> extra,
   texts |-> texts, tables |-> tables]

Tables ==
  [i \in 1 .. 3 |-> Table(112 + i, LegacyColumns, 2, 8, IF i = 3 THEN 0 ELSE 6, <<>>,
                          <<Other, IF i = 3 THEN Twice ELSE YesNo>>)]
  \o [i \in 1 .. 3 |-> Table(116 + i, ModernColumns, 2, 16, 5,
                             <<Text("3,1", 3, "ab"), Text("3,2", 2, "c")>>,
                             <<Other, YesNo, SecondYesNo>>)]
  \o [i \in 1 .. 2 |-> Table(119 + i, AliasColumns, 2, 12, 0,
                             <<Text("1,1", 3, "ab")>>, <<YesNo>>)]
  \o << \* no rows, no tables; no columns; only an alias
       Table(115, LegacyColumns, 0, 8, 0, <<>>, <<>>),
       Table(117, <<Column(65530, "b", "")>>, 3, 1, 0, <<>>, <<>>),
       Table(118, <<>>, 0, 0, 0, <<>>, <<YesNo>>),
       Table(121, <<Column(Alias, "a", "")>>, 2, 0, 0, <<>>, <<>>) >>

Shapes == DOMAIN Tables
Whole == Listed([s \in Shapes |-> WholeFile(Tables[s])])

TypesRead(t) ==
  LET modern == [i \in DOMAIN t.columns |->
                   IF t.version < 117
                   THEN [t.columns[i] EXCEPT !.type = TranslateLegacyType(@)]
                   ELSE t.columns[i]]
  IN  SelectSeq(modern, LAMBDA c : ~(t.version >= 120 /\ c.type = Alias))

Truth(t, w) ==
  LET read == TypesRead(t)
      cell[i \in 0 .. Len(read)] ==
        IF i = 0 THEN 0 ELSE cell[i - 1] + TypeWidth(read[i].type)
  IN
    [size |-> w.size, version |-> t.version, variables |-> t.columns, nObs |-> t.nObs,
     label |-> 4, timestamp |-> 17, texts |-> t.texts, tables |-> t.tables,
     expansions |-> IF t.version < 117 /\ t.extra > 0 THEN <<t.extra>> ELSE <<>>,
     columns |-> read, cell |-> Listed(cell), dataOffset |-> w.rows,
     labels |-> t.tables,
     strls |-> [r \in {t.texts[i].ref : i \in DOMAIN t.texts} |->
                  (CHOOSE x \in Range(t.texts) : x.ref = r).text],
     at |-> w.at, expansionAt |-> IF t.version < 117 THEN w.expansionAt ELSE <<0>>,
     textAt |-> IF t.version < 117 THEN <<0>> ELSE w.textAt, tableAt |-> w.tableAt]

-----------------------------------------------------------------------------
(* Damage: nothing, a cut, or another value of the field at a position. *)
Cuts(w) == UNION {{p - 1, p, p + 1} : p \in DOMAIN w.content} \cap 0 .. w.size - 1

\* Values of the field at p that no file of this size can have.
Excess(t, w, p) ==
  LET kind == w.content[p].kind
      params == Params(t.version)
      minBytes == (IF t.version < 117 THEN 1 ELSE 2)
                  + params.name + params.format + params.labelName + params.varLabel
      rest == w.size - w.rows
      after == w.size - (p + 4)
  IN
    CASE kind = "K" -> {w.size \div minBytes + 1, 65535}
                      \cup (IF params.k = 4 THEN {Width32 \div minBytes + 1, Width32 - 1} ELSE {})
      [] kind = "N" /\ t.width > 0 ->
           {rest \div t.width + 1, Width32 - 1}
           \cup (IF params.n = 8 THEN {Width64 \div t.width, Width64 - 1} ELSE {})
      [] kind = "dataAt" -> {w.size - 5, w.size, Width64 - 7, Width64 - 6, Width64 - 1}
      [] kind = "strlLength" -> {after + 1, Width32 - 1, Width32 - p}
      [] kind = "n" -> {(after - 4) \div 8 + 1, Width32 - 1}
      [] kind = "txtlen" -> {after - 8 * w.content[p - 4].value + 1, after, Width32 - 1}
      [] kind = "expansionLength" -> {after + 1, Width32 - 1}
      [] OTHER -> {}

\* Values that are wrong and may fit.
Wrong(t, w, p) ==
  LET kind == w.content[p].kind
      value == w.content[p].value
  IN
    CASE kind = "K" -> {0, value + 1}
      [] kind = "N" -> {0, value + 1}
      [] kind = "length" -> {0, value + 1, 255}
      [] kind = "dataAt" -> {value + 1}
      [] kind \in {"strlsAt", "labelsAt"} -> {0, Width64 - 1}
      [] kind = "strlLength" -> {1, value + 1}
      [] kind = "n" -> {0}
      [] kind = "txtlen" -> {0, value + 8}
      [] kind = "expansionLength" -> {value + 1}
      [] kind = "type" -> IF t.version < 117 THEN {0, 245} ELSE {0, Alias, 65531}
      [] kind = "version" -> {112, 116, IF t.version < 117 THEN 117 ELSE 118}
                           \cup (IF t.version < 117 THEN {} ELSE {115})
      [] OTHER -> {}

FileId(s, damage, at, value) == [shape |-> s, damage |-> damage, at |-> at, value |-> value]

PatchesOf(s, w, damage, values) ==
  UNION {{FileId(s, damage, p, v) : v \in values[p]} : p \in DOMAIN w.content}

FilesOf(s, t, w) ==
  LET excess == [p \in DOMAIN w.content |-> Excess(t, w, p)]
      inLabels == [p \in DOMAIN w.content |->
                     IF w.content[p].kind \in {"n", "txtlen"} THEN excess[p] ELSE {}]
      others == [p \in DOMAIN w.content |-> excess[p] \ inLabels[p]]
      wrong == [p \in DOMAIN w.content |-> Wrong(t, w, p) \ excess[p]]
  IN
    {FileId(s, "none", 0, 0)} \cup {FileId(s, "cut", c, 0) : c \in Cuts(w)}
    \cup PatchesOf(s, w, "excess", others) \cup PatchesOf(s, w, "label excess", inLabels)
    \cup PatchesOf(s, w, "wrong", wrong)

MCFiles ==
  UNION {FilesOf(s, Tables[s], Whole[s]) : s \in Shapes}
  \cup {FileId(0, "text", n, 0) : n \in {1, 640}}

MCSize(f) == IF f.damage \in {"cut", "text"} THEN f.at ELSE Whole[f.shape].size

MCContent(f) ==
  CASE f.damage = "text" -> <<>>
    [] f.damage \in {"none", "cut"} -> Whole[f.shape].content
    [] OTHER -> [Whole[f.shape].content EXCEPT ![f.at].value = f.value]

Truths == Listed([s \in Shapes |-> Truth(Tables[s], Whole[s])])

MCSource(f) ==
  [damage |-> f.damage] @@ (IF f.damage = "text" THEN <<>> ELSE Truths[f.shape])

MCSamples ==
  [version |-> {60, 65, 115, 117}, K |-> {0, 2, 65535}, N |-> {0, 3, 65535},
   length |-> {0, 7}, dataAt |-> {0, 50}, strlsAt |-> {0, 50}, labelsAt |-> {0, 50},
   type |-> {0, 4}, expansion |-> {0, 1}, expansionLength |-> {0, 70},
   n |-> {2, 90}, txtlen |-> {4, 200}, strlLength |-> {0, 5}]
=============================================================================
