--------------------------- MODULE MCValueLabels ---------------------------
(* Copied columns and foreign tables for the run of ValueLabels. *)
EXTENDS ValueLabels

ColumnNames == {<<"a">>, <<"a", "b", "c">>, <<"a", "b", "d">>}
Texts == {<<>>, <<"x">>, <<"x", "y">>, <<"x", NUL>>}
Dictionaries == {d \in UNION {[1 .. n -> Texts] : n \in 0 .. 3} : IsInjective(d)}

MCCopied ==
  {cs \in UNION {[1 .. n -> [name : ColumnNames, texts : Dictionaries]] : n \in 1 .. 2} :
     \A i, j \in DOMAIN cs : i # j => cs[i].name # cs[j].name}

\* Texts that end without NUL, are empty, or overlap; offsets that leave them.
Blobs == {<<>>, <<"x">>, <<NUL, "x">>, <<"x", NUL>>, <<"x", NUL, "x">>, <<"x", "y", NUL>>}
Entries == [off : 0 .. 3, val : {-3, 0, 1}]

ForeignTables ==
  {[name |-> <<"l">>, entries |-> e, txt |-> b] :
     e \in UNION {[1 .. n -> Entries] : n \in 1 .. 2}, b \in Blobs}
OtherTable ==
  [name |-> <<"l">>, entries |-> <<[off |-> 0, val |-> 0]>>, txt |-> <<"z", NUL>>]
UnusedTable == [OtherTable EXCEPT !.name = <<"m">>]

MCForeign ==
  {[columns |-> <<[labelName |-> l, floating |-> f]>>, tables |-> ts] :
     l \in {<<>>, <<"l">>, <<"n">>}, f \in BOOLEAN,
     ts \in {<<t>> : t \in ForeignTables}
            \cup {<<UnusedTable, t, OtherTable>> : t \in ForeignTables}}

MCBytes == {"a", "b", "c", "d", "l", "m", "n", "x", "y", "z", NUL}

MCHalves == -7 .. 7
=============================================================================
