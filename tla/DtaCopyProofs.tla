--------------------------- MODULE DtaCopyProofs ---------------------------
(***************************************************************************)
(* Proofs about COPY TO, for every table, number of threads, sequence of   *)
(* chunks and place where a value or a write fails: types and the mutex,   *)
(* the references of the strings, and that a failed COPY shows nothing.    *)
(***************************************************************************)
EXTENDS DtaCopy, ProofLemmas, FiniteSetTheorems

LEMMA TableFacts ==
  RowWidth \in Nat \ {0} /\ ColumnIds = 1 .. RowWidth
  BY ColumnsAssumption DEF RowWidth, ColumnIds

LEMMA MetadataFacts ==
  IsList(Metadata) /\ Len(Metadata) = 7
  BY DEF Metadata, IsList

-----------------------------------------------------------------------------
(***************************************************************************)
(* Types, the mutex and the count of the rows.                             *)
(***************************************************************************)
\* The rows the thread that holds the mutex has written and not yet counted
\* are the only ones that are not counted, unless a sink has thrown.
CountInv ==
  /\ rowsWritten <= Len(written)
  /\ lock # NoThread => rowsWritten + row[lock] <= Len(written)
  /\ NoSinkThrew =>
       rowsWritten + (IF lock = NoThread THEN 0 ELSE row[lock]) = Len(written)

TypeInv ==
  /\ TypeOK
  /\ IsList(file) /\ IsList(strls)
  /\ CountInv

\* A write leaves a sequence behind.
LEMMA WriteKeepsList ==
  ASSUME NEW w, IsList(file), Write(w) PROVE IsList(file')
  BY DEF Write, IsList

-----------------------------------------------------------------------------
(***************************************************************************)
(* Register, one column at a time.                                         *)
(***************************************************************************)
\* The registered strings after the column c of row r, observation o.
RegisterColumn(order, r, o, c) ==
  IF IsStrL(c, r[c]) THEN AddStrL(order, c, o, r[c]) ELSE order

\* The function that Register evaluates.
AfterColumns(f, r, o, n) ==
  f = [c \in 0 .. n |-> IF c = 0 THEN strls ELSE RegisterColumn(f[c - 1], r, o, c)]

LEMMA AfterColumnsExtends ==
  ASSUME NEW r, NEW o, NEW n \in Nat, NEW f, AfterColumns(f, r, o, n)
  PROVE  \E g : /\ AfterColumns(g, r, o, n + 1)
                /\ \A c \in 0 .. n : g[c] = f[c]
<1> DEFINE g == [c \in 0 .. n + 1 |-> IF c = n + 1 THEN RegisterColumn(f[n], r, o, c)
                                      ELSE f[c]]
<1>1. \A c \in 0 .. n : g[c] = f[c]
  OBVIOUS
<1>2. f = [c \in 0 .. n |-> IF c = 0 THEN strls ELSE RegisterColumn(f[c - 1], r, o, c)]
  BY DEF AfterColumns
<1>3. ASSUME NEW c \in 0 .. n + 1
      PROVE  g[c] = IF c = 0 THEN strls ELSE RegisterColumn(g[c - 1], r, o, c)
  <2>1. CASE c = n + 1
    BY <1>1, <2>1
  <2>2. CASE c \in 1 .. n
    BY <1>1, <1>2, <2>2
  <2>3. CASE c = 0
    BY <1>1, <1>2, <2>3
  <2> QED
    BY <2>1, <2>2, <2>3
<1>4. g = [c \in 0 .. n + 1 |-> g[c]]
  OBVIOUS
<1> HIDE DEF g
<1>5. AfterColumns(g, r, o, n + 1)
  BY <1>3, <1>4 DEF AfterColumns
<1> QED
  BY <1>1, <1>5

LEMMA AfterColumnsExists ==
  ASSUME NEW r, NEW o
  PROVE  \A n \in Nat : \E f : AfterColumns(f, r, o, n)
<1> DEFINE S == {n \in Nat : \E f : AfterColumns(f, r, o, n)}
<1>1. 0 \in S
  <2> DEFINE f == [c \in 0 .. 0 |-> strls]
  <2>1. f = [c \in 0 .. 0 |-> IF c = 0 THEN strls ELSE RegisterColumn(f[c - 1], r, o, c)]
    OBVIOUS
  <2> QED
    BY <2>1 DEF AfterColumns
<1>2. ASSUME NEW n \in Nat, n \in S PROVE n + 1 \in S
  BY <1>2, AfterColumnsExtends
<1> HIDE DEF S
<1>3. Nat \subseteq S
  BY <1>1, <1>2, SetInduction
<1> QED
  BY <1>3 DEF S

LEMMA AfterColumnsUnique ==
  ASSUME NEW r, NEW o, NEW n \in Nat, NEW f, AfterColumns(f, r, o, n),
         NEW m \in Nat, n <= m, NEW g, AfterColumns(g, r, o, m)
  PROVE  \A c \in 0 .. n : f[c] = g[c]
<1> DEFINE S == {c \in Nat : c <= n => f[c] = g[c]}
<1>1. \A c \in 0 .. n :
        f[c] = IF c = 0 THEN strls ELSE RegisterColumn(f[c - 1], r, o, c)
  BY DEF AfterColumns
<1>2. \A c \in 0 .. m :
        g[c] = IF c = 0 THEN strls ELSE RegisterColumn(g[c - 1], r, o, c)
  BY DEF AfterColumns
<1>3. 0 \in S
  BY <1>1, <1>2
<1>4. ASSUME NEW c \in Nat, c \in S PROVE c + 1 \in S
  BY <1>1, <1>2, <1>4
<1> HIDE DEF S
<1>5. Nat \subseteq S
  BY <1>3, <1>4, SetInduction
<1> QED
  BY <1>5 DEF S

LEMMA RegisterIs ==
  ASSUME NEW r, NEW o, NEW n \in Nat
  PROVE  \E f : AfterColumns(f, r, o, n) /\ Register(r, o, n) = f[n]
<1> DEFINE f == CHOOSE f : f = [c \in 0 .. n |-> IF c = 0 THEN strls
                                ELSE IF IsStrL(c, r[c]) THEN AddStrL(f[c - 1], c, o, r[c])
                                ELSE f[c - 1]]
<1>1. PICK g : AfterColumns(g, r, o, n)
  BY AfterColumnsExists
<1>2. g = [c \in 0 .. n |-> IF c = 0 THEN strls
                            ELSE IF IsStrL(c, r[c]) THEN AddStrL(g[c - 1], c, o, r[c])
                            ELSE g[c - 1]]
  BY <1>1, Zenon DEF AfterColumns, RegisterColumn
<1>3. f = [c \in 0 .. n |-> IF c = 0 THEN strls
                            ELSE IF IsStrL(c, r[c]) THEN AddStrL(f[c - 1], c, o, r[c])
                            ELSE f[c - 1]]
  BY <1>2, Zenon
<1>4. Register(r, o, n) = f[n]
  BY DEF Register
<1> HIDE DEF f
<1>5. AfterColumns(f, r, o, n)
  BY <1>3, Zenon DEF AfterColumns, RegisterColumn
<1> QED
  BY <1>4, <1>5

LEMMA RegisterSteps ==
  ASSUME NEW r, NEW o
  PROVE  /\ Register(r, o, 0) = strls
         /\ \A n \in Nat : Register(r, o, n + 1)
                             = RegisterColumn(Register(r, o, n), r, o, n + 1)
<1>1. Register(r, o, 0) = strls
  <2>1. PICK f : AfterColumns(f, r, o, 0) /\ Register(r, o, 0) = f[0]
    BY RegisterIs
  <2> QED
    BY <2>1 DEF AfterColumns
<1>2. ASSUME NEW n \in Nat
      PROVE  Register(r, o, n + 1) = RegisterColumn(Register(r, o, n), r, o, n + 1)
  <2>1. PICK f : AfterColumns(f, r, o, n) /\ Register(r, o, n) = f[n]
    BY RegisterIs
  <2>2. PICK g : AfterColumns(g, r, o, n + 1) /\ Register(r, o, n + 1) = g[n + 1]
    BY RegisterIs
  <2>3. f[n] = g[n]
    BY <2>1, <2>2, AfterColumnsUnique
  <2>4. g[n + 1] = RegisterColumn(g[n], r, o, n + 1)
    BY <2>2 DEF AfterColumns
  <2> QED
    BY <2>1, <2>2, <2>3, <2>4
<1> QED
  BY <1>1, <1>2

\* What is registered stays registered, in its place.
LEMMA RegisterExtends ==
  ASSUME NEW r, NEW o, IsList(strls)
  PROVE  \A n \in Nat :
           /\ IsList(Register(r, o, n)) /\ Len(strls) <= Len(Register(r, o, n))
           /\ \A i \in 1 .. Len(strls) : Register(r, o, n)[i] = strls[i]
<1> DEFINE Ext(order) == /\ IsList(order) /\ Len(strls) <= Len(order)
                         /\ \A i \in 1 .. Len(strls) : order[i] = strls[i]
           S == {n \in Nat : Ext(Register(r, o, n))}
<1>1. 0 \in S
  BY RegisterSteps DEF IsList
<1>2. ASSUME NEW n \in Nat, n \in S PROVE n + 1 \in S
  <2>1. ASSUME NEW order, Ext(order), NEW e PROVE Ext(Append(order, e))
    BY <2>1, ListAppend DEF IsList
  <2> HIDE DEF Ext
  <2>2. ASSUME NEW order, Ext(order), NEW c PROVE Ext(RegisterColumn(order, r, o, c))
    BY <2>1, <2>2, Zenon DEF RegisterColumn, AddStrL
  <2>3. Ext(Register(r, o, n)) /\ n \in Nat
    BY <1>2, Zenon
  <2>4. Register(r, o, n + 1) = RegisterColumn(Register(r, o, n), r, o, n + 1)
    BY <2>3, RegisterSteps, Zenon
  <2>5. Ext(Register(r, o, n + 1))
    BY <2>2, <2>3, <2>4, Zenon
  <2>6. n + 1 \in Nat
    BY <2>3
  <2> QED
    BY <2>5, <2>6, Zenon
<1> HIDE DEF S
<1>3. Nat \subseteq S
  BY <1>1, <1>2, SetInduction
<1> QED
  BY <1>3 DEF S

-----------------------------------------------------------------------------
(***************************************************************************)
(* The types are an invariant.                                             *)
(***************************************************************************)
LEMMA TypeInit == Init => TypeInv
<1> SUFFICES ASSUME Init PROVE TypeInv
  OBVIOUS
<1>1. TypeOK
  BY CopyThreadsAssumption, BoundsAssumption DEF Init, TypeOK, NoOffset
<1>2. IsList(file) /\ IsList(strls)
  BY DEF Init, IsList
<1>3. CountInv
  BY DEF Init, CountInv
<1> QED
  BY <1>1, <1>2, <1>3 DEF TypeInv

\* A step of the mutex' owner, or of a thread that takes it or waits for it.
LEMMA ThreadKeepsTypes ==
  ASSUME TypeInv, NEW t \in Threads, SinkStep(t) PROVE TypeInv'
<1> USE CopyThreadsAssumption, BoundsAssumption
<1>1. CASE SinkCall(t)
  BY <1>1 DEF SinkCall, TypeInv, TypeOK, CountInv, NoSinkThrew
<1>2. CASE SinkBegin(t)
  BY <1>2 DEF SinkBegin, LockFree, TypeInv, TypeOK, CountInv, NoSinkThrew
<1>3. CASE SinkRow(t)
  <2>1. PICK r \in InputRows :
          LET order == Register(r, ObsIndex(t), RowWidth) IN
          /\ strls' = order
          /\ file' = file \o [c \in ColumnIds |-> EncodeCell(order, c, r[c])]
          /\ written' = Append(written, r)
    BY <1>3 DEF SinkRow
  <2>2. IsList(file') /\ IsList(strls')
    <3>1. \A order : IsList([c \in ColumnIds |-> EncodeCell(order, c, r[c])])
      BY TableFacts DEF IsList
    <3> QED
      BY <2>1, <3>1, ListConcat, RegisterExtends, TableFacts DEF TypeInv
  <2>3. written \in Seq(InputRows) /\ written' \in Seq(InputRows)
        /\ Len(written') = Len(written) + 1 /\ Len(written) < MaxRows
        /\ Len(written) \in Nat
    BY <1>3, <2>1 DEF SinkRow, TypeInv, TypeOK
  <2>4. lock = t /\ row' = [row EXCEPT ![t] = row[t] + 1] /\ row[t] < ChunkSize
        /\ UNCHANGED <<phase, lock, pc, rowsWritten, offset>>
    BY <1>3 DEF SinkRow, TypeInv, TypeOK
  <2>5. TypeOK'
    BY <2>3, <2>4 DEF TypeInv, TypeOK
  <2>6. CountInv'
    BY <2>3, <2>4 DEF TypeInv, TypeOK, CountInv, NoSinkThrew
  <2> QED
    BY <2>2, <2>5, <2>6 DEF TypeInv
<1>4. CASE SinkEnd(t)
  BY <1>4 DEF SinkEnd, TypeInv, TypeOK, CountInv, NoSinkThrew
<1>5. CASE SinkThrows(t) \/ RowWriteFails(t)
  <2>1. IsList(strls')
    <3>1. CASE SinkThrows(t)
      <4>1. PICK r \in InputRows, c \in ColumnIds : strls' = Register(r, ObsIndex(t), c - 1)
        BY <3>1 DEF SinkThrows
      <4>2. c - 1 \in Nat
        BY TableFacts
      <4> QED
        BY <4>1, <4>2, RegisterExtends DEF TypeInv
    <3>2. CASE RowWriteFails(t)
      BY <3>2, RegisterExtends, TableFacts DEF RowWriteFails, TypeInv
    <3> QED
      BY <1>5, <3>1, <3>2
  <2>2. IsList(file')
    <3>1. CASE SinkThrows(t)
      BY <3>1 DEF SinkThrows, TypeInv
    <3>2. CASE RowWriteFails(t)
      <4>1. PICK r \in InputRows, n \in 0 .. RowWidth - 1 :
              file' = file \o [c \in 1 .. n |->
                EncodeCell(Register(r, ObsIndex(t), RowWidth), c, r[c])]
        BY <3>2 DEF RowWriteFails
      <4>2. n \in Nat
        BY TableFacts
      <4>3. IsList([c \in 1 .. n |->
                EncodeCell(Register(r, ObsIndex(t), RowWidth), c, r[c])])
        BY <4>2 DEF IsList
      <4> QED
        BY <4>1, <4>3, ListConcat DEF TypeInv
    <3> QED
      BY <1>5, <3>1, <3>2
  <2>3. /\ lock = t /\ lock' = NoThread /\ pc' = [pc EXCEPT ![t] = "failed"]
        /\ UNCHANGED <<phase, row, rowsWritten, offset, written>>
    BY <1>5 DEF SinkThrows, RowWriteFails, LockAfterThrow, TypeInv, TypeOK
  <2>4. TypeOK'
    BY <2>3 DEF TypeInv, TypeOK
  <2>5. CountInv'
    BY <2>3 DEF TypeInv, TypeOK, CountInv, NoSinkThrew
  <2> QED
    BY <2>1, <2>2, <2>4, <2>5 DEF TypeInv
<1>6. CASE ThreadEnds(t)
  BY <1>6 DEF ThreadEnds, TypeInv, TypeOK, CountInv, NoSinkThrew
<1> QED
  BY <1>1, <1>2, <1>3, <1>4, <1>5, <1>6 DEF SinkStep

LEMMA WriterKeepsTypes ==
  ASSUME TypeInv, WriterStep PROVE TypeInv'
<1>1. IsList(file')
  <2>1. CASE WriteMetadata \/ FinalizeWrite
    BY <2>1, WriteKeepsList DEF WriteMetadata, FinalizeWrite, TypeInv
  <2> QED
    BY <2>1 DEF WriterStep, Finalize, BeginTrailer, SyncAndClose, Drop, AppendFails, TypeInv
<1>2. /\ UNCHANGED <<lock, pc, row, rowsWritten, strls, written>>
      /\ phase' \in {phase, "sink", "finalize", "sync", "closed", "dropped"}
  BY DEF WriterStep, WriteMetadata, Finalize, BeginTrailer, FinalizeWrite,
         SyncAndClose, Drop, AppendFails
<1>3. offset' \in [DOMAIN NoOffset -> Nat]
  <2>1. offset \in [DOMAIN NoOffset -> Nat] /\ Len(file) \in Nat /\ Len(strls) \in Nat
    BY DEF TypeInv, TypeOK, IsList
  <2>2. CASE WriteMetadata
    <3>1. offset' = offset \/ offset' = [offset EXCEPT !.data = Len(file)]
      BY <2>2 DEF WriteMetadata
    <3> QED
      BY <2>1, <3>1 DEF NoOffset
  <2>3. CASE Finalize
    <3>1. offset' = [offset EXCEPT !.strls = Len(file) + 1,
                                   !.labels = Len(file) + 3 + Len(strls)]
      BY <2>3, Zenon DEF Finalize, BeginTrailer
    <3>2. Len(file) + 1 \in Nat /\ Len(file) + 3 + Len(strls) \in Nat
      BY <2>1
    <3> QED
      BY <2>1, <3>1, <3>2 DEF NoOffset
  <2>4. CASE FinalizeWrite \/ SyncAndClose \/ Drop \/ AppendFails
    BY <2>1, <2>4, Zenon DEF FinalizeWrite, SyncAndClose, Drop, AppendFails
  <2> QED
    BY <2>2, <2>3, <2>4, Zenon DEF WriterStep
<1>4. TypeOK'
  BY <1>2, <1>3 DEF TypeInv, TypeOK
<1>5. CountInv'
  BY <1>2 DEF TypeInv, CountInv, NoSinkThrew
<1> QED
  BY <1>1, <1>2, <1>4, <1>5 DEF TypeInv

LEMMA TypesInvariant == Spec => []TypeInv
<1>1. TypeInv /\ [Next]_vars => TypeInv'
  <2> SUFFICES ASSUME TypeInv, [Next]_vars PROVE TypeInv'
    OBVIOUS
  <2>1. CASE UNCHANGED vars
    BY <2>1 DEF vars, TypeInv, TypeOK, CountInv, NoSinkThrew, IsList
  <2> QED
    BY <2>1, ThreadKeepsTypes, WriterKeepsTypes DEF Next, Over
<1> QED
  BY TypeInit, <1>1, PTL DEF Spec

\* The mutex is held by the thread that is in the middle of a chunk, by no
\* other, and by nobody when a sink has thrown.  The counter of rows, which a
\* sink moves on only after its chunk, never passes the rows in the file,
\* also not with the rows of the chunk being written; as long as no sink threw
\* it lacks just these.
THEOREM CopyTypes == Spec => [](TypeOK /\ CountInv)
<1>1. TypeInv => TypeOK /\ CountInv
  BY DEF TypeInv
<1> QED
  BY <1>1, TypesInvariant, PTL

-----------------------------------------------------------------------------
(***************************************************************************)
(* The references.  When n rows and m columns of the next one have been    *)
(* read, order lists the strings of strL columns, each with the cell where *)
(* it occurs first, in the order of these cells.                           *)
(***************************************************************************)
Seen(i, c, n, m) == i \in 1 .. n + 1 /\ c \in 1 .. RowWidth /\ (i = n + 1 => c <= m)
Precedes(i, c, k, d) == i < k \/ (i = k /\ c < d)
Occurs(rows, i, c, s) == Columns[c] = "str" /\ rows[i][c] = s

IsFirst(e, rows, n, m) ==
  /\ e.o \in Nat /\ e.v \in Nat /\ Seen(e.o, e.v, n, m)
  /\ Occurs(rows, e.o, e.v, e.value)
  /\ \A i, c \in Nat :
       Seen(i, c, n, m) /\ Precedes(i, c, e.o, e.v) => ~Occurs(rows, i, c, e.value)

Ordered(order) ==
  \A j, k \in 1 .. Len(order) : j < k =>
    Precedes(order[j].o, order[j].v, order[k].o, order[k].v)

HasAll(order, rows, n, m) ==
  \A i, c \in Nat : Seen(i, c, n, m) /\ IsStrL(c, rows[i][c]) =>
    \E j \in 1 .. Len(order) : order[j].value = rows[i][c]

RefsUpTo(order, rows, n, m) ==
  /\ IsList(order)
  /\ \A j \in 1 .. Len(order) : IsFirst(order[j], rows, n, m)
  /\ Ordered(order)
  /\ HasAll(order, rows, n, m)

\* Before a row its first column comes next; past its last, the next row's.
LEMMA SeenRow ==
  ASSUME NEW n \in Nat, NEW i \in Nat, NEW c \in Nat
  PROVE  Seen(i, c, n, RowWidth) <=> Seen(i, c, n + 1, 0)
  BY TableFacts DEF Seen

LEMMA NextRow ==
  ASSUME NEW order, NEW rows, NEW n \in Nat, RefsUpTo(order, rows, n, RowWidth)
  PROVE  RefsUpTo(order, rows, n + 1, 0)
  BY SeenRow DEF RefsUpTo, IsFirst, HasAll

\* A row that has not been read may be any.
LEMMA RowsSeenOnly ==
  ASSUME NEW order, NEW n \in Nat, NEW rows, NEW rows2,
         \A i \in 1 .. n : rows2[i] = rows[i], RefsUpTo(order, rows, n, 0)
  PROVE  RefsUpTo(order, rows2, n, 0)
<1>1. \A i, c \in Nat : Seen(i, c, n, 0) => rows2[i] = rows[i]
  BY DEF Seen
<1> QED
  BY <1>1 DEF RefsUpTo, IsFirst, HasAll, Occurs

\* One more column: the string is one of those seen, or its cell is the first.
LEMMA NextColumn ==
  ASSUME NEW order, NEW rows, NEW n \in Nat, NEW m \in Nat, m < RowWidth,
         RefsUpTo(order, rows, n, m)
  PROVE  RefsUpTo(RegisterColumn(order, rows[n + 1], n + 1, m + 1), rows, n, m + 1)
<1> DEFINE s == rows[n + 1][m + 1]
<1>1. \A i, c \in Nat : Seen(i, c, n, m + 1)
                          <=> Seen(i, c, n, m) \/ (i = n + 1 /\ c = m + 1)
  BY TableFacts DEF Seen
<1>2. \A i, c \in Nat : Seen(i, c, n, m) => Precedes(i, c, n + 1, m + 1)
  BY TableFacts DEF Seen, Precedes
<1>3. \A j \in 1 .. Len(order) : IsFirst(order[j], rows, n, m + 1)
  <2> SUFFICES ASSUME NEW j \in 1 .. Len(order) PROVE IsFirst(order[j], rows, n, m + 1)
    OBVIOUS
  <2>1. IsFirst(order[j], rows, n, m)
    BY DEF RefsUpTo
  <2>2. ~Precedes(n + 1, m + 1, order[j].o, order[j].v)
    BY <1>2, <2>1 DEF IsFirst, Precedes
  <2> QED
    BY <1>1, <2>1, <2>2, Zenon DEF IsFirst
<1>4. CASE ~IsStrL(m + 1, s) \/ \E i \in DOMAIN order : order[i].value = s
  <2>1. RegisterColumn(order, rows[n + 1], n + 1, m + 1) = order
    BY <1>4, Zenon DEF RegisterColumn, AddStrL
  <2>2. HasAll(order, rows, n, m + 1)
    BY <1>1, <1>4, Zenon DEF RefsUpTo, HasAll, IsList
  <2> QED
    BY <1>3, <2>1, <2>2, Zenon DEF RefsUpTo
<1>5. CASE IsStrL(m + 1, s) /\ ~\E i \in DOMAIN order : order[i].value = s
  <2> DEFINE e == [value |-> s, v |-> m + 1, o |-> n + 1]
             more == Append(order, e)
  <2>1. RegisterColumn(order, rows[n + 1], n + 1, m + 1) = more
    BY <1>5, Zenon DEF RegisterColumn, AddStrL
  <2>2. /\ IsList(more) /\ Len(more) = Len(order) + 1
        /\ \A i \in 1 .. Len(order) : more[i] = order[i]
        /\ more[Len(order) + 1] = e
    BY ListAppend, Zenon DEF RefsUpTo
  <2>3. Len(order) \in Nat /\ DOMAIN order = 1 .. Len(order)
    BY DEF RefsUpTo, IsList
  <2>4. IsFirst(e, rows, n, m + 1)
    <3>1. Seen(n + 1, m + 1, n, m + 1)
      BY TableFacts DEF Seen
    <3>2. Occurs(rows, n + 1, m + 1, s)
      BY <1>5 DEF Occurs, IsStrL
    <3>3. ASSUME NEW i \in Nat, NEW c \in Nat, Seen(i, c, n, m + 1),
                 Precedes(i, c, n + 1, m + 1), Occurs(rows, i, c, s)
          PROVE  FALSE
      <4>1. Seen(i, c, n, m)
        BY <1>1, <3>3 DEF Precedes
      <4>2. IsStrL(c, rows[i][c]) /\ rows[i][c] = s
        BY <1>5, <3>3 DEF Occurs, IsStrL
      <4>3. PICK j \in 1 .. Len(order) : order[j].value = rows[i][c]
        BY <4>1, <4>2, Zenon DEF RefsUpTo, HasAll
      <4>4. order[j].value = s /\ j \in DOMAIN order
        BY <2>3, <4>2, <4>3, Zenon
      <4> QED
        BY <1>5, <4>4, Zenon
    <3>4. e.o = n + 1 /\ e.v = m + 1 /\ e.value = s /\ n + 1 \in Nat /\ m + 1 \in Nat
      OBVIOUS
    <3> HIDE DEF e, s
    <3> QED
      BY <3>1, <3>2, <3>3, <3>4, Zenon DEF IsFirst
  <2>5. e.o = n + 1 /\ e.v = m + 1 /\ e.value = s
    OBVIOUS
  <2> HIDE DEF e, more, s
  <2>6. \A j \in 1 .. Len(more) : j \in 1 .. Len(order) \/ j = Len(order) + 1
    BY <2>2, <2>3
  <2>7. \A j \in 1 .. Len(more) : IsFirst(more[j], rows, n, m + 1)
    BY <1>3, <2>2, <2>4, <2>6, Zenon
  <2>8. Ordered(more)
    <3> SUFFICES ASSUME NEW j \in 1 .. Len(more), NEW k \in 1 .. Len(more), j < k
                 PROVE  Precedes(more[j].o, more[j].v, more[k].o, more[k].v)
      BY DEF Ordered
    <3>1. j \in 1 .. Len(order) /\ (k \in 1 .. Len(order) \/ k = Len(order) + 1)
      BY <2>2, <2>3
    <3>2. CASE k \in 1 .. Len(order)
      BY <2>2, <3>1, <3>2, Zenon DEF RefsUpTo, Ordered
    <3>3. CASE k = Len(order) + 1
      <4>1. IsFirst(order[j], rows, n, m)
        BY <3>1, Zenon DEF RefsUpTo
      <4>2. Precedes(order[j].o, order[j].v, n + 1, m + 1)
        BY <1>2, <4>1, Zenon DEF IsFirst
      <4>3. more[j] = order[j] /\ more[k] = e
        BY <2>2, <3>1, <3>3
      <4> QED
        BY <2>5, <4>2, <4>3, Zenon
    <3> QED
      BY <3>1, <3>2, <3>3
  <2>9. HasAll(more, rows, n, m + 1)
    <3> SUFFICES ASSUME NEW i \in Nat, NEW c \in Nat, Seen(i, c, n, m + 1),
                        IsStrL(c, rows[i][c])
                 PROVE  \E j \in 1 .. Len(more) : more[j].value = rows[i][c]
      BY Zenon DEF HasAll
    <3>1. CASE Seen(i, c, n, m)
      <4>1. PICK j \in 1 .. Len(order) : order[j].value = rows[i][c]
        BY <3>1, Zenon DEF RefsUpTo, HasAll
      <4> QED
        BY <2>2, <2>3, <4>1
    <3>2. CASE i = n + 1 /\ c = m + 1
      <4>1. Len(order) + 1 \in 1 .. Len(more)
        BY <2>2, <2>3
      <4>2. rows[i][c] = s
        BY <3>2 DEF s
      <4> QED
        BY <2>2, <2>5, <4>1, <4>2, Zenon
    <3> QED
      BY <1>1, <3>1, <3>2, Zenon
  <2> QED
    BY <2>1, <2>2, <2>7, <2>8, <2>9, Zenon DEF RefsUpTo
<1> QED
  BY <1>4, <1>5, Zenon

\* A whole row.
LEMMA RegisterRow ==
  ASSUME NEW rows, NEW n \in Nat, RefsUpTo(strls, rows, n, 0)
  PROVE  RefsUpTo(Register(rows[n + 1], n + 1, RowWidth), rows, n + 1, 0)
<1> DEFINE order(m) == Register(rows[n + 1], n + 1, m)
           S == {m \in Nat : m <= RowWidth => RefsUpTo(order(m), rows, n, m)}
<1>1. 0 \in S
  BY RegisterSteps
<1>2. ASSUME NEW m \in Nat, m \in S PROVE m + 1 \in S
  <2>1. order(m + 1) = RegisterColumn(order(m), rows[n + 1], n + 1, m + 1)
    BY RegisterSteps
  <2> HIDE DEF order
  <2> SUFFICES ASSUME m + 1 <= RowWidth PROVE RefsUpTo(order(m + 1), rows, n, m + 1)
    OBVIOUS
  <2>2. m < RowWidth /\ m <= RowWidth
    BY TableFacts
  <2>3. RefsUpTo(order(m), rows, n, m)
    BY <1>2, <2>2
  <2>4. RefsUpTo(RegisterColumn(order(m), rows[n + 1], n + 1, m + 1), rows, n, m + 1)
    BY <2>2, <2>3, NextColumn, Zenon
  <2> QED
    BY <2>1, <2>4, Zenon
<1> HIDE DEF S
<1>3. Nat \subseteq S
  BY <1>1, <1>2, SetInduction
<1>4. RefsUpTo(order(RowWidth), rows, n, RowWidth)
  BY <1>3, TableFacts DEF S
<1> QED
  BY <1>4, NextRow, Zenon

\* While no sink has thrown, the rows have been read to the last.
RefsInv == NoSinkThrew => RefsUpTo(strls, written, Len(written), 0)

LEMMA SinkRowKeepsRefs ==
  ASSUME TypeInv, RefsInv, NEW t \in Threads, SinkRow(t) PROVE RefsInv'
<1> SUFFICES ASSUME NoSinkThrew PROVE RefsUpTo(strls', written', Len(written'), 0)
  BY DEF RefsInv, NoSinkThrew, SinkRow
<1>1. PICK r \in InputRows : strls' = Register(r, ObsIndex(t), RowWidth)
                             /\ written' = Append(written, r)
  BY DEF SinkRow
<1>2. IsList(written) /\ Len(written) \in Nat
  BY DEF TypeInv, TypeOK, IsList
<1>3. /\ Len(written') = Len(written) + 1 /\ written'[Len(written) + 1] = r
      /\ \A i \in 1 .. Len(written) : written'[i] = written[i]
  BY <1>1, <1>2, ListAppend
<1>4. ObsIndex(t) = Len(written) + 1
  <2>1. lock = t /\ lock # NoThread
    BY CopyThreadsAssumption DEF TypeInv, TypeOK, SinkRow
  <2> QED
    BY <2>1 DEF TypeInv, CountInv, ObsIndex
<1>5. RefsUpTo(strls, written', Len(written), 0)
  BY <1>2, <1>3, RowsSeenOnly DEF RefsInv
<1>6. RefsUpTo(Register(written'[Len(written) + 1], Len(written) + 1, RowWidth), written',
               Len(written) + 1, 0)
  BY <1>2, <1>5, RegisterRow
<1> QED
  BY <1>1, <1>3, <1>4, <1>6

LEMMA RefsInvariant == Spec => []RefsInv
<1>1. Init => RefsInv
  BY TableFacts DEF Init, RefsInv, RefsUpTo, IsList, Ordered, HasAll, Seen
<1>2. TypeInv /\ RefsInv /\ [Next]_vars => RefsInv'
  <2> SUFFICES ASSUME TypeInv, RefsInv, [Next]_vars PROVE RefsInv'
    OBVIOUS
  <2>1. ASSUME UNCHANGED <<strls, written>>, NoSinkThrew' => NoSinkThrew PROVE RefsInv'
    BY <2>1, Zenon DEF RefsInv
  <2>2. CASE UNCHANGED vars
    BY <2>1, <2>2 DEF vars, NoSinkThrew
  <2>3. ASSUME NEW t \in Threads, SinkStep(t) PROVE RefsInv'
    <3>1. CASE SinkRow(t)
      BY <3>1, SinkRowKeepsRefs
    <3>2. CASE SinkThrows(t) \/ RowWriteFails(t)
      <4>1. pc'[t] = "failed"
        BY <3>2 DEF SinkThrows, RowWriteFails, TypeInv, TypeOK
      <4> QED
        BY <4>1 DEF RefsInv, NoSinkThrew
    <3>3. CASE SinkCall(t) \/ SinkBegin(t) \/ SinkEnd(t) \/ ThreadEnds(t)
      BY <2>1, <3>3 DEF SinkCall, SinkBegin, SinkEnd, ThreadEnds, NoSinkThrew, TypeInv, TypeOK
    <3> QED
      BY <2>3, <3>1, <3>2, <3>3 DEF SinkStep
  <2>4. CASE WriterStep
    BY <2>1, <2>4 DEF WriterStep, WriteMetadata, Finalize, BeginTrailer, FinalizeWrite,
                      SyncAndClose, Drop, AppendFails, NoSinkThrew
  <2> QED
    BY <2>2, <2>3, <2>4 DEF Next, Over
<1> QED
  BY <1>1, <1>2, TypesInvariant, PTL DEF Spec

\* Whatever the threads do, the reference of a string is the cell where it
\* occurs first, the strings are in the order of their references, and every
\* string of the rows is among them.
THEOREM CopyRefsAreFirstOccurrences == Spec => []RefsAreFirstOccurrences
<1>1. TypeInv /\ RefsInv => RefsAreFirstOccurrences
  <2> SUFFICES ASSUME TypeInv, RefsInv, NoSinkThrew PROVE RefsAreFirstOccurrences
    BY DEF RefsAreFirstOccurrences
  <2> DEFINE n == Len(written)
  <2>1. n \in Nat /\ DOMAIN written = 1 .. n
    BY DEF TypeInv, TypeOK
  <2> HIDE DEF n
  <2>2. RefsUpTo(strls, written, n, 0)
    BY DEF RefsInv, n
  <2>3. DOMAIN strls = 1 .. Len(strls)
    BY DEF TypeInv, IsList
  <2>4. \A i, c \in Nat : Seen(i, c, n, 0) <=> i \in 1 .. n /\ c \in 1 .. RowWidth
    BY <2>1, TableFacts DEF Seen
  <2>5. Cells = (1 .. n) \X (1 .. RowWidth)
    BY <2>1, TableFacts DEF Cells
  <2>6. ASSUME NEW i \in DOMAIN strls
        PROVE  LET at == <<strls[i].o, strls[i].v>> IN
               /\ at \in Cells /\ Holds(at, strls[i].value)
               /\ \A cell \in Cells : Before(cell, at) => ~Holds(cell, strls[i].value)
    <3>1. IsFirst(strls[i], written, n, 0)
      BY <2>2, <2>3 DEF RefsUpTo
    <3> QED
      BY <2>4, <2>5, <3>1 DEF IsFirst, Occurs, Holds, Before, Precedes
  <2>7. ASSUME NEW i \in DOMAIN strls, NEW j \in DOMAIN strls, i < j
        PROVE  Before(<<strls[i].o, strls[i].v>>, <<strls[j].o, strls[j].v>>)
    BY <2>2, <2>3, <2>7 DEF RefsUpTo, Ordered, Precedes, Before
  <2>8. ASSUME NEW cell \in Cells, IsStrL(cell[2], written[cell[1]][cell[2]])
        PROVE  \E i \in DOMAIN strls : strls[i].value = written[cell[1]][cell[2]]
    <3>1. cell[1] \in 1 .. n /\ cell[2] \in 1 .. RowWidth /\ cell[1] \in Nat /\ cell[2] \in Nat
      BY <2>1, <2>5, TableFacts
    <3> QED
      BY <2>2, <2>3, <2>4, <2>8, <3>1 DEF RefsUpTo, HasAll
  <2> QED
    BY <2>6, <2>7, <2>8, Zenon DEF RefsAreFirstOccurrences
<1> QED
  BY <1>1, TypesInvariant, RefsInvariant, PTL

-----------------------------------------------------------------------------
(***************************************************************************)
(* The number of observations stays 0 until everything else is written.    *)
(***************************************************************************)
\* Where the threads are in each phase.
ThreadsInv ==
  /\ phase = "metadata" => \A t \in Threads : pc[t] = "idle"
  /\ phase \in {"finalize", "sync", "closed"} => AllEnded
  /\ phase # "sink" => \A t \in Threads : pc[t] \notin {"waiting", "chunk"}

MetadataInv ==
  phase = "metadata" =>
    /\ Len(pending) > 0 /\ Len(file) + Len(pending) = Len(Metadata)
    /\ \A i \in 1 .. Len(pending) :
         pending[i] = [slot |-> 0, token |-> Metadata[Len(file) + i]]
    /\ \A i \in 1 .. Len(file) : file[i] = Metadata[i]

\* Finalize appends first and overwrites the header afterwards.
PendingInv ==
  /\ IsList(pending)
  /\ phase = "finalize" =>
       /\ Len(pending) > 0
       /\ \A i, j \in 1 .. Len(pending) :
            i < j /\ pending[j].slot = 0 => pending[i].slot = 0

HeaderUntouched ==
  \/ phase \in {"metadata", "sink", "dropped"}
  \/ phase = "finalize" /\ pending[1].slot = 0

HeaderInv ==
  /\ phase \notin {"metadata", "dropped"} => Len(file) >= Len(Metadata)
  /\ HeaderUntouched => \A i \in 1 .. Len(Metadata) : i <= Len(file) => file[i] = Metadata[i]

FileInv == ThreadsInv /\ MetadataInv /\ PendingInv /\ HeaderInv

LEMMA FileInit == Init => FileInv
<1> SUFFICES ASSUME Init PROVE FileInv
  OBVIOUS
<1>1. IsList(Appends(Metadata)) /\ Len(Appends(Metadata)) = 7
      /\ \A i \in 1 .. 7 : Appends(Metadata)[i] = [slot |-> 0, token |-> Metadata[i]]
  BY MetadataFacts DEF Appends, IsList
<1>2. ThreadsInv
  BY DEF Init, ThreadsInv
<1>3. MetadataInv
  BY <1>1, MetadataFacts DEF Init, MetadataInv
<1>4. PendingInv
  BY <1>1 DEF Init, PendingInv
<1>5. HeaderInv
  BY DEF Init, HeaderInv
<1> QED
  BY <1>2, <1>3, <1>4, <1>5 DEF FileInv

LEMMA ThreadKeepsFile ==
  ASSUME TypeInv, FileInv, NEW t \in Threads, SinkStep(t) PROVE FileInv'
<1>1. phase' = phase /\ pending' = pending /\ phase = "sink"
  BY DEF SinkStep, SinkCall, SinkBegin, SinkRow, SinkEnd, SinkThrows, RowWriteFails,
         ThreadEnds, FileInv, ThreadsInv
<1>2. ThreadsInv'
  BY <1>1 DEF ThreadsInv
<1>3. MetadataInv' /\ PendingInv'
  BY <1>1 DEF FileInv, MetadataInv, PendingInv
<1>4. \E tokens : IsList(tokens) /\ (file' = file \/ file' = file \o tokens)
  <2>1. CASE SinkRow(t)
    <3>1. PICK r \in InputRows :
            file' = file \o [c \in ColumnIds |->
              EncodeCell(Register(r, ObsIndex(t), RowWidth), c, r[c])]
      BY <2>1 DEF SinkRow
    <3>2. IsList([c \in ColumnIds |->
              EncodeCell(Register(r, ObsIndex(t), RowWidth), c, r[c])])
      BY TableFacts DEF IsList
    <3> QED
      BY <3>1, <3>2
  <2>2. CASE RowWriteFails(t)
    <3>1. PICK r \in InputRows, n \in 0 .. RowWidth - 1 :
            file' = file \o [c \in 1 .. n |->
              EncodeCell(Register(r, ObsIndex(t), RowWidth), c, r[c])]
      BY <2>2 DEF RowWriteFails
    <3>2. n \in Nat
      BY TableFacts
    <3>3. IsList([c \in 1 .. n |->
              EncodeCell(Register(r, ObsIndex(t), RowWidth), c, r[c])])
      BY <3>2 DEF IsList
    <3> QED
      BY <3>1, <3>3
  <2>3. CASE file' = file
    <3>1. IsList(<<>>)
      BY DEF IsList
    <3> QED
      BY <2>3, <3>1
  <2> QED
    BY <2>1, <2>2, <2>3
       DEF SinkStep, SinkCall, SinkBegin, SinkEnd, SinkThrows, ThreadEnds
<1>5. HeaderInv'
  <2>1. IsList(file) /\ Len(file) >= 7 /\ \A i \in 1 .. 7 : file[i] = Metadata[i]
    BY <1>1, MetadataFacts DEF TypeInv, FileInv, HeaderInv, HeaderUntouched, IsList
  <2>2. Len(file') >= 7 /\ \A i \in 1 .. 7 : file'[i] = file[i]
    BY <1>4, <2>1, ListConcat DEF IsList
  <2> QED
    BY <1>1, <2>1, <2>2, MetadataFacts DEF HeaderInv
<1> QED
  BY <1>2, <1>3, <1>5 DEF FileInv

\* Adding a token leaves the others where they are.
LEMMA MetadataKeepsFile ==
  ASSUME TypeInv, FileInv, WriteMetadata PROVE FileInv'
<1>1. IsList(file) /\ IsList(pending) /\ Len(pending) > 0
      /\ Len(file) + Len(pending) = 7
  BY MetadataFacts DEF WriteMetadata, TypeInv, FileInv, MetadataInv, PendingInv
<1>2. /\ IsList(pending') /\ Len(pending') = Len(pending) - 1
      /\ \A i \in 1 .. Len(pending) - 1 : pending'[i] = pending[i + 1]
      /\ Head(pending) = pending[1]
  BY <1>1, ListTail DEF WriteMetadata
<1>3. \A i \in 1 .. Len(pending) :
        pending[i] = [slot |-> 0, token |-> Metadata[Len(file) + i]]
  BY DEF WriteMetadata, FileInv, MetadataInv
<1>4. Head(pending).slot = 0 /\ Head(pending).token = Metadata[Len(file) + 1]
  <2>1. 1 \in 1 .. Len(pending)
    BY <1>1 DEF IsList
  <2>2. pending[1] = [slot |-> 0, token |-> Metadata[Len(file) + 1]]
    BY <1>3, <2>1
  <2>3. Head(pending) = [slot |-> 0, token |-> Metadata[Len(file) + 1]]
    BY <1>2, <2>2
  <2> QED
    BY <2>3
<1>5. file' = Append(file, Metadata[Len(file) + 1])
  BY <1>4 DEF WriteMetadata, Write
<1>6. /\ IsList(file') /\ Len(file') = Len(file) + 1
      /\ \A i \in 1 .. Len(file) : file'[i] = file[i]
      /\ file'[Len(file) + 1] = Metadata[Len(file) + 1]
  BY <1>1, <1>5, ListAppend
<1>7. \A i \in 1 .. Len(file') : file'[i] = Metadata[i]
  BY <1>1, <1>6 DEF WriteMetadata, FileInv, MetadataInv, IsList
<1>8. /\ UNCHANGED pc /\ phase = "metadata"
      /\ phase' = IF Len(pending') = 0 THEN "sink" ELSE "metadata"
  BY <1>2, ListEmpty DEF WriteMetadata
<1>9. MetadataInv'
  <2>1. \A i \in 1 .. Len(pending') :
          pending'[i] = [slot |-> 0, token |-> Metadata[Len(file') + i]]
    <3>1. SUFFICES ASSUME NEW i \in 1 .. Len(pending')
                   PROVE  pending'[i] = [slot |-> 0, token |-> Metadata[Len(file') + i]]
      OBVIOUS
    <3>2. i + 1 \in 1 .. Len(pending) /\ pending'[i] = pending[i + 1]
          /\ Len(file) + (i + 1) = Len(file') + i
      BY <1>1, <1>2, <1>6 DEF IsList
    <3> QED
      BY <1>3, <3>2
  <2>2. phase' = "metadata" => Len(pending') > 0
    BY <1>1, <1>2, <1>8 DEF IsList
  <2>3. Len(file') + Len(pending') = 7
    BY <1>1, <1>2, <1>6 DEF IsList
  <2> QED
    BY <1>7, <2>1, <2>2, <2>3, MetadataFacts DEF MetadataInv
<1>10. HeaderInv'
  <2>1. \A i \in 1 .. 7 : i <= Len(file') => file'[i] = Metadata[i]
    BY <1>6, <1>7 DEF IsList
  <2>2. phase' \notin {"metadata", "dropped"} => Len(file') >= 7
    BY <1>1, <1>2, <1>6, <1>8 DEF IsList
  <2> QED
    BY <2>1, <2>2, MetadataFacts DEF HeaderInv
<1>11. ThreadsInv' /\ PendingInv'
  BY <1>2, <1>8 DEF FileInv, ThreadsInv, PendingInv
<1> QED
  BY <1>9, <1>10, <1>11 DEF FileInv

LEMMA TrailerIsList ==
  ASSUME IsList(strls)
  PROVE  IsList(Trailer)
<1>1. IsList(GSOs)
  BY DEF GSOs, IsList
<1>2. IsList(LabelTables)
  <2>1. IsFiniteSet(ColumnIds)
    BY FS_Interval, TableFacts
  <2>2. IsFiniteSet(EnumColumns)
    BY <2>1, FS_Subset DEF EnumColumns
  <2>3. Cardinality(EnumColumns) \in Nat
    BY <2>2, FS_CardinalityType
  <2> QED
    BY <2>3 DEF LabelTables, IsList
<1>3. \A a, b : IsList(<<a, b>>)
  BY DEF IsList
<1> HIDE DEF GSOs, LabelTables
<1> QED
  BY <1>1, <1>2, <1>3, ListConcat, Zenon DEF Trailer

LEMMA FinalizeKeepsFile ==
  ASSUME TypeInv, FileInv, Finalize PROVE FileInv'
<1> DEFINE appends == Appends(Trailer)
           rewrites == HeaderRewrites(offset')
<1>1. IsList(Trailer)
  BY TrailerIsList DEF TypeInv
<1>2. /\ IsList(appends)
      /\ \A i \in 1 .. Len(appends) : appends[i].slot = 0
  BY <1>1 DEF Appends, IsList
<1>3. /\ IsList(rewrites) /\ Len(rewrites) = 4
      /\ \A i \in 1 .. 4 : rewrites[i].slot # 0
  BY DEF HeaderRewrites, IsList, ObsSlot, DataSlot, StrLsSlot, LabelsSlot
<1>4. pending' = appends \o rewrites
  BY DEF Finalize, BeginTrailer
<1>5. phase = "sink" /\ phase' = "finalize" /\ UNCHANGED <<pc, file>> /\ AllEnded
  BY DEF Finalize, BeginTrailer
<1> HIDE DEF appends, rewrites
<1>6. /\ IsList(pending') /\ Len(pending') = Len(appends) + 4
      /\ \A i \in 1 .. Len(appends) : pending'[i] = appends[i]
      /\ \A i \in 1 .. 4 : pending'[Len(appends) + i] = rewrites[i]
  <2> DEFINE s == appends \o rewrites
  <2>1. /\ IsList(s) /\ Len(s) = Len(appends) + Len(rewrites)
        /\ \A i \in 1 .. Len(appends) : s[i] = appends[i]
        /\ \A i \in 1 .. Len(rewrites) : s[Len(appends) + i] = rewrites[i]
    <3>1. IsList(appends) /\ IsList(rewrites)
      BY <1>2, <1>3
    <3> QED
      BY <3>1, ListConcat
  <2> QED
    BY <1>3, <1>4, <2>1, Zenon
<1>7. PendingInv'
  <2>1. ASSUME NEW i \in 1 .. Len(pending'), NEW j \in 1 .. Len(pending'),
               i < j, pending'[j].slot = 0
        PROVE  pending'[i].slot = 0
    <3>1. Len(appends) \in Nat
      BY <1>2 DEF IsList
    <3>2. CASE j \in 1 .. Len(appends)
      BY <1>2, <1>6, <2>1, <3>1, <3>2
    <3>3. CASE j - Len(appends) \in 1 .. 4
      <4>1. pending'[Len(appends) + (j - Len(appends))] = rewrites[j - Len(appends)]
        BY <1>6, <3>3
      <4>2. Len(appends) + (j - Len(appends)) = j
        BY <3>1
      <4> QED
        BY <1>3, <2>1, <3>3, <4>1, <4>2
    <3> QED
      BY <1>6, <3>1, <3>2, <3>3
  <2>2. Len(pending') > 0
    BY <1>2, <1>6 DEF IsList
  <2> QED
    BY <1>6, <2>1, <2>2 DEF PendingInv
<1>8. ThreadsInv'
  BY <1>5 DEF ThreadsInv, AllEnded
<1>9. MetadataInv' /\ HeaderInv'
  BY <1>5 DEF FileInv, MetadataInv, HeaderInv, HeaderUntouched
<1> QED
  BY <1>7, <1>8, <1>9 DEF FileInv

LEMMA FinalizeWriteKeepsFile ==
  ASSUME TypeInv, FileInv, FinalizeWrite PROVE FileInv'
<1>1. IsList(file) /\ IsList(pending) /\ Len(pending) > 0 /\ Len(file) >= 7
  BY MetadataFacts DEF FinalizeWrite, TypeInv, FileInv, PendingInv, HeaderInv
<1>2. /\ IsList(pending') /\ Len(pending') = Len(pending) - 1
      /\ \A i \in 1 .. Len(pending) - 1 : pending'[i] = pending[i + 1]
      /\ Head(pending) = pending[1]
  BY <1>1, ListTail DEF FinalizeWrite
<1>3. /\ UNCHANGED pc /\ phase = "finalize"
      /\ phase' = IF Len(pending') = 0 THEN "sync" ELSE "finalize"
  BY <1>2, ListEmpty DEF FinalizeWrite
<1>4. \A i, j \in 1 .. Len(pending) :
        i < j /\ pending[j].slot = 0 => pending[i].slot = 0
  BY <1>3 DEF FileInv, PendingInv
<1>5. PendingInv'
  <2>1. ASSUME NEW i \in 1 .. Len(pending'), NEW j \in 1 .. Len(pending'),
               i < j, pending'[j].slot = 0
        PROVE  pending'[i].slot = 0
    BY <1>1, <1>2, <1>4, <2>1 DEF IsList
  <2>2. phase' = "finalize" => Len(pending') > 0
    BY <1>1, <1>2, <1>3 DEF IsList
  <2> QED
    BY <1>2, <2>1, <2>2 DEF PendingInv
<1>6. HeaderInv'
  <2>1. CASE pending[1].slot = 0
    <3>1. file' = Append(file, pending[1].token)
      BY <1>2, <2>1 DEF FinalizeWrite, Write
    <3>2. \A i \in 1 .. 7 : file[i] = Metadata[i]
      BY <1>1, <1>3, <2>1, MetadataFacts DEF FileInv, HeaderInv, HeaderUntouched, IsList
    <3>3. Len(file') >= 7 /\ \A i \in 1 .. 7 : file'[i] = Metadata[i]
      BY <1>1, <3>1, <3>2, ListAppend DEF IsList
    <3> QED
      BY <3>3, MetadataFacts DEF HeaderInv
  <2>2. CASE pending[1].slot # 0
    <3>1. file' = [file EXCEPT ![pending[1].slot] = pending[1].token]
      BY <1>2, <2>2 DEF FinalizeWrite, Write
    <3>2. Len(file') >= 7
      BY <1>1, <3>1 DEF IsList
    <3>3. Len(pending') > 0 => pending'[1].slot # 0
      BY <1>1, <1>2, <1>4, <2>2 DEF IsList
    <3>4. ~HeaderUntouched'
      BY <1>1, <1>2, <1>3, <3>3 DEF HeaderUntouched, IsList
    <3> QED
      BY <3>2, <3>4, MetadataFacts DEF HeaderInv
  <2> QED
    BY <2>1, <2>2
<1>7. ThreadsInv'
  BY <1>3 DEF FileInv, ThreadsInv, AllEnded
<1>8. MetadataInv'
  BY <1>3 DEF MetadataInv
<1> QED
  BY <1>5, <1>6, <1>7, <1>8 DEF FileInv

LEMMA EndKeepsFile ==
  ASSUME TypeInv, FileInv, SyncAndClose \/ Drop \/ AppendFails PROVE FileInv'
<1>1. UNCHANGED <<pc, pending, file>>
  BY DEF SyncAndClose, Drop, AppendFails
<1>2. CASE SyncAndClose
  BY <1>1, <1>2 DEF SyncAndClose, FileInv, ThreadsInv, AllEnded, MetadataInv, PendingInv,
                    HeaderInv, HeaderUntouched
<1>3. CASE Drop
  BY <1>1, <1>3 DEF Drop, CopyGivenUp, FileInv, ThreadsInv, MetadataInv, PendingInv,
                    HeaderInv, HeaderUntouched
<1>4. CASE AppendFails
  <2>1. phase \in {"metadata", "finalize"} /\ phase' = "dropped" /\ Head(pending).slot = 0
    BY <1>4 DEF AppendFails
  <2>2. Head(pending) = pending[1]
    BY <2>1, ListTail DEF FileInv, MetadataInv, PendingInv
  <2>3. HeaderUntouched
    BY <2>1, <2>2 DEF HeaderUntouched
  <2>4. ThreadsInv'
    BY <1>1, <2>1 DEF FileInv, ThreadsInv, AllEnded
  <2>5. HeaderInv'
    BY <1>1, <2>1, <2>3 DEF FileInv, HeaderInv
  <2>6. MetadataInv' /\ PendingInv'
    BY <1>1, <2>1 DEF FileInv, MetadataInv, PendingInv
  <2> QED
    BY <2>4, <2>5, <2>6 DEF FileInv
<1> QED
  BY <1>2, <1>3, <1>4

LEMMA FileInvariant == Spec => []FileInv
<1>1. TypeInv /\ FileInv /\ [Next]_vars => FileInv'
  <2> SUFFICES ASSUME TypeInv, FileInv, [Next]_vars PROVE FileInv'
    OBVIOUS
  <2>1. CASE UNCHANGED vars
    BY <2>1 DEF vars, FileInv, ThreadsInv, AllEnded, MetadataInv, PendingInv, HeaderInv,
                HeaderUntouched, IsList
  <2>2. CASE WriterStep
    BY <2>2, MetadataKeepsFile, FinalizeKeepsFile, FinalizeWriteKeepsFile, EndKeepsFile
       DEF WriterStep
  <2> QED
    BY <2>1, <2>2, ThreadKeepsFile DEF Next, Over
<1> QED
  BY FileInit, TypesInvariant, <1>1, PTL DEF Spec

\* A COPY in which a sink or a write at the end of the file has failed shows
\* no row: the number of observations was 0 from the start, and is written
\* only when all other writes that can fail are done.
THEOREM CopyFailedShowsNothing == Spec => []FailedCopyShowsNothing
<1>1. TypeInv /\ FileInv => FailedCopyShowsNothing
  <2> SUFFICES ASSUME TypeInv, FileInv, phase = "dropped" \/ ~NoSinkThrew, NEW withLabels \in BOOLEAN
               PROVE  ReadBack(file, withLabels).rows = <<>>
    BY DEF FailedCopyShowsNothing
  <2>1. HeaderUntouched
    BY DEF TypeInv, TypeOK, FileInv, ThreadsInv, AllEnded, NoSinkThrew, HeaderUntouched
  <2>2. CASE BindSucceeds(file, withLabels)
    <3>1. Len(file) >= 6 /\ file[2] = Metadata[2]
      BY <2>1, <2>2, MetadataFacts DEF BindSucceeds, ReaderOpens, FileInv, HeaderInv
    <3>2. NumObs(file) = 0
      BY <3>1 DEF Metadata, NumObs, ObsSlot, ObsCount
    <3> QED
      BY <2>2, <3>2 DEF ReadBack
  <2>3. CASE ~BindSucceeds(file, withLabels)
    BY <2>3 DEF ReadBack
  <2> QED
    BY <2>2, <2>3
<1> QED
  BY <1>1, TypesInvariant, FileInvariant, PTL
=============================================================================
