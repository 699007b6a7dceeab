------------------------------ MODULE DtaCopy ------------------------------
(***************************************************************************)
(* COPY ... TO ... (FORMAT dta): the sink of src/src/write_dta_function.cpp *)
(* over the file writer of src/src/dta_writer.cpp.  Sinks append rows      *)
(* under the global state's mutex and register their strings; finalising   *)
(* appends the strings and the value labels and then goes back to write    *)
(* the number of observations and the map.                                 *)
(*                                                                         *)
(* Abstractions.  The file is a sequence of tokens (DtaFile); a row is     *)
(* appended by one write and each other token by one of its own, and only  *)
(* writes that extend the file may fail (a full disk).  The                *)
(* query engine calls the sink from several threads, combines and          *)
(* finalises only when every thread has ended without an exception, and    *)
(* drops the writer otherwise.  A crash needs no action: the file it       *)
(* leaves behind is the file of the state it happens in.                   *)
(***************************************************************************)
EXTENDS DtaFile

CONSTANTS
  Threads,      \* the engine's threads
  NoThread,     \* nobody: the owner of a free mutex
  InputRows,    \* the rows the query may produce
  OutOfRange,   \* a number outside the range of the column's Stata type
  ChunkSize,    \* bound on the rows of a chunk (STANDARD_VECTOR_SIZE)
  MaxRows,      \* bound on the rows of the query
  DiskMayFill   \* a write at the end of the file may throw

ASSUME CopyThreadsAssumption == NoThread \notin Threads
ASSUME BoundsAssumption == ChunkSize \in Nat \ {0} /\ MaxRows \in Nat
\* A value of an ENUM type is one of its labels, or NULL.
ASSUME EnumAssumption ==
  \A r \in InputRows, c \in EnumColumns :
    r[c] = Null \/ \E code \in DOMAIN Dictionary : r[c] = Dictionary[code]

VARIABLES
  phase,        \* "metadata", "sink", "finalize", "sync", "closed", "dropped"
  lock,         \* owner of WriteDtaGlobalState::lock
  pc,           \* "idle", "waiting" (for the mutex), "chunk", "failed", "ended"
  row,          \* rows of its chunk the thread has written
  rowsWritten,  \* WriteDtaGlobalState::rows_written
  strls,        \* strl_order_: the registered strings with their references
  offset,       \* offsets_: where the sections the map names begin
  pending,      \* the writes of the metadata or of Finalize still to do
  file,         \* the tokens in the file
  written       \* the rows appended so far, as the query produced them

vars == <<phase, lock, pc, row, rowsWritten, strls, offset, pending, file,
          written>>

NoOffset == [data |-> 0, strls |-> 0, labels |-> 0]

Appends(tokens) == [i \in DOMAIN tokens |-> [slot |-> 0, token |-> tokens[i]]]

\* Opening the file truncates it; WriteMetadata follows.
Init ==
  /\ phase = "metadata"
  /\ lock = NoThread
  /\ pc = [t \in Threads |-> "idle"]
  /\ row = [t \in Threads |-> 0]
  /\ rowsWritten = 0
  /\ strls = <<>>
  /\ offset = NoOffset
  /\ pending = Appends(Metadata)
  /\ file = <<>>
  /\ written = <<>>

\* One write: at the end of the file, or over the token at a slot.
Write(w) == file' = IF w.slot = 0 THEN Append(file, w.token)
                    ELSE [file EXCEPT ![w.slot] = w.token]

\* The <data> section begins where WriteMetadata ends.
WriteMetadata ==
  /\ phase = "metadata"
  /\ Write(Head(pending))
  /\ pending' = Tail(pending)
  /\ IF pending' = <<>>
     THEN /\ phase' = "sink"
          /\ offset' = [offset EXCEPT !.data = Len(file)]
     ELSE UNCHANGED <<phase, offset>>
  /\ UNCHANGED <<lock, pc, row, rowsWritten, strls, written>>

-----------------------------------------------------------------------------
(***************************************************************************)
(* AddStrL: a string seen before keeps its first reference.                *)
(***************************************************************************)
\* Mutant: the string is not looked up.
AddStrLAlways(order, c, o, s) ==
  Append(order, [value |-> s, v |-> c, o |-> o])

AddStrL(order, c, o, s) ==
  IF \E i \in DOMAIN order : order[i].value = s THEN order
  ELSE Append(order, [value |-> s, v |-> c, o |-> o])

RefOf(order, s) == LET i == CHOOSE i \in DOMAIN order : order[i].value = s
                   IN  StrLKey(order[i].v, order[i].o)

IsStrL(c, value) == Columns[c] = "str" /\ value \notin {Null, ""}

\* strl_order_ after the first n columns of row r, which is observation o.
Register(r, o, n) ==
  LET after[c \in 0 .. n] ==
        IF c = 0 THEN strls
        ELSE IF IsStrL(c, r[c]) THEN AddStrL(after[c - 1], c, o, r[c])
        ELSE after[c - 1]
  IN  after[n]

EncodeCell(order, c, value) ==
  CASE Columns[c] = "str"  -> [kind |-> "str",
                               ref |-> IF IsStrL(c, value)
                                       THEN RefOf(order, value) ELSE <<0, 0>>]
    [] Columns[c] = "num"  -> [kind |-> "num", value |-> value]
    [] Columns[c] = "enum" -> [kind |-> "enum",
                               value |-> IF value = Null THEN Null
                                         ELSE CodeOf(value)]

-----------------------------------------------------------------------------
(***************************************************************************)
(* WriteDtaSink, one chunk of the query: everything between taking the     *)
(* mutex and giving it back, row by row.                                   *)
(***************************************************************************)
\* Mutants: a mutex not taken, or not given back by an exception; an
\* observation number that restarts with each chunk.
LockIgnored == TRUE
LockKept == lock
ObsWithinChunk(t) == row[t] + 1

LockFree == lock = NoThread
LockAfterThrow == NoThread
ObsIndex(t) == rowsWritten + row[t] + 1

\* The thread calls the sink with a chunk and waits for the mutex.
SinkCall(t) ==
  /\ phase = "sink" /\ pc[t] = "idle" /\ Len(written) < MaxRows
  /\ pc' = [pc EXCEPT ![t] = "waiting"]
  /\ UNCHANGED <<phase, lock, row, rowsWritten, strls, offset, pending, file,
                 written>>

SinkBegin(t) ==
  /\ pc[t] = "waiting" /\ LockFree
  /\ lock' = t
  /\ pc' = [pc EXCEPT ![t] = "chunk"]
  /\ row' = [row EXCEPT ![t] = 0]
  /\ UNCHANGED <<phase, rowsWritten, strls, offset, pending, file, written>>

SinkRow(t) ==
  /\ pc[t] = "chunk" /\ row[t] < ChunkSize /\ Len(written) < MaxRows
  /\ \E r \in InputRows :
       /\ \A c \in ColumnIds : r[c] # OutOfRange
       /\ LET order == Register(r, ObsIndex(t), RowWidth) IN
            /\ strls' = order
            /\ file' = file \o [c \in ColumnIds |-> EncodeCell(order, c, r[c])]
       /\ written' = Append(written, r)
  /\ row' = [row EXCEPT ![t] = @ + 1]
  /\ UNCHANGED <<phase, lock, pc, rowsWritten, offset, pending>>

\* A value out of range throws in the middle of its row: the strings of the
\* columns before it stay registered, the earlier rows of the chunk stay in
\* the file and are not counted.
SinkThrows(t) ==
  /\ pc[t] = "chunk" /\ row[t] < ChunkSize
  /\ \E r \in InputRows, c \in ColumnIds :
       /\ r[c] = OutOfRange
       /\ \A d \in 1 .. c - 1 : r[d] # OutOfRange
       /\ strls' = Register(r, ObsIndex(t), c - 1)
  /\ lock' = LockAfterThrow
  /\ pc' = [pc EXCEPT ![t] = "failed"]
  /\ UNCHANGED <<phase, row, rowsWritten, offset, pending, file, written>>

\* WriteRowData throws with part of the row in the file.
RowWriteFails(t) ==
  /\ DiskMayFill
  /\ pc[t] = "chunk" /\ row[t] < ChunkSize
  /\ \E r \in InputRows, n \in 0 .. RowWidth - 1 :
       /\ \A c \in ColumnIds : r[c] # OutOfRange
       /\ LET order == Register(r, ObsIndex(t), RowWidth) IN
            /\ strls' = order
            /\ file' = file \o [c \in 1 .. n |-> EncodeCell(order, c, r[c])]
  /\ lock' = LockAfterThrow
  /\ pc' = [pc EXCEPT ![t] = "failed"]
  /\ UNCHANGED <<phase, row, rowsWritten, offset, pending, written>>

\* The chunk is done; a chunk has at least one row.
SinkEnd(t) ==
  /\ pc[t] = "chunk" /\ (row[t] > 0 \/ Len(written) = MaxRows)
  /\ rowsWritten' = rowsWritten + row[t]
  /\ lock' = NoThread
  /\ pc' = [pc EXCEPT ![t] = "idle"]
  /\ UNCHANGED <<phase, row, strls, offset, pending, file, written>>

\* The thread's part of the query is over (WriteDtaCombine does nothing).
ThreadEnds(t) ==
  /\ phase = "sink" /\ pc[t] = "idle"
  /\ pc' = [pc EXCEPT ![t] = "ended"]
  /\ UNCHANGED <<phase, lock, row, rowsWritten, strls, offset, pending, file,
                 written>>

-----------------------------------------------------------------------------
(***************************************************************************)
(* Finalize.  The engine calls it only when no sink has thrown.            *)
(***************************************************************************)
\* Mutants: the header rewritten in another order.
MapBackwards(at) ==
  << [slot |-> ObsSlot, token |-> ObsCount(rowsWritten)],
     [slot |-> LabelsSlot, token |-> MapEntry(at.labels)],
     [slot |-> StrLsSlot, token |-> MapEntry(at.strls)],
     [slot |-> DataSlot, token |-> MapEntry(at.data)] >>
MapFirst(at) ==
  << [slot |-> DataSlot, token |-> MapEntry(at.data)],
     [slot |-> StrLsSlot, token |-> MapEntry(at.strls)],
     [slot |-> LabelsSlot, token |-> MapEntry(at.labels)],
     [slot |-> ObsSlot, token |-> ObsCount(rowsWritten)] >>

AllEnded == \A t \in Threads : pc[t] = "ended"

GSOs == [i \in DOMAIN strls |-> [kind |-> "GSO", v |-> strls[i].v,
                                 o |-> strls[i].o, value |-> strls[i].value]]

\* Everything after the rows, and the header once the end is written.
Trailer == << Tag("</data>"), Tag("<strls>") >> \o GSOs
           \o << Tag("</strls>"), Tag("<value_labels>") >> \o LabelTables
           \o << Tag("</value_labels>"), Tag("</stata_dta>") >>

HeaderRewrites(at) ==
  << [slot |-> ObsSlot, token |-> ObsCount(rowsWritten)],
     [slot |-> DataSlot, token |-> MapEntry(at.data)],
     [slot |-> StrLsSlot, token |-> MapEntry(at.strls)],
     [slot |-> LabelsSlot, token |-> MapEntry(at.labels)] >>

\* The offsets of the sections are known before the first write.
BeginTrailer ==
  /\ phase' = "finalize"
  /\ offset' = [offset EXCEPT !.strls = Len(file) + 1,
                              !.labels = Len(file) + 3 + Len(strls)]
  /\ pending' = Appends(Trailer) \o HeaderRewrites(offset')
  /\ UNCHANGED <<lock, pc, row, rowsWritten, strls, file, written>>

Finalize ==
  /\ phase = "sink" /\ AllEnded
  /\ BeginTrailer

FinalizeWrite ==
  /\ phase = "finalize"
  /\ Write(Head(pending))
  /\ pending' = Tail(pending)
  /\ phase' = IF pending' = <<>> THEN "sync" ELSE phase
  /\ UNCHANGED <<lock, pc, row, rowsWritten, strls, offset, written>>

SyncAndClose ==
  /\ phase = "sync"
  /\ phase' = "closed"
  /\ UNCHANGED <<lock, pc, row, rowsWritten, strls, offset, pending, file,
                 written>>

\* A sink threw: the engine gives up and destroys the writer.
\* Mutant: the destructor finalises.
CopyGivenUp ==
  /\ phase = "sink"
  /\ \A t \in Threads : pc[t] \in {"ended", "failed"}
  /\ \E t \in Threads : pc[t] = "failed"

DropFinalizes == CopyGivenUp /\ BeginTrailer

Drop ==
  /\ CopyGivenUp
  /\ phase' = "dropped"
  /\ UNCHANGED <<lock, pc, row, rowsWritten, strls, offset, pending, file,
                 written>>

\* A write of the metadata or of the trailer throws, and so does the query.
AppendFails ==
  /\ DiskMayFill
  /\ phase \in {"metadata", "finalize"}
  /\ Head(pending).slot = 0
  /\ phase' = "dropped"
  /\ UNCHANGED <<lock, pc, row, rowsWritten, strls, offset, pending, file,
                 written>>

Over ==
  /\ phase \in {"closed", "dropped"}
  /\ UNCHANGED vars

SinkStep(t) ==
  \/ SinkCall(t) \/ SinkBegin(t) \/ SinkRow(t) \/ SinkEnd(t)
  \/ SinkThrows(t) \/ RowWriteFails(t)
  \/ ThreadEnds(t)
WriterStep ==
  \/ WriteMetadata \/ Finalize \/ FinalizeWrite \/ SyncAndClose
  \/ Drop \/ AppendFails

Next == (\E t \in Threads : SinkStep(t)) \/ WriterStep \/ Over

\* A chunk that was begun is worked off, a query ends, and the engine goes on.
Fairness == WF_vars(WriterStep) /\ \A t \in Threads : WF_vars(SinkStep(t))

Spec == Init /\ [][Next]_vars
FairSpec == Spec /\ Fairness

-----------------------------------------------------------------------------
NoSinkThrew == \A t \in Threads : pc[t] # "failed"

(***************************************************************************)
(* The types of the variables; the mutex is held by the thread that is in  *)
(* the middle of a chunk.                                                  *)
(***************************************************************************)
TypeOK ==
  /\ phase \in {"metadata", "sink", "finalize", "sync", "closed", "dropped"}
  /\ lock \in Threads \cup {NoThread}
  /\ pc \in [Threads -> {"idle", "waiting", "chunk", "failed", "ended"}]
  /\ row \in [Threads -> 0 .. ChunkSize]
  /\ rowsWritten \in 0 .. MaxRows
  /\ offset \in [DOMAIN NoOffset -> Nat]
  /\ written \in Seq(InputRows) /\ Len(written) <= MaxRows
  /\ \A t \in Threads : pc[t] = "chunk" <=> lock = t

(***************************************************************************)
(* The reference of a string is the cell of a strL column where it occurs   *)
(* first, reading the rows in the order of the file; the strings are       *)
(* registered in that order, each once, and none that occurs is missing.   *)
(***************************************************************************)
Cells == (DOMAIN written) \X ColumnIds
Before(a, b) == a[1] < b[1] \/ (a[1] = b[1] /\ a[2] < b[2])
Holds(cell, s) == Columns[cell[2]] = "str" /\ written[cell[1]][cell[2]] = s

RefsAreFirstOccurrences ==
  NoSinkThrew =>
    /\ \A i \in DOMAIN strls :
         LET at == <<strls[i].o, strls[i].v>> IN
           /\ at \in Cells /\ Holds(at, strls[i].value)
           /\ \A cell \in Cells : Before(cell, at) => ~Holds(cell, strls[i].value)
    /\ \A i, j \in DOMAIN strls : i < j =>
         Before(<<strls[i].o, strls[i].v>>, <<strls[j].o, strls[j].v>>)
    /\ \A cell \in Cells : LET value == written[cell[1]][cell[2]] IN
         IsStrL(cell[2], value) => \E i \in DOMAIN strls : strls[i].value = value

(***************************************************************************)
(* A finalised file reads back as the rows that were written, in their     *)
(* order, with value labels and without, and counts them all.              *)
(***************************************************************************)
FinalizedReadsBack ==
  phase = "closed" =>
    \A labels \in BOOLEAN :
      ReadBack(file, labels) = [ok |-> TRUE, rows |-> Shown(written, labels)]

(***************************************************************************)
(* The README: format 119 supports up to 2 billion variables.  So a table  *)
(* reads back also when it has as many columns as the column part of a     *)
(* strL reference has values, 2^24.                                        *)
(***************************************************************************)
WideTablesReadBack == Len(Columns) >= VMod => FinalizedReadsBack

(***************************************************************************)
(* Whatever moment the process dies at, read_dta rejects the file, shows   *)
(* no row or shows every row.  The exception is the moment between two     *)
(* writes of Finalize: N is set, the map not yet, and the rows would be    *)
(* read from the start of the file; a strL column, or reading with value   *)
(* labels, turns it into an error as well.                                 *)
(***************************************************************************)
TornHeader == file[ObsSlot].n > 0 /\ file[DataSlot].pos = 0

CrashShowsNothingOrAll ==
  \A labels \in BOOLEAN : LET seen == ReadBack(file, labels) IN
    seen.ok => \/ seen.rows \in {<<>>, Shown(written, labels)}
               \/ TornHeader /\ ~HasStrLs /\ ~labels

(***************************************************************************)
(* A COPY that failed shows no row, whatever its other threads wrote       *)
(* before or after the failure.                                            *)
(***************************************************************************)
FailedCopyShowsNothing ==
  phase = "dropped" \/ ~NoSinkThrew =>
    \A labels \in BOOLEAN : ReadBack(file, labels).rows = <<>>

(***************************************************************************)
(* With a strL column the COPY is atomic for a reader: it implements       *)
(* CopyContract, whose table appears complete or not at all.               *)
(***************************************************************************)
Contract == INSTANCE CopyContract WITH
  Rows <- {Shown(<<r>>, FALSE)[1] : r \in InputRows},
  accepted <- Shown(written, FALSE),
  table <- ReadBack(file, FALSE),
  failed <- phase = "dropped" \/ ~NoSinkThrew

ImplementsContract == Contract!Spec

(***************************************************************************)
(* A COPY comes to its end, also when sinks or writes throw: no thread     *)
(* waits for the mutex for ever.                                           *)
(***************************************************************************)
CopyEnds == <>(phase \in {"closed", "dropped"})
=============================================================================
