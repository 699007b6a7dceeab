------------------------------ MODULE DtaScan ------------------------------
(***************************************************************************)
(* The parallel scan of read_dta (src/src/read_dta_function.cpp) over one  *)
(* open DtaReader (src/src/dta_reader.cpp): scan tasks claim ranges of     *)
(* rows under the global state's mutex, read them into their own row       *)
(* buffer through the shared file handle, apply the pushed-down filter and *)
(* return the surviving rows as a chunk tagged with a batch index.         *)
(*                                                                         *)
(* Abstractions.  A file row is its number, so the bytes of a row buffer   *)
(* are the interval of rows it holds.  The pushed-down filter is the set   *)
(* of rows that satisfy it.  The query engine calls ReadDtaScan again      *)
(* until a call returns an empty chunk, and asks for the batch index after *)
(* every chunk.                                                            *)
(***************************************************************************)
EXTENDS Integers, FiniteSets, Sequences

CONSTANTS
  Threads,      \* the scheduler's worker threads
  NoThread,     \* nobody: the owner of a free mutex
  NumObs,       \* n_obs_, the observations the header declares
  VectorSize,   \* STANDARD_VECTOR_SIZE
  NeedsData,    \* a real column is projected, not only row ids
  OnDisk,       \* the handle is on disk, so positional reads share nothing
  IoMayFail     \* a read of the file may throw

ASSUME ThreadsAssumption == IsFiniteSet(Threads) /\ NoThread \notin Threads
ASSUME NumObsAssumption == NumObs \in Nat
ASSUME VectorSizeAssumption == VectorSize \in Nat \ {0}
ASSUME FlagsAssumption ==
  /\ NeedsData \in BOOLEAN
  /\ OnDisk \in BOOLEAN
  /\ IoMayFail \in BOOLEAN

VARIABLES
  pass,         \* the rows that satisfy filter_expr; all rows without one
  nextRow,      \* ReadDtaGlobalState::next_row
  gLock,        \* owner of ReadDtaGlobalState::lock
  ioLock,       \* owner of DtaReader::io_mutex_
  handlePos,    \* position of the handle that is not on disk, in rows
  pc,           \* where each thread is in ReadDtaScan
  start,        \* first row of the thread's range
  count,        \* length of the thread's range
  batch,        \* ReadDtaLocalState::batch_index
  buffer,       \* ReadDtaLocalState::row_buffer, the interval of rows it holds
  out           \* the chunks each thread has returned

vars == <<pass, nextRow, gLock, ioLock, handlePos, pc, start, count, batch,
          buffer, out>>

Rows == 0 .. NumObs - 1

Smaller(a, b) == IF a <= b THEN a ELSE b
Larger(a, b) == IF a >= b THEN a ELSE b

\* The scan tasks the engine may run (max_threads).
MaxThreads == Larger(NumObs \div VectorSize, 1)

\* Tasks in the query, and tasks whose last call has returned.
Tasks == {t \in Threads : pc[t] # "off"}
Finished == \A t \in Tasks : pc[t] = "done"
SomeFailed == \E t \in Threads : pc[t] = "failed"

Goto(t, from, to) ==
  /\ pc[t] = from
  /\ pc' = [pc EXCEPT ![t] = to]

\* Mutants: a critical section entered without taking its mutex.
GlobalLockIgnored == TRUE
IoLockIgnored == TRUE

\* The mutexes, when nobody holds them.
GlobalLockFree == gLock = NoThread
IoLockFree == ioLock = NoThread

-----------------------------------------------------------------------------
Init ==
  /\ pass \in SUBSET Rows
  /\ nextRow = 0
  /\ gLock = NoThread
  /\ ioLock = NoThread
  /\ handlePos = 0
  /\ \E tasks \in SUBSET Threads :
       /\ tasks # {}
       /\ Cardinality(tasks) <= MaxThreads
       /\ pc = [t \in Threads |-> IF t \in tasks THEN "call" ELSE "off"]
  /\ start = [t \in Threads |-> 0]
  /\ count = [t \in Threads |-> 0]
  /\ batch = [t \in Threads |-> 0]
  /\ buffer = [t \in Threads |-> [first |-> 0, rows |-> 0]]
  /\ out = [t \in Threads |-> <<>>]

(***************************************************************************)
(* Claiming a range: the critical section of gstate.lock, as the two       *)
(* accesses to next_row it holds together.                                 *)
(***************************************************************************)
\* Mutants: a last range as long as the others; a batch index that counts
\* the thread's own ranges.
WholeVector == VectorSize
OwnRangeNumber(t) == batch[t] + 1

ClaimCount == Smaller(VectorSize, NumObs - nextRow)
BatchIndex(t) == start[t] \div VectorSize

ClaimRange(t) ==
  /\ GlobalLockFree
  /\ nextRow < NumObs
  /\ Goto(t, "call", "claim")
  /\ gLock' = t
  /\ start' = [start EXCEPT ![t] = nextRow]
  /\ count' = [count EXCEPT ![t] = ClaimCount]
  /\ UNCHANGED <<pass, nextRow, ioLock, handlePos, batch, buffer, out>>

AdvanceNextRow(t) ==
  /\ Goto(t, "claim", IF NeedsData THEN "read" ELSE "emit")
  /\ nextRow' = nextRow + count[t]
  /\ gLock' = NoThread
  /\ batch' = [batch EXCEPT ![t] = BatchIndex(t)]
  /\ UNCHANGED <<pass, ioLock, handlePos, start, count, buffer, out>>

\* Nothing left to claim: the empty chunk that ends this thread's scan.
EndOfScan(t) ==
  /\ GlobalLockFree
  /\ nextRow >= NumObs
  /\ Goto(t, "call", "done")
  /\ UNCHANGED <<pass, nextRow, gLock, ioLock, handlePos, start, count, batch,
                 buffer, out>>

(***************************************************************************)
(* DtaReader::ReadRows.  A claimed range starts below n_obs_, so the early *)
(* return of zero rows is never taken (RangesWithinFile below).  On disk   *)
(* the read names its position; elsewhere it moves the handle and then     *)
(* reads from there, which io_mutex_ makes one step for the other threads. *)
(***************************************************************************)
ActualRows(t) == IF start[t] >= NumObs THEN 0
                 ELSE Smaller(count[t], NumObs - start[t])

ReadOnDisk(t) ==
  /\ OnDisk
  /\ Goto(t, "read", "emit")
  /\ buffer' = [buffer EXCEPT ![t] = [first |-> start[t], rows |-> ActualRows(t)]]
  /\ UNCHANGED <<pass, nextRow, gLock, ioLock, handlePos, start, count, batch,
                 out>>

SeekHandle(t) ==
  /\ ~OnDisk
  /\ IoLockFree
  /\ Goto(t, "read", "fill")
  /\ ioLock' = t
  /\ handlePos' = start[t]
  /\ UNCHANGED <<pass, nextRow, gLock, start, count, batch, buffer, out>>

FillBuffer(t) ==
  /\ Goto(t, "fill", "emit")
  /\ buffer' = [buffer EXCEPT ![t] = [first |-> handlePos, rows |-> ActualRows(t)]]
  /\ handlePos' = handlePos + ActualRows(t)
  /\ ioLock' = NoThread
  /\ UNCHANGED <<pass, nextRow, gLock, start, count, batch, out>>

\* Read throws; the lock_guard releases io_mutex_ on the way out.
\* Mutant: io_mutex_ locked and unlocked by hand stays locked.
IoLockKept(t) == ioLock

IoLockAfterThrow(t) == IF ioLock = t THEN NoThread ELSE ioLock

ReadFails(t) ==
  /\ IoMayFail
  /\ \/ OnDisk /\ Goto(t, "read", "failed")
     \/ Goto(t, "fill", "failed")
  /\ ioLock' = IoLockAfterThrow(t)
  /\ UNCHANGED <<pass, nextRow, gLock, handlePos, start, count, batch, buffer,
                 out>>

(***************************************************************************)
(* The output chunk: row i of the range carries the row id start + i and,  *)
(* when columns are projected, the data of row i of the buffer.  The       *)
(* filter is evaluated on the chunk.                                       *)
(***************************************************************************)
ChunkSize(t) == IF NeedsData THEN buffer[t].rows ELSE count[t]

OutputRow(t, i) ==
  [id   |-> start[t] + i,
   data |-> IF NeedsData THEN buffer[t].first + i ELSE start[t] + i]

Survivors(t) ==
  {row \in {OutputRow(t, i) : i \in 0 .. ChunkSize(t) - 1} : row.data \in pass}

ReturnChunk(t) ==
  /\ Survivors(t) # {}
  /\ Goto(t, "emit", "call")
  /\ out' = [out EXCEPT ![t] =
                Append(@, [start |-> start[t], batch |-> batch[t],
                           rows |-> Survivors(t)])]
  /\ UNCHANGED <<pass, nextRow, gLock, ioLock, handlePos, start, count, batch,
                 buffer>>

\* No row survived: claim the next range, as an empty chunk would end the scan.
\* Mutant: the empty chunk is returned.
EmptyChunkReturned == "done"

AfterEmptyChunk == "call"

SkipChunk(t) ==
  /\ Survivors(t) = {}
  /\ Goto(t, "emit", AfterEmptyChunk)
  /\ UNCHANGED <<pass, nextRow, gLock, ioLock, handlePos, start, count, batch,
                 buffer, out>>

Step(t) ==
  \/ ClaimRange(t) \/ AdvanceNextRow(t) \/ EndOfScan(t)
  \/ ReadOnDisk(t) \/ SeekHandle(t) \/ FillBuffer(t) \/ ReadFails(t)
  \/ ReturnChunk(t) \/ SkipChunk(t)

\* Every task has returned its empty chunk or thrown: the query is over.
QueryOver ==
  /\ \A t \in Tasks : pc[t] \in {"done", "failed"}
  /\ UNCHANGED vars

Next == (\E t \in Threads : Step(t)) \/ QueryOver

\* The engine keeps calling ReadDtaScan and the threads keep running.
Fairness == \A t \in Threads : WF_vars(Step(t))

Spec == Init /\ [][Next]_vars
FairSpec == Spec /\ Fairness

-----------------------------------------------------------------------------
Position == UNION {{t} \X DOMAIN out[t] : t \in Threads}
ChunkAt(p) == out[p[1]][p[2]]
DeliveredRows == UNION {ChunkAt(p).rows : p \in Position}
Delivered == {row.id : row \in DeliveredRows}

\* The range of a claim that starts at row s, and two claims kept apart.
RangeEnd(s) == s + Smaller(VectorSize, NumObs - s)
Apart(a, b) == a + VectorSize <= b \/ b + VectorSize <= a

\* The thread owns a range it has not returned.
Holds(t) == pc[t] \in {"claim", "read", "fill", "emit", "failed"}

(***************************************************************************)
(* The types of the variables; next_row never runs past the declared       *)
(* number of observations.                                                 *)
(***************************************************************************)
Chunk == [start : Nat, batch : Nat, rows : SUBSET [id : Nat, data : Nat]]

TypeOK ==
  /\ pass \in SUBSET Rows
  /\ nextRow \in 0 .. NumObs
  /\ gLock \in Threads \cup {NoThread}
  /\ ioLock \in Threads \cup {NoThread}
  /\ handlePos \in Nat
  /\ pc \in [Threads -> {"off", "call", "claim", "read", "fill", "emit",
                         "done", "failed"}]
  /\ start \in [Threads -> Nat]
  /\ count \in [Threads -> Nat]
  /\ batch \in [Threads -> Nat]
  /\ buffer \in [Threads -> [first : Nat, rows : Nat]]
  /\ out \in [Threads -> Seq(Chunk)]

(***************************************************************************)
(* A returned row carries the bytes of the observation its row id names,   *)
(* whatever the other scans did to the shared handle in between.           *)
(***************************************************************************)
RowsMatchIds == \A row \in DeliveredRows : row.data = row.id

(***************************************************************************)
(* No observation is returned twice, by one thread or by two.              *)
(***************************************************************************)
NoRowTwice ==
  \A p, q \in Position : p # q =>
    \A r \in ChunkAt(p).rows, s \in ChunkAt(q).rows : r.id # s.id

(***************************************************************************)
(* When every task has returned its empty chunk, the query has seen the    *)
(* observations that satisfy the filter and no others.                     *)
(***************************************************************************)
NothingLost == Finished => Delivered = pass

(***************************************************************************)
(* The batch index orders the chunks of all threads as the file orders     *)
(* their rows, no two chunks share one, and the chunks of one thread come  *)
(* with increasing ones: what the engine needs to restore file order.      *)
(***************************************************************************)
BatchesOrderRows ==
  \A p, q \in Position : p # q =>
    /\ ChunkAt(p).batch # ChunkAt(q).batch
    /\ ChunkAt(p).batch < ChunkAt(q).batch =>
         \A r \in ChunkAt(p).rows, s \in ChunkAt(q).rows : r.id < s.id
    /\ p[1] = q[1] /\ p[2] < q[2] => ChunkAt(p).batch < ChunkAt(q).batch

(***************************************************************************)
(* The scan implements ScanContract: exactly the wanted rows, in non-empty *)
(* chunks, and the end reported only after the last of them.               *)
(***************************************************************************)
ScanStatus == IF SomeFailed THEN "failed"
              ELSE IF Finished THEN "complete" ELSE "open"

Contract == INSTANCE ScanContract WITH
  wanted <- pass, delivered <- Delivered, status <- ScanStatus

ImplementsContract == Contract!Spec

(***************************************************************************)
(* Every call returns, also when reads of the file throw while holding     *)
(* io_mutex_: no task waits for a mutex for ever.                          *)
(***************************************************************************)
EveryTaskReturns ==
  \A t \in Threads : pc[t] # "off" ~> pc[t] \in {"done", "failed"}

(***************************************************************************)
(* Unless a read fails, the scan ends, with every wanted row delivered.    *)
(***************************************************************************)
ScanCompletes == <>[](SomeFailed \/ (Finished /\ Delivered = pass))

-----------------------------------------------------------------------------
(***************************************************************************)
(* The inductive invariant behind the safety properties.                   *)
(***************************************************************************)

\* Each mutex is owned by the thread inside its critical section.
LocksInv ==
  \A t \in Threads :
    /\ pc[t] = "claim" <=> gLock = t
    /\ pc[t] = "fill" <=> ioLock = t
    /\ pc[t] = "fill" => handlePos = start[t]

\* A claimed range is not empty, ends within the file and, once next_row has
\* moved past it, below next_row.
RangesInv ==
  \A t \in Threads : Holds(t) =>
    /\ start[t] < NumObs
    /\ start[t] + count[t] = RangeEnd(start[t])
    /\ IF pc[t] = "claim" THEN nextRow = start[t]
                          ELSE RangeEnd(start[t]) <= nextRow

\* A thread about to build its chunk has the batch index and the bytes of its
\* own range.
BuffersInv ==
  \A t \in Threads :
    /\ pc[t] \in {"read", "fill", "emit"} => batch[t] = BatchIndex(t)
    /\ pc[t] \in {"read", "fill"} => NeedsData
    /\ pc[t] = "emit" /\ NeedsData =>
         buffer[t] = [first |-> start[t], rows |-> count[t]]

\* A returned chunk holds wanted rows of its range, unaltered.
ChunksInv ==
  \A p \in Position : LET c == ChunkAt(p) IN
    /\ c.start < NumObs
    /\ RangeEnd(c.start) <= nextRow
    /\ c.batch = c.start \div VectorSize
    /\ c.rows # {}
    /\ \A row \in c.rows : /\ row.data = row.id
                           /\ row.id \in pass
                           /\ row.id \in c.start .. RangeEnd(c.start) - 1

\* No two claims, returned or not, overlap; a thread claims upwards.
ApartInv ==
  /\ \A p, q \in Position : p # q => Apart(ChunkAt(p).start, ChunkAt(q).start)
  /\ \A p, q \in Position : p[1] = q[1] /\ p[2] < q[2] =>
       ChunkAt(p).start < ChunkAt(q).start
  /\ \A t \in Threads : Holds(t) =>
       /\ \A p \in Position : /\ Apart(start[t], ChunkAt(p).start)
                              /\ p[1] = t => ChunkAt(p).start < start[t]
       /\ \A u \in Threads : u # t /\ Holds(u) => Apart(start[t], start[u])

\* A wanted row below next_row was returned or is in a range some thread holds.
CoverInv ==
  \A r \in pass : r < nextRow =>
    \/ r \in Delivered
    \/ \E t \in Threads : /\ Holds(t)
                          /\ pc[t] # "claim"
                          /\ r \in start[t] .. RangeEnd(start[t]) - 1

\* A task that ended has seen the file exhausted, and there are tasks.
TasksInv ==
  /\ Tasks # {}
  /\ \A t \in Threads : pc[t] = "done" => nextRow = NumObs

IInv == /\ TypeOK /\ LocksInv /\ RangesInv /\ BuffersInv /\ ChunksInv
        /\ ApartInv /\ CoverInv /\ TasksInv
=============================================================================
