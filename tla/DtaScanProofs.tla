--------------------------- MODULE DtaScanProofs ---------------------------
(***************************************************************************)
(* Proofs about the parallel scan, for every number of threads and         *)
(* observations and every vector size.  The inductive invariant IInv of    *)
(* DtaScan is preserved by each action; the safety properties follow from  *)
(* it, and with it every step of the scan is a step of ScanContract or     *)
(* leaves the contract's variables alone.                                  *)
(***************************************************************************)
EXTENDS DtaScan, SequenceTheorems, TLAPS

\* Division with remainder, as the bounds the prover can use.
LEMMA DivBounds ==
  ASSUME NEW V \in Nat \ {0}, NEW x \in Nat
  PROVE  /\ x \div V \in Nat
         /\ V * (x \div V) <= x
         /\ x < V * (x \div V) + V
<1>1. x = V * (x \div V) + (x % V)
  BY Z3
<1>2. x % V \in 0 .. V - 1
  BY SMT
<1>3. x \div V \in Nat
  BY SMT
<1> QED
  BY <1>1, <1>2, <1>3, SMT

\* Multiplication by a positive number is monotone.
LEMMA MulMonotone ==
  ASSUME NEW V \in Nat \ {0}, NEW a \in Nat, NEW b \in Nat, a <= b
  PROVE  V * a <= V * b
  BY SMT

\* Starts a vector apart have different batch indexes, in their order.
LEMMA BatchNumbers ==
  ASSUME NEW V \in Nat \ {0}, NEW x \in Nat, NEW y \in Nat, x + V <= y
  PROVE  x \div V < y \div V
<1> DEFINE q == x \div V
           r == y \div V
<1>1. /\ q \in Nat /\ V * q <= x
      /\ r \in Nat /\ y < V * r + V
  BY DivBounds
<1> HIDE DEF q, r
<1>2. SUFFICES ASSUME r <= q PROVE FALSE
  BY <1>1 DEF q, r
<1>3. V * r <= V * q
  BY <1>1, <1>2, MulMonotone
<1>4. V * r \in Int /\ V * q \in Int
  BY <1>1
<1> QED
  BY <1>1, <1>3, <1>4

\* A range that starts within the file is not empty and ends within it.
LEMMA RangeEndBounds ==
  ASSUME NEW s \in Nat, s < NumObs
  PROVE  /\ RangeEnd(s) \in Nat
         /\ s < RangeEnd(s)
         /\ RangeEnd(s) <= NumObs
         /\ RangeEnd(s) <= s + VectorSize
  BY NumObsAssumption, VectorSizeAssumption DEF RangeEnd, Smaller

\* A position is a thread and an index into what it returned.
LEMMA PositionPairs ==
  ASSUME NEW p
  PROVE  p \in Position <=> /\ p = <<p[1], p[2]>>
                            /\ p[1] \in Threads
                            /\ p[2] \in DOMAIN out[p[1]]
  BY DEF Position

\* What was returned changes only with out.
LEMMA SameOut ==
  ASSUME UNCHANGED out
  PROVE  /\ Position' = Position
         /\ \A p : ChunkAt(p)' = ChunkAt(p)
         /\ Delivered' = Delivered
  BY DEF Position, ChunkAt, Delivered, DeliveredRows

\* Returning a chunk adds one position and leaves the others alone.
LEMMA OneMoreChunk ==
  ASSUME TypeOK, NEW t \in Threads, ReturnChunk(t),
         NEW c, c = [start |-> start[t], batch |-> batch[t], rows |-> Survivors(t)],
         NEW new, new = <<t, Len(out[t]) + 1>>
  PROVE  /\ new \notin Position
         /\ Position' = Position \cup {new}
         /\ ChunkAt(new)' = c
         /\ \A p \in Position : ChunkAt(p)' = ChunkAt(p)
         /\ \A p \in Position : p[1] = t => p[2] < new[2]
         /\ DeliveredRows' = DeliveredRows \cup c.rows
         /\ Delivered' = Delivered \cup {row.id : row \in c.rows}
<1>1. out[t] \in Seq(Chunk) /\ out \in [Threads -> Seq(Chunk)]
  BY DEF TypeOK
<1>2. out' = [out EXCEPT ![t] = Append(out[t], c)]
  BY DEF ReturnChunk
<1> DEFINE n == Len(out[t])
<1>3. /\ n \in Nat
      /\ DOMAIN out[t] = 1 .. n
      /\ DOMAIN Append(out[t], c) = 1 .. n + 1
      /\ \A i \in 1 .. n : Append(out[t], c)[i] = out[t][i]
      /\ Append(out[t], c)[n + 1] = c
  BY <1>1
<1>4. /\ out'[t] = Append(out[t], c)
      /\ \A u \in Threads \ {t} : out'[u] = out[u]
  BY <1>1, <1>2
<1>5. new \notin Position
  BY <1>3, PositionPairs
<1>6. ASSUME NEW p
      PROVE  p \in Position' <=> /\ p = <<p[1], p[2]>>
                                 /\ p[1] \in Threads
                                 /\ p[2] \in DOMAIN out'[p[1]]
  BY DEF Position
<1>7. Position' = Position \cup {new}
  <2>1. ASSUME NEW p \in Position' PROVE p \in Position \cup {new}
    <3>1. CASE p[1] = t
      BY <1>3, <1>4, <1>6, <2>1, <3>1, PositionPairs
    <3>2. CASE p[1] # t
      BY <1>4, <1>6, <2>1, <3>2, PositionPairs
    <3> QED
      BY <3>1, <3>2
  <2>2. ASSUME NEW p \in Position PROVE p \in Position'
    <3>1. CASE p[1] = t
      BY <1>3, <1>4, <1>6, <2>2, <3>1, PositionPairs
    <3>2. CASE p[1] # t
      BY <1>4, <1>6, <2>2, <3>2, PositionPairs
    <3> QED
      BY <3>1, <3>2
  <2>3. new \in Position'
    BY <1>3, <1>4, <1>6
  <2> QED
    BY <2>1, <2>2, <2>3
<1>8. ChunkAt(new)' = c
  BY <1>3, <1>4 DEF ChunkAt
<1>9. \A p \in Position : ChunkAt(p)' = ChunkAt(p)
  BY <1>3, <1>4, PositionPairs DEF ChunkAt
<1>10. \A p \in Position : p[1] = t => p[2] < new[2]
  BY <1>3, PositionPairs
<1>11. DeliveredRows' = DeliveredRows \cup c.rows
  <2>1. DeliveredRows' = UNION {ChunkAt(p)'.rows : p \in Position'}
    BY DEF DeliveredRows
  <2> QED
    BY <1>7, <1>8, <1>9, <2>1 DEF DeliveredRows
<1>12. Delivered' = Delivered \cup {row.id : row \in c.rows}
  <2>1. Delivered' = {row.id : row \in DeliveredRows'}
    BY DEF Delivered
  <2> QED
    BY <1>11, <2>1 DEF Delivered
<1> QED
  BY <1>5, <1>7, <1>8, <1>9, <1>10, <1>11, <1>12

\* A range that ends before row n of the file lies a vector before it.
LEMMA EarlierIsApart ==
  ASSUME NEW s \in Nat, s < NumObs, NEW n \in Nat, n < NumObs, RangeEnd(s) <= n
  PROVE  s + VectorSize <= n /\ s < n
  BY NumObsAssumption, VectorSizeAssumption DEF RangeEnd, Smaller

\* What stands at a position is a chunk.
LEMMA ChunkTypes ==
  ASSUME TypeOK, NEW p \in Position
  PROVE  ChunkAt(p) \in Chunk /\ ChunkAt(p).start \in Nat
<1>1. p[1] \in Threads /\ p[2] \in DOMAIN out[p[1]]
  BY PositionPairs
<1>2. out[p[1]] \in Seq(Chunk)
  BY <1>1 DEF TypeOK
<1>3. out[p[1]][p[2]] \in Chunk
  BY <1>1, <1>2, ElementOfSeq, LenProperties
<1> QED
  BY <1>3 DEF ChunkAt, Chunk

\* The invariant holds at the start of the query.
LEMMA InitIInv == Init => IInv
<1> SUFFICES ASSUME Init PROVE IInv
  OBVIOUS
<1> USE DEF Init
<1>1. TypeOK
  BY NumObsAssumption DEF TypeOK
<1>2. Position = {}
  BY PositionPairs
<1>3. \A t \in Threads : pc[t] \in {"call", "off"}
  OBVIOUS
<1>4. LocksInv
  BY <1>3, ThreadsAssumption DEF LocksInv
<1>5. RangesInv /\ BuffersInv
  BY <1>3 DEF RangesInv, BuffersInv, Holds
<1>6. ChunksInv /\ ApartInv
  BY <1>2, <1>3 DEF ChunksInv, ApartInv, Holds
<1>7. CoverInv
  BY DEF CoverInv, Rows
<1>8. TasksInv
  BY DEF TasksInv, Tasks
<1> QED
  BY <1>1, <1>4, <1>5, <1>6, <1>7, <1>8 DEF IInv

\* Claiming starts at next_row, above every range claimed before.
LEMMA ClaimRangeKeeps ==
  ASSUME IInv, NEW t \in Threads, ClaimRange(t)
  PROVE  IInv'
<1> USE DEF IInv
<1> USE NumObsAssumption, VectorSizeAssumption
<1>1. /\ nextRow \in Nat /\ nextRow < NumObs
      /\ gLock = NoThread
      /\ pc[t] = "call"
      /\ pc' = [pc EXCEPT ![t] = "claim"]
      /\ start' = [start EXCEPT ![t] = nextRow]
      /\ count' = [count EXCEPT ![t] = ClaimCount]
      /\ gLock' = t
      /\ UNCHANGED <<pass, nextRow, ioLock, handlePos, batch, buffer, out>>
  BY DEF ClaimRange, Goto, GlobalLockFree, TypeOK
<1>2. ClaimCount \in Nat /\ nextRow + ClaimCount = RangeEnd(nextRow)
  BY <1>1 DEF ClaimCount, RangeEnd, Smaller
<1>3. TypeOK'
  BY <1>1, <1>2 DEF TypeOK
<1>4. /\ pc'[t] = "claim" /\ start'[t] = nextRow /\ count'[t] = ClaimCount
      /\ \A u \in Threads \ {t} : /\ pc'[u] = pc[u]
                                  /\ start'[u] = start[u]
                                  /\ count'[u] = count[u]
  BY <1>1 DEF TypeOK
<1>5. \A u \in Threads : pc[u] # "claim"
  BY <1>1, ThreadsAssumption DEF LocksInv
<1>6. LocksInv'
  BY <1>1, <1>4, <1>5 DEF LocksInv
<1>7. RangesInv'
  BY <1>1, <1>2, <1>4 DEF RangesInv, Holds
<1>8. BuffersInv'
  BY <1>1, <1>4 DEF BuffersInv, BatchIndex
<1>9. ChunksInv'
  BY <1>1, SameOut DEF ChunksInv
<1>10. ApartInv'
  <2>1. ASSUME NEW p \in Position
        PROVE  Apart(nextRow, ChunkAt(p).start) /\ ChunkAt(p).start < nextRow
    <3>1. ChunkAt(p).start \in Nat
      BY ChunkTypes
    <3> QED
      BY <1>1, <3>1, EarlierIsApart DEF ChunksInv, Apart
  <2>2. ASSUME NEW u \in Threads, Holds(u), u # t
        PROVE  Apart(nextRow, start[u]) /\ Apart(start[u], nextRow)
    <3>1. start[u] \in Nat /\ start[u] < NumObs /\ RangeEnd(start[u]) <= nextRow
      BY <1>5, <2>2 DEF RangesInv, TypeOK
    <3> QED
      BY <1>1, <3>1, EarlierIsApart DEF Apart
  <2>3. \A u \in Threads \ {t} : Holds(u)' <=> Holds(u)
    BY <1>4 DEF Holds
  <2> QED
    BY <1>1, <1>4, <2>1, <2>2, <2>3, SameOut DEF ApartInv
<1>11. CoverInv'
  <2>1. ASSUME NEW u \in Threads, Holds(u), pc[u] # "claim"
        PROVE  u # t /\ Holds(u)' /\ pc'[u] # "claim" /\ start'[u] = start[u]
    BY <1>1, <1>4, <2>1 DEF Holds
  <2>2. ASSUME NEW r \in pass, r < nextRow, r \notin Delivered
        PROVE  \E u \in Threads : /\ Holds(u)'
                                  /\ pc'[u] # "claim"
                                  /\ r \in start'[u] .. RangeEnd(start'[u]) - 1
    BY <2>1, <2>2 DEF CoverInv
  <2> QED
    BY <1>1, <2>2, SameOut DEF CoverInv
<1>12. TasksInv'
  BY <1>1, <1>4 DEF TasksInv, Tasks
<1> QED
  BY <1>3, <1>6, <1>7, <1>8, <1>9, <1>10, <1>11, <1>12

\* Steps that neither claim nor release a range keep what is said of them.
LEMMA FrameKeeps ==
  ASSUME IInv,
         UNCHANGED <<pass, nextRow, start, count, out>>,
         \A u \in Threads : /\ Holds(u)' <=> Holds(u)
                            /\ pc'[u] = "claim" <=> pc[u] = "claim"
  PROVE  RangesInv' /\ ChunksInv' /\ ApartInv' /\ CoverInv'
<1>1. RangesInv'
  BY DEF IInv, RangesInv
<1>2. ChunksInv'
  BY SameOut DEF IInv, ChunksInv
<1>3. ApartInv'
  BY SameOut DEF IInv, ApartInv
<1>4. CoverInv'
  BY SameOut DEF IInv, CoverInv
<1> QED
  BY <1>1, <1>2, <1>3, <1>4

\* next_row moves to the end of the claimed range.
LEMMA AdvanceNextRowKeeps ==
  ASSUME IInv, NEW t \in Threads, AdvanceNextRow(t)
  PROVE  IInv'
<1> USE DEF IInv
<1> USE NumObsAssumption, VectorSizeAssumption
<1> DEFINE to == IF NeedsData THEN "read" ELSE "emit"
<1>1. /\ pc[t] = "claim"
      /\ pc' = [pc EXCEPT ![t] = to]
      /\ nextRow' = nextRow + count[t]
      /\ gLock' = NoThread
      /\ batch' = [batch EXCEPT ![t] = BatchIndex(t)]
      /\ UNCHANGED <<pass, ioLock, handlePos, start, count, buffer, out>>
  BY DEF AdvanceNextRow, Goto
<1>2. /\ start[t] \in Nat /\ start[t] < NumObs /\ nextRow = start[t]
      /\ nextRow' = RangeEnd(start[t])
      /\ nextRow' \in Nat /\ nextRow < nextRow' /\ nextRow' <= NumObs
  BY <1>1, RangeEndBounds DEF RangesInv, TypeOK, Holds
<1>3. BatchIndex(t) \in Nat
  BY <1>2, DivBounds DEF BatchIndex
<1>4. TypeOK'
  <2>1. pc' \in [Threads -> {"off", "call", "claim", "read", "fill", "emit",
                            "done", "failed"}]
    BY <1>1 DEF TypeOK
  <2>2. batch' \in [Threads -> Nat]
    BY <1>1, <1>3 DEF TypeOK
  <2>3. nextRow' \in 0 .. NumObs /\ gLock' \in Threads \cup {NoThread}
    BY <1>1, <1>2
  <2>4. UNCHANGED <<pass, ioLock, handlePos, start, count, buffer, out>>
    BY <1>1
  <2> QED
    BY <2>1, <2>2, <2>3, <2>4 DEF TypeOK
<1>5. /\ pc'[t] = to /\ batch'[t] = BatchIndex(t)
      /\ \A u \in Threads \ {t} : pc'[u] = pc[u] /\ batch'[u] = batch[u]
  BY <1>1 DEF TypeOK
<1>6. \A u \in Threads \ {t} : pc[u] # "claim"
  BY <1>1 DEF LocksInv
<1>7. /\ \A u \in Threads : Holds(u)' <=> Holds(u)
      /\ \A u \in Threads : pc'[u] # "claim"
  BY <1>1, <1>5, <1>6 DEF Holds
<1>8. LocksInv'
  BY <1>1, <1>5, <1>7, ThreadsAssumption DEF LocksInv
<1>9. RangesInv'
  <2>1. ASSUME NEW u \in Threads, Holds(u), u # t
        PROVE  RangeEnd(start[u]) <= nextRow'
    <3>1. start[u] \in Nat /\ start[u] < NumObs /\ RangeEnd(start[u]) <= nextRow
      BY <1>6, <2>1 DEF RangesInv, TypeOK
    <3> QED
      BY <1>2, <3>1, RangeEndBounds
  <2> QED
    BY <1>1, <1>2, <1>7, <2>1, RangeEndBounds DEF RangesInv
<1>10. BuffersInv'
  BY <1>1, <1>5 DEF BuffersInv, BatchIndex
<1>11. ChunksInv'
  <2>1. ASSUME NEW p \in Position
        PROVE  RangeEnd(ChunkAt(p).start) <= nextRow'
    <3>1. ChunkAt(p).start \in Nat
      BY ChunkTypes
    <3> QED
      BY <1>2, <3>1, RangeEndBounds DEF ChunksInv
  <2> QED
    BY <1>1, <2>1, SameOut DEF ChunksInv
<1>12. ApartInv'
  BY <1>1, <1>7, SameOut DEF ApartInv
<1>13. CoverInv'
  <2>1. ASSUME NEW r \in pass, r < nextRow', r \notin Delivered
        PROVE  \E u \in Threads : /\ Holds(u)'
                                  /\ pc'[u] # "claim"
                                  /\ r \in start[u] .. RangeEnd(start[u]) - 1
    <3>0. r \in Nat
      BY DEF TypeOK, Rows
    <3>1. CASE r < nextRow
      BY <1>7, <2>1, <3>1 DEF CoverInv
    <3>2. CASE ~(r < nextRow)
      <4>1. r \in start[t] .. RangeEnd(start[t]) - 1
        BY <1>2, <2>1, <3>0, <3>2
      <4>2. Holds(t)'
        BY <1>1, <1>7 DEF Holds
      <4> QED
        BY <1>7, <4>1, <4>2
    <3> QED
      BY <3>1, <3>2
  <2> QED
    BY <1>1, <2>1, SameOut DEF CoverInv
<1>14. TasksInv'
  <2>1. Tasks' = Tasks
    BY <1>1, <1>5 DEF Tasks
  <2>2. \A u \in Threads : pc[u] # "done"
    BY <1>2 DEF TasksInv
  <2> QED
    BY <1>5, <2>1, <2>2 DEF TasksInv
<1> QED
  BY <1>4, <1>8, <1>9, <1>10, <1>11, <1>12, <1>13, <1>14

\* A task ends only when next_row has reached the end of the file.
LEMMA EndOfScanKeeps ==
  ASSUME IInv, NEW t \in Threads, EndOfScan(t)
  PROVE  IInv'
<1> USE DEF IInv
<1>1. /\ nextRow >= NumObs
      /\ pc[t] = "call"
      /\ pc' = [pc EXCEPT ![t] = "done"]
      /\ UNCHANGED <<pass, nextRow, gLock, ioLock, handlePos, start, count,
                     batch, buffer, out>>
  BY DEF EndOfScan, Goto
<1>2. TypeOK'
  BY <1>1 DEF TypeOK
<1>3. /\ pc'[t] = "done"
      /\ \A u \in Threads \ {t} : pc'[u] = pc[u]
  BY <1>1 DEF TypeOK
<1>4. LocksInv'
  BY <1>1, <1>3 DEF LocksInv
<1>5. RangesInv' /\ ChunksInv' /\ ApartInv' /\ CoverInv'
  <2>1. \A u \in Threads : /\ Holds(u)' <=> Holds(u)
                           /\ pc'[u] = "claim" <=> pc[u] = "claim"
    BY <1>1, <1>3 DEF Holds
  <2> QED
    BY <1>1, <2>1, FrameKeeps
<1>6. BuffersInv'
  BY <1>1, <1>3 DEF BuffersInv, BatchIndex
<1>7. TasksInv'
  <2>1. nextRow = NumObs
    BY <1>1, NumObsAssumption DEF TypeOK
  <2>2. Tasks' = Tasks
    BY <1>1, <1>3 DEF Tasks
  <2> QED
    BY <1>1, <2>1, <2>2 DEF TasksInv
<1> QED
  BY <1>2, <1>4, <1>5, <1>6, <1>7

\* ReadRows is never asked for rows past the end, so it reads them all.
LEMMA FullRead ==
  ASSUME IInv, NEW t \in Threads, pc[t] \in {"read", "fill"}
  PROVE  ActualRows(t) = count[t]
<1>1. /\ start[t] \in Nat /\ start[t] < NumObs /\ count[t] \in Nat
      /\ start[t] + count[t] = RangeEnd(start[t])
  BY DEF IInv, RangesInv, Holds, TypeOK
<1>2. RangeEnd(start[t]) \in Nat /\ RangeEnd(start[t]) <= NumObs
  BY <1>1, RangeEndBounds
<1> QED
  BY <1>1, <1>2, NumObsAssumption DEF ActualRows, Smaller

\* A positional read on disk fills the buffer with the thread's range.
LEMMA ReadOnDiskKeeps ==
  ASSUME IInv, NEW t \in Threads, ReadOnDisk(t)
  PROVE  IInv'
<1> USE DEF IInv
<1>1. /\ pc[t] = "read"
      /\ pc' = [pc EXCEPT ![t] = "emit"]
      /\ buffer' = [buffer EXCEPT ![t] = [first |-> start[t], rows |-> count[t]]]
      /\ UNCHANGED <<pass, nextRow, gLock, ioLock, handlePos, start, count,
                     batch, out>>
  BY FullRead DEF ReadOnDisk, Goto
<1>2. TypeOK'
  <2>1. start[t] \in Nat /\ count[t] \in Nat
    BY DEF TypeOK
  <2> QED
    BY <1>1, <2>1 DEF TypeOK
<1>3. /\ pc'[t] = "emit" /\ buffer'[t] = [first |-> start[t], rows |-> count[t]]
      /\ \A u \in Threads \ {t} : pc'[u] = pc[u] /\ buffer'[u] = buffer[u]
  BY <1>1 DEF TypeOK
<1>4. LocksInv'
  BY <1>1, <1>3 DEF LocksInv
<1>5. RangesInv' /\ ChunksInv' /\ ApartInv' /\ CoverInv'
  <2>1. \A u \in Threads : /\ Holds(u)' <=> Holds(u)
                           /\ pc'[u] = "claim" <=> pc[u] = "claim"
    BY <1>1, <1>3 DEF Holds
  <2> QED
    BY <1>1, <2>1, FrameKeeps
<1>6. BuffersInv'
  BY <1>1, <1>3 DEF BuffersInv, BatchIndex
<1>7. TasksInv'
  BY <1>1, <1>3 DEF TasksInv, Tasks
<1> QED
  BY <1>2, <1>4, <1>5, <1>6, <1>7

\* Under io_mutex_ the handle is moved to the thread's range.
LEMMA SeekHandleKeeps ==
  ASSUME IInv, NEW t \in Threads, SeekHandle(t)
  PROVE  IInv'
<1> USE DEF IInv
<1>1. /\ pc[t] = "read"
      /\ pc' = [pc EXCEPT ![t] = "fill"]
      /\ ioLock = NoThread
      /\ ioLock' = t
      /\ handlePos' = start[t]
      /\ UNCHANGED <<pass, nextRow, gLock, start, count, batch, buffer, out>>
  BY DEF SeekHandle, Goto, IoLockFree
<1>2. TypeOK'
  BY <1>1 DEF TypeOK
<1>3. /\ pc'[t] = "fill"
      /\ \A u \in Threads \ {t} : pc'[u] = pc[u]
  BY <1>1 DEF TypeOK
<1>4. LocksInv'
  BY <1>1, <1>3, ThreadsAssumption DEF LocksInv
<1>5. RangesInv' /\ ChunksInv' /\ ApartInv' /\ CoverInv'
  <2>1. \A u \in Threads : /\ Holds(u)' <=> Holds(u)
                           /\ pc'[u] = "claim" <=> pc[u] = "claim"
    BY <1>1, <1>3 DEF Holds
  <2> QED
    BY <1>1, <2>1, FrameKeeps
<1>6. BuffersInv'
  BY <1>1, <1>3 DEF BuffersInv, BatchIndex
<1>7. TasksInv'
  BY <1>1, <1>3 DEF TasksInv, Tasks
<1> QED
  BY <1>2, <1>4, <1>5, <1>6, <1>7

\* Under io_mutex_ the read finds the handle where it was moved.
LEMMA FillBufferKeeps ==
  ASSUME IInv, NEW t \in Threads, FillBuffer(t)
  PROVE  IInv'
<1> USE DEF IInv
<1>1. /\ pc[t] = "fill"
      /\ pc' = [pc EXCEPT ![t] = "emit"]
      /\ handlePos = start[t]
      /\ buffer' = [buffer EXCEPT ![t] = [first |-> start[t], rows |-> count[t]]]
      /\ handlePos' = start[t] + count[t]
      /\ ioLock = t
      /\ ioLock' = NoThread
      /\ UNCHANGED <<pass, nextRow, gLock, start, count, batch, out>>
  BY FullRead DEF FillBuffer, Goto, LocksInv
<1>2. TypeOK'
  <2>1. start[t] \in Nat /\ count[t] \in Nat
    BY DEF TypeOK
  <2>2. handlePos' \in Nat
    BY <1>1, <2>1
  <2>3. buffer' \in [Threads -> [first : Nat, rows : Nat]]
    BY <1>1, <2>1 DEF TypeOK
  <2>4. pc' \in [Threads -> {"off", "call", "claim", "read", "fill", "emit",
                            "done", "failed"}]
    BY <1>1 DEF TypeOK
  <2> QED
    BY <1>1, <2>2, <2>3, <2>4 DEF TypeOK
<1>3. /\ pc'[t] = "emit" /\ buffer'[t] = [first |-> start[t], rows |-> count[t]]
      /\ \A u \in Threads \ {t} : pc'[u] = pc[u] /\ buffer'[u] = buffer[u]
  BY <1>1 DEF TypeOK
<1>4. LocksInv'
  BY <1>1, <1>3, ThreadsAssumption DEF LocksInv
<1>5. RangesInv' /\ ChunksInv' /\ ApartInv' /\ CoverInv'
  <2>1. \A u \in Threads : /\ Holds(u)' <=> Holds(u)
                           /\ pc'[u] = "claim" <=> pc[u] = "claim"
    BY <1>1, <1>3 DEF Holds
  <2> QED
    BY <1>1, <2>1, FrameKeeps
<1>6. BuffersInv'
  BY <1>1, <1>3 DEF BuffersInv, BatchIndex
<1>7. TasksInv'
  BY <1>1, <1>3 DEF TasksInv, Tasks
<1> QED
  BY <1>2, <1>4, <1>5, <1>6, <1>7

\* A read that throws releases io_mutex_ and keeps its range unreturned.
LEMMA ReadFailsKeeps ==
  ASSUME IInv, NEW t \in Threads, ReadFails(t)
  PROVE  IInv'
<1> USE DEF IInv
<1>1. /\ pc[t] \in {"read", "fill"}
      /\ pc' = [pc EXCEPT ![t] = "failed"]
      /\ ioLock' = IF ioLock = t THEN NoThread ELSE ioLock
      /\ UNCHANGED <<pass, nextRow, gLock, handlePos, start, count, batch,
                     buffer, out>>
  BY DEF ReadFails, Goto, IoLockAfterThrow
<1>2. TypeOK'
  BY <1>1 DEF TypeOK
<1>3. /\ pc'[t] = "failed"
      /\ \A u \in Threads \ {t} : pc'[u] = pc[u]
  BY <1>1 DEF TypeOK
<1>4. LocksInv'
  BY <1>1, <1>3, ThreadsAssumption DEF LocksInv
<1>5. RangesInv' /\ ChunksInv' /\ ApartInv' /\ CoverInv'
  <2>1. \A u \in Threads : /\ Holds(u)' <=> Holds(u)
                           /\ pc'[u] = "claim" <=> pc[u] = "claim"
    BY <1>1, <1>3 DEF Holds
  <2> QED
    BY <1>1, <2>1, FrameKeeps
<1>6. BuffersInv'
  BY <1>1, <1>3 DEF BuffersInv, BatchIndex
<1>7. TasksInv'
  BY <1>1, <1>3 DEF TasksInv, Tasks
<1> QED
  BY <1>2, <1>4, <1>5, <1>6, <1>7

\* The chunk about to be returned: the wanted rows of the range, unaltered.
LEMMA SurvivorRows ==
  ASSUME IInv, NEW t \in Threads, pc[t] = "emit", NEW row
  PROVE  row \in Survivors(t) <=>
           \E r \in pass : /\ r \in start[t] .. RangeEnd(start[t]) - 1
                           /\ row = [id |-> r, data |-> r]
<1>1. /\ start[t] \in Nat /\ count[t] \in Nat
      /\ start[t] + count[t] = RangeEnd(start[t])
  BY DEF IInv, RangesInv, Holds, TypeOK
<1>2. ASSUME NeedsData
      PROVE  buffer[t].first = start[t] /\ buffer[t].rows = count[t]
  <2>1. buffer[t] = [first |-> start[t], rows |-> count[t]]
    BY <1>2, Zenon DEF IInv, BuffersInv
  <2> QED
    BY <2>1
<1>3. /\ ChunkSize(t) = count[t]
      /\ \A i : OutputRow(t, i) = [id |-> start[t] + i, data |-> start[t] + i]
  <2>1. CASE NeedsData
    BY <1>2, <2>1 DEF ChunkSize, OutputRow
  <2>2. CASE ~NeedsData
    BY <2>2 DEF ChunkSize, OutputRow
  <2> QED
    BY <2>1, <2>2
<1>4. row \in Survivors(t) <=>
        \E i \in 0 .. count[t] - 1 :
          /\ row = [id |-> start[t] + i, data |-> start[t] + i]
          /\ start[t] + i \in pass
  BY <1>3 DEF Survivors
<1>5. ASSUME NEW r \in pass, r \in start[t] .. RangeEnd(start[t]) - 1
      PROVE  r - start[t] \in 0 .. count[t] - 1 /\ start[t] + (r - start[t]) = r
  BY <1>1, <1>5
<1>6. ASSUME NEW i \in 0 .. count[t] - 1
      PROVE  start[t] + i \in start[t] .. RangeEnd(start[t]) - 1
  BY <1>1, <1>6
<1> QED
  BY <1>4, <1>5, <1>6

\* A range none of whose rows is wanted may be dropped.
LEMMA SkipChunkKeeps ==
  ASSUME IInv, NEW t \in Threads, SkipChunk(t)
  PROVE  IInv'
<1> USE DEF IInv
<1>1. /\ pc[t] = "emit"
      /\ pc' = [pc EXCEPT ![t] = "call"]
      /\ Survivors(t) = {}
      /\ UNCHANGED <<pass, nextRow, gLock, ioLock, handlePos, start, count,
                     batch, buffer, out>>
  BY DEF SkipChunk, Goto, AfterEmptyChunk
<1>2. TypeOK'
  BY <1>1 DEF TypeOK
<1>3. /\ pc'[t] = "call"
      /\ \A u \in Threads \ {t} : pc'[u] = pc[u]
  BY <1>1 DEF TypeOK
<1>4. LocksInv'
  BY <1>1, <1>3 DEF LocksInv
<1>5. /\ \A u \in Threads : Holds(u)' => Holds(u)
      /\ \A u \in Threads \ {t} : Holds(u) => Holds(u)'
  BY <1>1, <1>3 DEF Holds
<1>6. RangesInv'
  BY <1>1, <1>3, <1>5 DEF RangesInv
<1>7. BuffersInv'
  BY <1>1, <1>3 DEF BuffersInv, BatchIndex
<1>8. ChunksInv'
  BY <1>1, SameOut DEF ChunksInv
<1>9. ApartInv'
  BY <1>1, <1>5, SameOut DEF ApartInv
<1>10. CoverInv'
  <2>1. \A r \in pass : r \notin start[t] .. RangeEnd(start[t]) - 1
    BY <1>1, SurvivorRows
  <2>2. ASSUME NEW r \in pass, r < nextRow, r \notin Delivered
        PROVE  \E u \in Threads : /\ Holds(u)'
                                  /\ pc'[u] # "claim"
                                  /\ r \in start[u] .. RangeEnd(start[u]) - 1
    <3>1. PICK u \in Threads : /\ Holds(u) /\ pc[u] # "claim"
                               /\ r \in start[u] .. RangeEnd(start[u]) - 1
      BY <2>2 DEF CoverInv
    <3>2. u # t
      BY <2>1, <3>1
    <3> QED
      BY <1>3, <1>5, <3>1, <3>2
  <2> QED
    BY <1>1, <2>2, SameOut DEF CoverInv
<1>11. TasksInv'
  BY <1>1, <1>3 DEF TasksInv, Tasks
<1> QED
  BY <1>2, <1>4, <1>6, <1>7, <1>8, <1>9, <1>10, <1>11

\* The returned chunk takes over what the claim guaranteed.
LEMMA ReturnChunkKeeps ==
  ASSUME IInv, NEW t \in Threads, ReturnChunk(t)
  PROVE  IInv'
<1> USE DEF IInv
<1> USE NumObsAssumption
<1>0. PICK c, new :
        /\ c = [start |-> start[t], batch |-> batch[t], rows |-> Survivors(t)]
        /\ new = <<t, Len(out[t]) + 1>>
  OBVIOUS
<1>1. /\ pc[t] = "emit"
      /\ pc' = [pc EXCEPT ![t] = "call"]
      /\ Survivors(t) # {}
      /\ out' = [out EXCEPT ![t] = Append(out[t], c)]
      /\ UNCHANGED <<pass, nextRow, gLock, ioLock, handlePos, start, count,
                     batch, buffer>>
  BY <1>0 DEF ReturnChunk, Goto
<1>2. /\ new \notin Position
      /\ Position' = Position \cup {new}
      /\ ChunkAt(new)' = c
      /\ \A p \in Position : ChunkAt(p)' = ChunkAt(p)
      /\ \A p \in Position : p[1] = t => p[2] < new[2]
      /\ Delivered' = Delivered \cup {row.id : row \in c.rows}
  BY <1>0, OneMoreChunk
<1>3. \A row : row \in c.rows <=>
        \E r \in pass : /\ r \in start[t] .. RangeEnd(start[t]) - 1
                        /\ row = [id |-> r, data |-> r]
  BY <1>0, <1>1, SurvivorRows
<1>4. /\ start[t] \in Nat /\ start[t] < NumObs
      /\ RangeEnd(start[t]) <= nextRow
      /\ batch[t] \in Nat /\ batch[t] = start[t] \div VectorSize
  BY <1>1 DEF RangesInv, BuffersInv, BatchIndex, Holds, TypeOK
<1>5. TypeOK'
  <2>1. c \in Chunk
    <3>1. ASSUME NEW row \in c.rows PROVE row \in [id : Nat, data : Nat]
      <4>1. PICK r \in pass : row = [id |-> r, data |-> r]
        BY <1>3, <3>1
      <4>2. r \in Nat
        BY DEF TypeOK, Rows
      <4> QED
        BY <4>1, <4>2
    <3> QED
      BY <1>0, <1>4, <3>1 DEF Chunk
  <2>2. out' \in [Threads -> Seq(Chunk)]
    <3>1. Append(out[t], c) \in Seq(Chunk)
      BY <2>1 DEF TypeOK
    <3> QED
      BY <1>1, <3>1 DEF TypeOK
  <2> QED
    BY <1>1, <2>2 DEF TypeOK
<1>6. /\ pc'[t] = "call"
      /\ \A u \in Threads \ {t} : pc'[u] = pc[u]
  BY <1>1 DEF TypeOK
<1>7. /\ \A u \in Threads : Holds(u)' => Holds(u) /\ u # t
      /\ \A u \in Threads \ {t} : Holds(u) => Holds(u)'
      /\ Holds(t)
  BY <1>1, <1>6 DEF Holds
<1>8. LocksInv'
  BY <1>1, <1>6 DEF LocksInv
<1>9. RangesInv'
  BY <1>1, <1>6, <1>7 DEF RangesInv
<1>10. BuffersInv'
  BY <1>1, <1>6 DEF BuffersInv, BatchIndex
<1>11. /\ c.start = start[t] /\ c.batch = batch[t] /\ c.rows = Survivors(t)
       /\ new[1] = t
  BY <1>0
<1>12. ChunksInv'
  <2>1. ASSUME NEW row \in c.rows
        PROVE  /\ row.data = row.id
               /\ row.id \in pass
               /\ row.id \in start[t] .. RangeEnd(start[t]) - 1
    BY <1>3
  <2>2. \A p \in Position' : p = new \/ p \in Position
    BY <1>2
  <2> QED
    BY <1>1, <1>2, <1>4, <1>11, <2>1, <2>2 DEF ChunksInv
<1>13. ApartInv'
  <2>1. ASSUME NEW p \in Position
        PROVE  /\ Apart(c.start, ChunkAt(p).start)
               /\ Apart(ChunkAt(p).start, c.start)
               /\ p[1] = t => ChunkAt(p).start < c.start
    <3>1. /\ Apart(start[t], ChunkAt(p).start)
          /\ p[1] = t => ChunkAt(p).start < start[t]
      BY <1>7, <2>1 DEF ApartInv
    <3>2. Apart(ChunkAt(p).start, start[t])
      BY <3>1 DEF Apart
    <3> QED
      BY <1>11, <3>1, <3>2
  <2>2. ASSUME NEW u \in Threads, Holds(u), u # t
        PROVE  Apart(start[u], c.start)
    BY <1>7, <1>11, <2>2 DEF ApartInv, Apart
  <2>3. \A p, q \in Position' : p # q =>
          Apart(ChunkAt(p)'.start, ChunkAt(q)'.start)
    BY <1>2, <2>1 DEF ApartInv
  <2>4. \A p, q \in Position' : p[1] = q[1] /\ p[2] < q[2] =>
          ChunkAt(p)'.start < ChunkAt(q)'.start
    <3>1. ASSUME NEW p \in Position, p[1] = new[1] PROVE ~(new[2] < p[2])
      <4>1. p[2] \in Nat
        <5>1. p[1] \in Threads /\ p[2] \in DOMAIN out[p[1]]
          BY PositionPairs
        <5>2. out[p[1]] \in Seq(Chunk)
          BY <5>1 DEF TypeOK
        <5> QED
          BY <5>1, <5>2, LenProperties
      <4>2. new[2] \in Nat
        BY <1>0, LenProperties DEF TypeOK
      <4> QED
        BY <1>2, <1>11, <3>1, <4>1, <4>2
    <3>2. ~(new[2] < new[2])
      BY <1>0, LenProperties DEF TypeOK
    <3> QED
      BY <1>2, <1>11, <2>1, <3>1, <3>2 DEF ApartInv
  <2>5. ASSUME NEW u \in Threads, Holds(u)'
        PROVE  /\ \A p \in Position' : /\ Apart(start[u], ChunkAt(p)'.start)
                                       /\ p[1] = u => ChunkAt(p)'.start < start[u]
               /\ \A w \in Threads : w # u /\ Holds(w)' => Apart(start[u], start[w])
    <3>1. Holds(u) /\ u # t
      BY <1>7, <2>5
    <3>2. /\ Apart(start[u], c.start)
          /\ new[1] # u
      BY <1>11, <2>2, <3>1
    <3>3. ASSUME NEW p \in Position
          PROVE  /\ Apart(start[u], ChunkAt(p)'.start)
                 /\ p[1] = u => ChunkAt(p)'.start < start[u]
      BY <1>2, <3>1, <3>3 DEF ApartInv
    <3>4. \A w \in Threads : w # u /\ Holds(w)' => Apart(start[u], start[w])
      BY <1>7, <3>1 DEF ApartInv
    <3> QED
      BY <1>2, <3>2, <3>3, <3>4
  <2> QED
    BY <1>1, <2>3, <2>4, <2>5 DEF ApartInv
<1>14. CoverInv'
  <2>1. ASSUME NEW r \in pass, r < nextRow, r \notin Delivered'
        PROVE  \E u \in Threads : /\ Holds(u)'
                                  /\ pc'[u] # "claim"
                                  /\ r \in start[u] .. RangeEnd(start[u]) - 1
    <3>1. PICK u \in Threads : /\ Holds(u) /\ pc[u] # "claim"
                               /\ r \in start[u] .. RangeEnd(start[u]) - 1
      BY <1>2, <2>1 DEF CoverInv
    <3>2. u # t
      <4>1. SUFFICES ASSUME u = t PROVE FALSE
        OBVIOUS
      <4>2. [id |-> r, data |-> r] \in c.rows
        BY <1>3, <3>1, <4>1
      <4>3. r \in Delivered'
        BY <1>2, <4>2
      <4> QED
        BY <2>1, <4>3
    <3> QED
      BY <1>6, <1>7, <3>1, <3>2
  <2> QED
    BY <1>1, <2>1 DEF CoverInv
<1>15. TasksInv'
  BY <1>1, <1>6 DEF TasksInv, Tasks
<1> QED
  BY <1>5, <1>8, <1>9, <1>10, <1>12, <1>13, <1>14, <1>15

(***************************************************************************)
(* Every step of the scan preserves the inductive invariant: one lemma     *)
(* above per action.                                                       *)
(***************************************************************************)
LEMMA NextIInv == IInv /\ [Next]_vars => IInv'
<1> SUFFICES ASSUME IInv, [Next]_vars PROVE IInv'
  OBVIOUS
<1>1. CASE UNCHANGED vars
  <2>1. RangesInv' /\ ChunksInv' /\ ApartInv' /\ CoverInv'
    BY <1>1, FrameKeeps DEF vars, Holds
  <2>2. TypeOK' /\ LocksInv'
    BY <1>1 DEF vars, IInv, TypeOK, LocksInv
  <2>3. BuffersInv' /\ TasksInv'
    BY <1>1 DEF vars, IInv, BuffersInv, BatchIndex, TasksInv, Tasks
  <2> QED
    BY <2>1, <2>2, <2>3 DEF IInv
<1>2. ASSUME NEW t \in Threads, Step(t) PROVE IInv'
  <2>1. CASE ClaimRange(t)     BY <2>1, ClaimRangeKeeps
  <2>2. CASE AdvanceNextRow(t) BY <2>2, AdvanceNextRowKeeps
  <2>3. CASE EndOfScan(t)      BY <2>3, EndOfScanKeeps
  <2>4. CASE ReadOnDisk(t)     BY <2>4, ReadOnDiskKeeps
  <2>5. CASE SeekHandle(t)     BY <2>5, SeekHandleKeeps
  <2>6. CASE FillBuffer(t)     BY <2>6, FillBufferKeeps
  <2>7. CASE ReadFails(t)      BY <2>7, ReadFailsKeeps
  <2>8. CASE ReturnChunk(t)    BY <2>8, ReturnChunkKeeps
  <2>9. CASE SkipChunk(t)      BY <2>9, SkipChunkKeeps
  <2> QED
    BY <1>2, <2>1, <2>2, <2>3, <2>4, <2>5, <2>6, <2>7, <2>8, <2>9 DEF Step
<1>3. CASE QueryOver
  BY <1>1, <1>3 DEF QueryOver
<1> QED
  BY <1>1, <1>2, <1>3 DEF Next

(***************************************************************************)
(* The inductive invariant holds in every reachable state.                 *)
(***************************************************************************)
THEOREM ScanInvariant == Spec => []IInv
<1>1. Init => IInv
  BY InitIInv
<1>2. IInv /\ [Next]_vars => IInv'
  BY NextIInv
<1> QED
  BY <1>1, <1>2, PTL DEF Spec

(***************************************************************************)
(* next_row stays within the file and every variable keeps its type.       *)
(***************************************************************************)
THEOREM ScanTypes == Spec => []TypeOK
<1>1. IInv => TypeOK
  BY DEF IInv
<1> QED
  BY <1>1, ScanInvariant, PTL

(***************************************************************************)
(* The bytes of a returned row are those of the row its id names.          *)
(***************************************************************************)
THEOREM ScanRowsMatchIds == Spec => []RowsMatchIds
<1>1. IInv => RowsMatchIds
  BY DEF IInv, ChunksInv, RowsMatchIds, DeliveredRows
<1> QED
  BY <1>1, ScanInvariant, PTL

\* Rows of two claims kept apart: those of the lower claim are the smaller.
LEMMA ApartRows ==
  ASSUME NEW a \in Nat, a < NumObs, NEW b \in Nat, b < NumObs, Apart(a, b),
         NEW r \in a .. RangeEnd(a) - 1, NEW s \in b .. RangeEnd(b) - 1
  PROVE  r # s /\ (a < b => r < s)
<1>1. /\ RangeEnd(a) \in Nat /\ RangeEnd(a) <= a + VectorSize
      /\ RangeEnd(b) \in Nat /\ RangeEnd(b) <= b + VectorSize
  BY RangeEndBounds
<1> QED
  BY <1>1, VectorSizeAssumption DEF Apart

(***************************************************************************)
(* No observation is returned twice, for every number of threads,          *)
(* observations and vector size.                                           *)
(***************************************************************************)
THEOREM ScanNoRowTwice == Spec => []NoRowTwice
<1>1. ASSUME IInv PROVE NoRowTwice
  <2>1. ASSUME NEW p \in Position, NEW q \in Position, p # q,
               NEW r \in ChunkAt(p).rows, NEW s \in ChunkAt(q).rows
        PROVE  r.id # s.id
    <3>1. /\ ChunkAt(p).start \in Nat /\ ChunkAt(p).start < NumObs
          /\ ChunkAt(q).start \in Nat /\ ChunkAt(q).start < NumObs
      BY <1>1, ChunkTypes DEF IInv, ChunksInv
    <3>2. /\ r.id \in ChunkAt(p).start .. RangeEnd(ChunkAt(p).start) - 1
          /\ s.id \in ChunkAt(q).start .. RangeEnd(ChunkAt(q).start) - 1
      BY <1>1 DEF IInv, ChunksInv
    <3>3. Apart(ChunkAt(p).start, ChunkAt(q).start)
      BY <1>1, <2>1 DEF IInv, ApartInv
    <3> QED
      BY <3>1, <3>2, <3>3, ApartRows
  <2> QED
    BY <2>1 DEF NoRowTwice
<1> QED
  BY <1>1, ScanInvariant, PTL

\* What the invariant says once every task has ended.
LEMMA EndIsComplete ==
  ASSUME IInv, Finished
  PROVE  Delivered = pass
<1>1. nextRow = NumObs
  BY DEF IInv, TasksInv, Finished, Tasks
<1>2. Delivered \subseteq pass
  BY DEF IInv, ChunksInv, Delivered, DeliveredRows
<1>3. ASSUME NEW r \in pass PROVE r \in Delivered
  <2>1. r < nextRow
    BY <1>1, NumObsAssumption DEF IInv, TypeOK, Rows
  <2>2. \A t \in Threads : ~Holds(t)
    BY DEF Finished, Tasks, Holds
  <2> QED
    BY <2>1, <2>2 DEF IInv, CoverInv
<1> QED
  BY <1>2, <1>3

(***************************************************************************)
(* When the scan has ended without failing, exactly the rows that satisfy  *)
(* the filter were returned.                                               *)
(***************************************************************************)
THEOREM ScanNothingLost == Spec => []NothingLost
<1>1. IInv => NothingLost
  BY EndIsComplete DEF NothingLost
<1> QED
  BY <1>1, ScanInvariant, PTL

(***************************************************************************)
(* Sorting the chunks by batch index restores the order of the file.       *)
(***************************************************************************)
THEOREM ScanBatchesOrderRows == Spec => []BatchesOrderRows
<1>1. ASSUME IInv PROVE BatchesOrderRows
  <2>1. ASSUME NEW p \in Position, NEW q \in Position, p # q
        PROVE  /\ ChunkAt(p).batch # ChunkAt(q).batch
               /\ ChunkAt(p).batch < ChunkAt(q).batch =>
                    \A r \in ChunkAt(p).rows, s \in ChunkAt(q).rows : r.id < s.id
               /\ p[1] = q[1] /\ p[2] < q[2] =>
                    ChunkAt(p).batch < ChunkAt(q).batch
    <3> DEFINE a == ChunkAt(p).start
               b == ChunkAt(q).start
    <3>1. /\ a \in Nat /\ a < NumObs /\ b \in Nat /\ b < NumObs
          /\ ChunkAt(p).batch = a \div VectorSize
          /\ ChunkAt(q).batch = b \div VectorSize
      BY <1>1, ChunkTypes DEF IInv, ChunksInv
    <3>2. /\ \A r \in ChunkAt(p).rows : r.id \in a .. RangeEnd(a) - 1
          /\ \A s \in ChunkAt(q).rows : s.id \in b .. RangeEnd(b) - 1
      BY <1>1 DEF IInv, ChunksInv
    <3>3. Apart(a, b)
      BY <1>1, <2>1 DEF IInv, ApartInv
    <3>4. p[1] = q[1] /\ p[2] < q[2] => a < b
      BY <1>1, <2>1 DEF IInv, ApartInv
    <3>5. a \div VectorSize \in Nat /\ b \div VectorSize \in Nat
      BY <3>1, VectorSizeAssumption, DivBounds
    <3> HIDE DEF a, b
    <3>6. CASE a + VectorSize <= b
      <4>1. a \div VectorSize < b \div VectorSize
        BY <3>1, <3>6, VectorSizeAssumption, BatchNumbers
      <4>2. a < b
        BY <3>1, <3>6, VectorSizeAssumption
      <4>3. \A r \in ChunkAt(p).rows, s \in ChunkAt(q).rows : r.id < s.id
        BY <3>1, <3>2, <3>3, <4>2, ApartRows
      <4> QED
        BY <3>1, <3>5, <4>1, <4>3
    <3>7. CASE b + VectorSize <= a
      <4>1. b \div VectorSize < a \div VectorSize
        BY <3>1, <3>7, VectorSizeAssumption, BatchNumbers
      <4>2. ~(a < b)
        BY <3>1, <3>7, VectorSizeAssumption
      <4> QED
        BY <3>1, <3>4, <3>5, <4>1, <4>2
    <3> QED
      BY <3>3, <3>6, <3>7 DEF Apart
  <2> QED
    BY <2>1 DEF BatchesOrderRows
<1> QED
  BY <1>1, ScanInvariant, PTL

-----------------------------------------------------------------------------
(***************************************************************************)
(* The scan implements ScanContract.                                       *)
(***************************************************************************)
\* The initial states are initial states of the contract.
LEMMA ContractInit == Init => Contract!Init
<1> SUFFICES ASSUME Init PROVE Contract!Init
  OBVIOUS
<1>1. Position = {}
  BY PositionPairs DEF Init
<1>2. Delivered = {}
  BY <1>1 DEF Delivered, DeliveredRows
<1>3. ScanStatus = "open"
  BY DEF Init, ScanStatus, SomeFailed, Finished, Tasks
<1> QED
  BY <1>2, <1>3 DEF Init, Contract!Init

\* A task that goes on running changes nothing the contract sees of the end.
LEMMA StatusKept ==
  ASSUME TypeOK, NEW t \in Threads, NEW to,
         pc[t] \notin {"off", "done", "failed"},
         to \notin {"off", "done", "failed"},
         pc' = [pc EXCEPT ![t] = to]
  PROVE  ScanStatus' = ScanStatus /\ ScanStatus # "complete"
<1>1. /\ pc'[t] = to
      /\ \A u \in Threads \ {t} : pc'[u] = pc[u]
  BY DEF TypeOK
<1>2. SomeFailed' <=> SomeFailed
  BY <1>1 DEF SomeFailed
<1>3. ~Finished /\ ~Finished'
  BY <1>1 DEF Finished, Tasks
<1> QED
  BY <1>2, <1>3 DEF ScanStatus

\* Returning a chunk is a delivery: wanted rows, none delivered before.
LEMMA ReturnChunkDelivers ==
  ASSUME IInv, NEW t \in Threads, ReturnChunk(t)
  PROVE  Contract!Deliver
<1>1. /\ pc[t] = "emit" /\ pc' = [pc EXCEPT ![t] = "call"]
      /\ Survivors(t) # {}
      /\ pass' = pass
  BY DEF ReturnChunk, Goto
<1>2. ScanStatus' = ScanStatus /\ ScanStatus # "complete"
  BY <1>1, StatusKept DEF IInv
<1> DEFINE chunk == {row.id : row \in Survivors(t)}
<1>3. Delivered' = Delivered \cup chunk
  <2>1. PICK c, new :
          /\ c = [start |-> start[t], batch |-> batch[t], rows |-> Survivors(t)]
          /\ new = <<t, Len(out[t]) + 1>>
    OBVIOUS
  <2>2. Delivered' = Delivered \cup {row.id : row \in c.rows}
    BY <2>1, OneMoreChunk DEF IInv
  <2> QED
    BY <2>1, <2>2
<1>4. chunk # {}
  BY <1>1
<1>5. ASSUME NEW r \in chunk
      PROVE  r \in pass /\ r \in start[t] .. RangeEnd(start[t]) - 1
  <2>1. PICK row \in Survivors(t) : r = row.id
    OBVIOUS
  <2> QED
    BY <1>1, <2>1, SurvivorRows
<1>6. ASSUME NEW r \in chunk, r \in Delivered PROVE FALSE
  <2>1. PICK p \in Position : \E row \in ChunkAt(p).rows : row.id = r
    BY <1>6 DEF Delivered, DeliveredRows
  <2>2. /\ ChunkAt(p).start \in Nat /\ ChunkAt(p).start < NumObs
        /\ r \in ChunkAt(p).start .. RangeEnd(ChunkAt(p).start) - 1
    BY <2>1, ChunkTypes DEF IInv, ChunksInv
  <2>3. Holds(t) /\ start[t] \in Nat /\ start[t] < NumObs
    BY <1>1 DEF IInv, Holds, RangesInv, TypeOK
  <2>4. Apart(start[t], ChunkAt(p).start)
    BY <2>3 DEF IInv, ApartInv
  <2> QED
    BY <1>5, <2>2, <2>3, <2>4, ApartRows
<1>7. chunk \in SUBSET (pass \ Delivered)
  BY <1>5, <1>6
<1> HIDE DEF chunk
<1> QED
  BY <1>1, <1>2, <1>3, <1>4, <1>7 DEF Contract!Deliver

\* The end of the last task is the end of the scan, with all delivered.
LEMMA EndOfScanCompletes ==
  ASSUME IInv, NothingLost', NEW t \in Threads, EndOfScan(t)
  PROVE  Contract!Complete \/ UNCHANGED Contract!vars
<1>1. /\ pc[t] = "call" /\ pc' = [pc EXCEPT ![t] = "done"]
      /\ pass' = pass /\ out' = out
  BY DEF EndOfScan, Goto
<1>2. /\ pc'[t] = "done"
      /\ \A u \in Threads \ {t} : pc'[u] = pc[u]
  BY <1>1 DEF IInv, TypeOK
<1>3. Delivered' = Delivered
  BY <1>1, SameOut
<1>4. SomeFailed' <=> SomeFailed
  BY <1>1, <1>2 DEF SomeFailed
<1>5. ~Finished
  BY <1>1 DEF Finished, Tasks
<1>6. CASE ~SomeFailed /\ Finished'
  <2>1. ScanStatus = "open" /\ ScanStatus' = "complete"
    BY <1>4, <1>5, <1>6 DEF ScanStatus
  <2>2. Delivered' = pass'
    BY <1>6 DEF NothingLost
  <2> QED
    BY <1>1, <1>3, <2>1, <2>2 DEF Contract!Complete
<1>7. CASE SomeFailed \/ ~Finished'
  <2>1. ScanStatus' = ScanStatus
    BY <1>4, <1>5, <1>7 DEF ScanStatus
  <2> QED
    BY <1>1, <1>3, <2>1 DEF Contract!vars
<1> QED
  BY <1>6, <1>7

\* A read that throws is a failure of the scan.
LEMMA ReadFailsFails ==
  ASSUME IInv, NEW t \in Threads, ReadFails(t)
  PROVE  Contract!Fail \/ UNCHANGED Contract!vars
<1>1. /\ pc[t] \in {"read", "fill"} /\ pc' = [pc EXCEPT ![t] = "failed"]
      /\ pass' = pass /\ out' = out
  BY DEF ReadFails, Goto
<1>2. pc'[t] = "failed"
  BY <1>1 DEF IInv, TypeOK
<1>3. Delivered' = Delivered
  BY <1>1, SameOut
<1>4. ScanStatus' = "failed"
  BY <1>2 DEF ScanStatus, SomeFailed
<1>5. ScanStatus \in {"open", "failed"}
  BY <1>1 DEF ScanStatus, Finished, Tasks
<1> QED
  BY <1>1, <1>3, <1>4, <1>5 DEF Contract!Fail, Contract!vars

\* Every step of the scan is a step of the contract or a stutter.
LEMMA ContractStep ==
  ASSUME IInv, NothingLost', [Next]_vars
  PROVE  [Contract!Next]_(Contract!vars)
<1>1. CASE UNCHANGED vars
  BY <1>1, SameOut DEF vars, Contract!vars, ScanStatus, SomeFailed, Finished, Tasks
<1>2. ASSUME NEW t \in Threads, Step(t)
      PROVE  [Contract!Next]_(Contract!vars)
  <2>1. ASSUME UNCHANGED <<pass, out>>, NEW to,
               pc[t] \notin {"off", "done", "failed"},
               to \notin {"off", "done", "failed"},
               pc' = [pc EXCEPT ![t] = to]
        PROVE  UNCHANGED Contract!vars
    BY <2>1, SameOut, StatusKept DEF IInv, Contract!vars
  <2>2. CASE ClaimRange(t)
    BY <2>1, <2>2 DEF ClaimRange, Goto
  <2>3. CASE AdvanceNextRow(t)
    BY <2>1, <2>3 DEF AdvanceNextRow, Goto
  <2>4. CASE EndOfScan(t)
    BY <2>4, EndOfScanCompletes DEF Contract!Next
  <2>5. CASE ReadOnDisk(t)
    BY <2>1, <2>5 DEF ReadOnDisk, Goto
  <2>6. CASE SeekHandle(t)
    BY <2>1, <2>6 DEF SeekHandle, Goto
  <2>7. CASE FillBuffer(t)
    BY <2>1, <2>7 DEF FillBuffer, Goto
  <2>8. CASE ReadFails(t)
    BY <2>8, ReadFailsFails DEF Contract!Next
  <2>9. CASE ReturnChunk(t)
    BY <2>9, ReturnChunkDelivers DEF Contract!Next
  <2>10. CASE SkipChunk(t)
    BY <2>1, <2>10 DEF SkipChunk, Goto, AfterEmptyChunk
  <2> QED
    BY <1>2, <2>2, <2>3, <2>4, <2>5, <2>6, <2>7, <2>8, <2>9, <2>10 DEF Step
<1>3. CASE QueryOver
  BY <1>1, <1>3 DEF QueryOver
<1> QED
  BY <1>1, <1>2, <1>3 DEF Next

(***************************************************************************)
(* The scan implements its contract, for every number of threads,          *)
(* observations and vector size, with and without reads that throw.        *)
(***************************************************************************)
THEOREM ScanImplementsContract == Spec => ImplementsContract
<1>1. Init => Contract!Init
  BY ContractInit
<1>2. IInv /\ NothingLost' /\ [Next]_vars => [Contract!Next]_(Contract!vars)
  BY ContractStep
<1> QED
  BY <1>1, <1>2, ScanInvariant, ScanNothingLost, PTL DEF Spec, ImplementsContract, Contract!Spec
=============================================================================
