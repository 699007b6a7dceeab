\* Two strL columns and a numeric one, values out of range and a full disk.
SPECIFICATION FairSpec
CONSTANTS
  Columns <- StrStrNum
  Dictionary <- Labels
  VMod = 4
  OMod = 8
  Null = Null
  Garbage = Garbage
  Threads = {t1, t2}
  NoThread = NoThread
  InputRows <- StrStrNumRows
  OutOfRange = OutOfRange
  ChunkSize = 2
  MaxRows = 4
  DiskMayFill = TRUE
INVARIANTS TypeOK RefsAreFirstOccurrences FinalizedReadsBack
PROPERTIES ImplementsContract CopyEnds
