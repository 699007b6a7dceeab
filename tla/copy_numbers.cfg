\* An ENUM and a numeric column: crashes without a strL column to notice them.
SPECIFICATION Spec
CONSTANTS
  Columns <- EnumNum
  Dictionary <- Labels
  VMod = 4
  OMod = 8
  Null = Null
  Garbage = Garbage
  Threads = {t1, t2}
  NoThread = NoThread
  InputRows <- EnumNumRows
  OutOfRange = OutOfRange
  ChunkSize = 2
  MaxRows = 3
  DiskMayFill = TRUE
SYMMETRY ThreadSymmetry
INVARIANTS FinalizedReadsBack CrashShowsNothingOrAll FailedCopyShowsNothing
