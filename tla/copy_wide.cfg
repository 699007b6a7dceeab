\* More columns than the column part of a strL reference has values.
SPECIFICATION Spec
CONSTANTS
  Columns <- StrStrStr
  Dictionary <- Labels
  VMod = 2
  OMod = 8
  Null = Null
  Garbage = Garbage
  Threads = {t1, t2}
  NoThread = NoThread
  InputRows <- WideRows
  OutOfRange = OutOfRange
  ChunkSize = 2
  MaxRows = 2
  DiskMayFill = FALSE
INVARIANT WideTablesReadBack
