\* Files of every format, whole, cut off anywhere, and with fields that lie.
SPECIFICATION FairSpec
CONSTANTS
  Files <- MCFiles
  Size <- MCSize
  Content <- MCContent
  Source <- MCSource
  Samples <- MCSamples
  TagLen <- TagBytes
  Garbage = Garbage
  Repeats <- MCRepeats
  Mod32 <- Width32
  Mod64 <- Width64
INVARIANTS TypeOK ScansStayInFile WholeFilesOpen OpenedTablesAreTrue ExcessIsRejected AllocationsFitFile
PROPERTY OpenEnds
