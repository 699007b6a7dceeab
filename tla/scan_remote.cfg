\* Handle not on disk: positional reads share the position of the handle.
SPECIFICATION Spec
CONSTANTS
  Threads = {t1, t2, t3}
  NoThread = NoThread
  NumObs = 7
  VectorSize = 2
  NeedsData = TRUE
  OnDisk = FALSE
  IoMayFail = FALSE
SYMMETRY ThreadSymmetry
INVARIANTS TypeOK RowsMatchIds NoRowTwice BatchesOrderRows IInv
