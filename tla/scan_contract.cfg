\* Reads that throw in the middle of the scan: the contract holds all the
\* same and every task returns.
SPECIFICATION FairSpec
CONSTANTS
  Threads = {t1, t2}
  NoThread = NoThread
  NumObs = 5
  VectorSize = 2
  NeedsData = TRUE
  OnDisk = FALSE
  IoMayFail = TRUE
PROPERTIES ImplementsContract EveryTaskReturns
