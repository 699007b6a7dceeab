\* Handle on disk: reads name their position and take no mutex; nothing is lost.
SPECIFICATION FairSpec
CONSTANTS
  Threads = {t1, t2}
  NoThread = NoThread
  NumObs = 5
  VectorSize = 2
  NeedsData = TRUE
  OnDisk = TRUE
  IoMayFail = TRUE
INVARIANT NothingLost
PROPERTY ScanCompletes
