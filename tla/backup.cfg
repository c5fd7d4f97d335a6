SPECIFICATION FairSpec
CONSTANTS
  Chunks <- BothEnds
  BlockSize = 2
  FinSize = 1
  Window = 2
  MaxOutages = 2
INVARIANTS
  BackupTypeOK
  NothingCountsTwice
  UndisturbedIsComplete
PROPERTIES TransferEnds
CHECK_DEADLOCK FALSE
