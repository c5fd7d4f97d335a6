SPECIFICATION Spec
CONSTANTS
  Chunks <- FullBlocks
  BlockSize = 2
  FinSize = 1
  Window = 2
  MaxOutages = 1
INVARIANT RowIsTotal
CHECK_DEADLOCK FALSE
