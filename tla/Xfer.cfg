SPECIFICATION FairSpec
CONSTANTS
  N = 6
  FirstSec = 8
  Dirs = {"read", "write"}
  Dmas = {TRUE, FALSE}
  MaxTransfer = 4
  UIntSectors = 100
  Window = 4
  Segment = 2
  Disks <- MCDisks
  Reg = 4
  Heads = 2
  IntMax = 511
  MaxSect = 3
  BogusCyls = 9
  NoBios = NoBios
  SliceFirst = 6
  SliceLast = 16
  DmaRemap = FALSE
  Factor = 2
  RetryCount = 2
  MaxErrors = 5
  MaxSlow = 2
  ErrorData = TRUE
  DmaFaults = TRUE
INVARIANTS Correct InBounds ErrorResid ErrorBlock
PROPERTIES Finishes
