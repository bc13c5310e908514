SPECIFICATION Spec
CONSTANTS
  N = 4
  FirstSec = 8
  Dirs = {"read"}
  Dmas = {FALSE}
  MaxTransfer = 4
  UIntSectors = 100
  Window = 2
  Segment = 2
  Disks <- MCPlain
  Reg = 4
  Heads = 2
  IntMax = 511
  MaxSect = 3
  BogusCyls = 9
  NoBios = NoBios
  SliceFirst = 6
  SliceLast = 16
  DmaRemap = FALSE
  Factor = 2
  RetryCount = 2
  MaxErrors = 3
  MaxSlow = 0
  ErrorData = FALSE
  DmaFaults = FALSE
INVARIANT NoHang
