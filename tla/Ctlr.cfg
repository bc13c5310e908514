SPECIFICATION FairSpec
CONSTANTS
  p1 = p1
  p2 = p2
  p3 = p3
  Arq = Arq
  NoPkt = NoPkt
  NoDrive = NoDrive
  Pkts = {p1, p2, p3}
  Drives = {0, 1}
  Target <- MCTwo
  Kind <- MCKind
  Dir <- MCInOut
  Dma <- MCPio
  ArqOn = {p1}
  NoCdbIntr = {}
  BsyWait = FALSE
  Size = 2
  DevLens = {1, 3}
  Block = 2
  Slow = FALSE
  MaxSpurious = 0
  MaxErrors = 2
INVARIANTS SenseIsItsOwn ErrorsAreReal DataAccounted
PROPERTY Served
