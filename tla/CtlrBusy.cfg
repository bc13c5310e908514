SPECIFICATION Spec
CONSTANTS
  p1 = p1
  p2 = p2
  p3 = p3
  Arq = Arq
  NoPkt = NoPkt
  NoDrive = NoDrive
  Pkts = {p1, p2}
  Drives = {1}
  Target <- MCAlone
  Kind <- MCKind
  Dir <- MCInNone
  Dma <- MCPio
  ArqOn = {p1}
  NoCdbIntr = {}
  BsyWait = TRUE
  Size = 1
  DevLens = {1}
  Block = 1
  Slow = TRUE
  MaxSpurious = 0
  MaxErrors = 0
INVARIANTS ErrorsAreReal
