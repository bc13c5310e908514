SPECIFICATION Spec
CONSTANTS
  p1 = p1
  p2 = p2
  p3 = p3
  Arq = Arq
  NoPkt = NoPkt
  NoDrive = NoDrive
  Pkts = {p1, p2}
  Drives = {1}
  Target <- MCAlone
  Kind <- MCFunc
  Dir <- MCInNone
  Dma <- MCDma
  ArqOn = {p1}
  NoCdbIntr = {1}
  BsyWait = TRUE
  Size = 1
  DevLens = {1}
  Block = 1
  Slow = TRUE
  MaxSpurious = 1
  MaxErrors = 1
INVARIANTS OneActive IdleDrives
PROPERTY ImplementsService
