SPECIFICATION StrategySpec
CONSTANTS
  Bufs = {b1, b2, b3}
  Callers = {t1}
  Completers = {s1, s2}
  Restarter = r
  NoBuf = NoBuf  NoThread = NoThread
  MaxCnt = 2
  Scarce = TRUE
  Requests <- MCRequests
  DBLK <- MCDBLK
INVARIANTS IInv NoStall
PROPERTIES ImplementsService ComesBack ReturnsUnlessFed ImplementsScan
CHECK_DEADLOCK FALSE
