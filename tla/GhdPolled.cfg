SPECIFICATION Spec
CONSTANTS
  c1 = c1  c2 = c2
  t1 = t1  t2 = t2  d1 = d1
  Cmds = {c1, c2}
  Devs = {d1}
  Dev <- MCDev
  DevMax <- MCTwo
  NInst <- MCOne
  HbaMax = 2
  Clients = {t1, t2}
  Intr = intr  DoneqSoft = doneqsoft  TimerSoft = timersoft
  NoCmd = NoCmd  NoThread = NoThread
  Ops = {"transport", "dump"}
  MaxPhases = 1
  ResetFails = FALSE
SYMMETRY MCSymmetry
INVARIANTS ExactlyOnce DoneqAttended CountersExact NoStranded
PROPERTIES ImplementsService
