SPECIFICATION FairSpec
CONSTANTS
  c1 = c1  c2 = c2
  t1 = t1  t2 = t2  d1 = d1
  Cmds = {c1}
  Devs = {d1}
  Dev <- MCDev
  DevMax <- MCOne
  NInst <- MCOne
  HbaMax = 1
  Clients = {t1}
  Intr = intr  DoneqSoft = doneqsoft  TimerSoft = timersoft
  NoCmd = NoCmd  NoThread = NoThread
  Ops = {"transport", "dump"}
  MaxPhases = 1
  ResetFails = FALSE
PROPERTIES ComesBack
