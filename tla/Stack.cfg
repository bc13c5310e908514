SPECIFICATION MCSpec
CONSTANTS
  n0 = n0
  n1 = n1
  n2 = n2
  sd1 = sd1
  NoNode = NoNode
  Targets = {0, 1}
  Nodes = {n0, n1, n2, sd1}
  CmdkNodes = {n0, n1, n2}
  Target <- MCTarget
  ConfClass <- MCClass
  Unit <- MCUnit
  Units = {0, 1, 2}
  Parts = {0, 1}
  RegTypes = {"chr"}
  Callers = {"c1", "c2"}
  MaxOpens = 3
  MaxVersion = 2
  Disks <- MCDisks
  Reg = 4
  Heads = 2
  IntMax = 255
  MaxSect = 3
  BogusCyls = 9
  NoBios = NoBios
  None = None
INVARIANTS
  NothingLeft ChannelsApart Grounded StackStands
  OpensAccounted LabelFresh BbhFresh BbhStable
  AllAddressable
PROPERTY DevidKept
