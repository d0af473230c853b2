\* Two processes on one device; deadlock is not checked: without a device tree that
\* parses there is nothing to do once a channel has leaked.
SPECIFICATION LibSpec
CONSTANTS
  p1 = p1
  p2 = p2
  Process = {p1, p2}
  Tree <- Trees
  ChannelId = {0, 1}
  NoId = NoId
  Address = {0, 1}
  Memory = {m1}
  Exported = {x1}
  m1 = m1
  x1 = x1
  BuffersOf <- BuffersUsed
  MaxTransfers = 2
  None = None
SYMMETRY Processes
CHECK_DEADLOCK FALSE
INVARIANTS
  DmaTypeOK
  DmaOnOwnMemory
  CallbackTargetAlive
  TableSound
PROPERTIES
  SuccessIsOwn
  ReturnsQuiet
