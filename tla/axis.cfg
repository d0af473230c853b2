\* Two processes, one that blocks and one that does not; a core that receives and a core that
\* sends.  Deadlock is not checked: a process whose file was opened before a probe failed is
\* caught without its device.
SPECIFICATION AxisSpec
CONSTANTS
  p1 = p1
  p2 = p2
  Process = {p1, p2}
  odd = odd
  Payload <- Payloads
  Bytes <- Lengths
  NoPayload = NoPayload
  BUF_SIZE = 1
  RxDepth = 4
  TxDepth = 3
  Tree <- Trees
  Threshold = {2}
  Register = {"SRR"}
  FlagsOf <- OpenedAs
  Admin = {p1}
  Nobody = Nobody
CHECK_DEADLOCK FALSE
INVARIANTS
  AxisTypeOK
  NoUnmappedAccess
  NoLostWakeUp
  LockHolder
PROPERTIES
  WritesWhole
  ImplementsChannel
