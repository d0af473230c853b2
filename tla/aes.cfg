\* Two operations in every interleaving of threads, handlers, device and UI.
SPECIFICATION FairSpec
CONSTANTS
  Thread = {t1, t2}
  Buffer = {b1, b2, b3}
  NoThread = NoThread
  NoBuffer = NoBuffer
  Partial = Partial
\* every thread runs once
CHECK_DEADLOCK FALSE
INVARIANTS
  TypeOK
  CleanMutualExclusion
  BusyIffOngoing
  MemoryAccounted
  DmaBuffersMapped
  OwnOutput
  CallbackReachesOwner
  HandlerNeverBlocksOnItself
  ResultTruthful
  KeyStable
PROPERTIES
  RejectionJustified
  OperationEnds
