\* aes.h:74: state_mutex excludes
SPECIFICATION Spec
CONSTANTS
  Thread = {t1, t2, t3}
  Buffer = {b1, b2}
  NoThread = NoThread
  NoBuffer = NoBuffer
  Partial = Partial
SYMMETRY ThreadAndBufferSymmetry
CHECK_DEADLOCK FALSE
INVARIANTS
  MutualExclusion
