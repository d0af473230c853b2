\* aes.h:61: the rx buffer is copied to the output; one thread is enough
SPECIFICATION Spec
CONSTANTS
  Thread = {t1}
  Buffer = {b1, b2}
  NoThread = NoThread
  NoBuffer = NoBuffer
  Partial = Partial
CHECK_DEADLOCK FALSE
INVARIANTS
  SuccessIsWritten
