\* aes_thread.cpp:45: the wait for the operation ends; one thread is enough
SPECIFICATION FairSpec
CONSTANTS
  Thread = {t1}
  Buffer = {b1, b2}
  NoThread = NoThread
  NoBuffer = NoBuffer
  Partial = Partial
CHECK_DEADLOCK FALSE
PROPERTIES
  WaitEnds
