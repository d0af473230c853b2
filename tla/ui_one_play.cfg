\* ui_thread.cpp:323: nothing is played until preparation is done
SPECIFICATION UISpec
CONSTANTS
  plain = plain
  secret = secret
  Track <- Tracks
  SizeOf <- Sizes
  RateOf <- Rates
  Supported <- PllRates
  DefaultRate = 48000
  Address = {a1}
  NoAddress = NoAddress
  NoTrack = NoTrack
  MAX_VOLUME = 2
  DEFAULT_VOLUME = 2
  Delta <- RightArrow
  PipeBound = 3
  EntryBound = 2
  InitiallyEncrypted <- OneSecret
  JobBound = 1
CHECK_DEADLOCK FALSE
INVARIANTS
  OnePlayAtATime
