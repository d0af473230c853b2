\* The whole player, from key press to the restored terminal.
SPECIFICATION UIFairSpec
CONSTANTS
  plain = plain
  secret = secret
  Track <- Tracks
  SizeOf <- Sizes
  RateOf <- Rates
  Supported <- PllRates
  DefaultRate = 48000
  Address = {a1}
  NoAddress = NoAddress
  NoTrack = NoTrack
  MAX_VOLUME = 2
  DEFAULT_VOLUME = 2
  Delta <- RightArrow
  PipeBound = 3
  EntryBound = 2
  InitiallyEncrypted <- OneSecret
  JobBound = 1
ACTION_CONSTRAINTS FewKeys FewLosses
\* the process ends after SIGINT
CHECK_DEADLOCK FALSE
INVARIANTS
  UITypeOK
  DisplayAgrees
  PreparingIsPending
  PlayingIsKnown
PROPERTIES
  PreparationEnds
  InterruptEnds
