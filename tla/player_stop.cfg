\* libaxidma.c:386: what is freed was allocated
SPECIFICATION Spec
CONSTANTS
  short = short
  long = long
  odd = odd
  Track <- Tracks
  SizeOf <- Sizes
  RateOf <- Rates
  Supported <- PllRates
  DefaultRate = 48000
  Address = {a1, a2}
  NoAddress = NoAddress
  NoTrack = NoTrack
  MAX_VOLUME = 2
  DEFAULT_VOLUME = 1
  Delta <- ArrowSteps
  PipeBound = 3
  EntryBound = 2
SYMMETRY AddressSymmetry
CHECK_DEADLOCK FALSE
INVARIANTS
  StopFreesTheRegion
