\* Any sequence of commands, in every interleaving with the completions.
SPECIFICATION Spec
CONSTANTS
  short = short
  long = long
  odd = odd
  Track <- Tracks
  SizeOf <- Sizes
  RateOf <- Rates
  Supported <- PllRates
  DefaultRate = 48000
  Address = {a1, a2}
  NoAddress = NoAddress
  NoTrack = NoTrack
  MAX_VOLUME = 2
  DEFAULT_VOLUME = 1
  Delta <- ArrowSteps
  PipeBound = 3
  EntryBound = 2
SYMMETRY AddressSymmetry
ACTION_CONSTRAINT OneAfterLate
\* the process ends on EXIT
CHECK_DEADLOCK FALSE
INVARIANTS
  TypeOK
  WholeTrackPlayed
  IdleIsSilent
  NothingLeaks
  ReplyTruthful
  CompletionMatchesTransfer
  ExitIsClean
