SPECIFICATION FairBoundedSpec
CONSTANTS
  Links = {k1, k2}
  Fetches = {f1, f2}
  Limit = 2
  Sizes <- FileSizes
  NoLink = NoLink
  MaxStart = 3
CHECK_DEADLOCK FALSE
INVARIANTS
  AudioTypeOK
  DeadLinkHasCause
PROPERTY OnlyClientHoldsFetch
