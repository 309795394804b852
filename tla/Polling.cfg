SPECIFICATION FairPollingSpec
CONSTANTS
  r1 = r1
  r2 = r2
  r3 = r3
  Channels = {c1}
  NoChannel = NoChannel
  Requests <- TwoRequests
  Messages <- TwoMessages
  Integrations = {}
  Streams = {v1}
  Cap = 1
  PageSize = 1
  MaxPolls = 2
INVARIANTS
  NoDuplicateRows
  PollLossHasCause
CHECK_DEADLOCK FALSE
PROPERTY PollCatchesUp
