SPECIFICATION LiveSpec
CONSTANTS
  r1 = r1
  r2 = r2
  r3 = r3
  Channels = {c1}
  NoChannel = NoChannel
  Requests <- TwoRequests
  Messages <- TwoMessages
  Integrations = {}
  Streams = {v1}
  Cap = 1
  PageSize = 1
  MaxPolls = 1
SYMMETRY Symmetry2
INVARIANTS
  SseDeliversTheMessage
CHECK_DEADLOCK FALSE
