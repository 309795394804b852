SPECIFICATION PagingSpec
CONSTANTS
  r1 = r1
  r2 = r2
  r3 = r3
  Channels = {c1}
  NoChannel = NoChannel
  Requests <- ThreeRequests
  Messages <- ThreeMessages
  Integrations = {}
  Streams = {v1}
  Cap = 1
  PageSize = 1
  MaxPolls = 1
SYMMETRY Symmetry3
INVARIANTS
  RowsAreChronological
CHECK_DEADLOCK FALSE
