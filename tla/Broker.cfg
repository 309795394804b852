SPECIFICATION BoundedSpec
CONSTANTS
  Channels = {c1, c2}
  Streams = {s1, s2}
  Messages = {m1}
  Cap = 2
  NoChannel = NoChannel
  MaxLog = 5
SYMMETRY Symmetry
INVARIANTS
  BrokerTypeOK
  Registered
  StreamOrder
  Accounted
  FirstCapNeverDropped
CHECK_DEADLOCK FALSE
