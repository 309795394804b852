SPECIFICATION BoundedSpec
CONSTANTS
  Links = {k1}
  Fetches = {f1}
  Limit = 2
  Sizes <- FileSizes
  NoLink = NoLink
  MaxStart = 2
CHECK_DEADLOCK FALSE
INVARIANT DeadlineSparesBody
