SPECIFICATION Spec
CONSTANTS
  Charts = {c1}
  NoChart = NoChart
  Requests = {r1}
  Payloads = {open}
  Closing = {}
  NoRequest = NoRequest
  Modes = {TRUE}
  MaxBoots = 2
  InitialLots = 0
PROPERTY FailedWriteKept
CHECK_DEADLOCK FALSE
