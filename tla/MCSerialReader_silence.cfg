CONSTANTS
  p1 = p1
  p2 = p2
  o1 = o1
  x1 = x1
  x2 = x2
  Samples <- MCSamples
  Legal <- MCLegal
  Passing <- MCPassing
  NULL = NULL
  DEADLINE = 4
  Settings <- MCWaiting
  Bytes <- MCBytes
  Sendable <- MCSendable
  UNITS = 2
SPECIFICATION ReadingSpec
INVARIANTS
  SilenceIsRetried
CHECK_DEADLOCK FALSE
