SPECIFICATION FairSpec
CONSTANTS
  p1 = p1
  p2 = p2
  g1 = g1
  g2 = g2
  Policy <- MCPolicy
  PlainPolicy = {}
  Request <- MCRequest
  Reader <- MCReader
  Existing = {}
  PushId <- MCPushId
  MaxClock = 3
  MaxFaults = 1
INVARIANTS PushInv SyncedIsAccepted
PROPERTIES AgentNeverGoesBack RefusedPushRestores Converges
CHECK_DEADLOCK FALSE
