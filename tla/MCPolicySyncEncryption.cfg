SPECIFICATION Spec
CONSTANTS
  p1 = p1
  p2 = p2
  g1 = g1
  g2 = g2
  Policy <- MCPolicy
  PlainPolicy <- MCPlain
  Request <- MCRequest
  Reader <- MCReader
  Existing <- MCPolicy
  PushId <- MCPushId
  MaxClock = 2
  MaxFaults = 1
INVARIANTS EncryptedStaysEncrypted
CHECK_DEADLOCK FALSE
