CONSTANTS
  Conn = {c1, c2}
  None = None
  MaxInbox = 1
  MaxSilences = 0
  MaxQueued = 0
  MaxRestarts = 1
  MaxEvents = 1
SPECIFICATION FairSpec
PROPERTIES GoneAgentIsOffline
CHECK_DEADLOCK FALSE
