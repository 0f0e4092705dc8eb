CONSTANTS
  Conn = {1, 2}
  None = None
  MaxInbox = 1
  MaxSilences = 1
  MaxQueued = 1
  MaxRestarts = 1
  MaxEvents = 2
SPECIFICATION FairSpec
ACTION_CONSTRAINTS InOrder SilenceAlone
INVARIANTS HubInv
PROPERTIES OnlyOwnerRemoves FreshStaysOnline PresenceSettles QueuedIsDispatched
CHECK_DEADLOCK FALSE
