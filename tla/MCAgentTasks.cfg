SPECIFICATION FairSpec
ACTION_CONSTRAINTS FirstIsP1 Bounded
CONSTANTS
  p1 = p1
  p2 = p2
  backup1 = backup1
  verify1 = verify1
  restore1 = restore1
  Policy <- MCPolicy
  Command <- MCCommand
  Kind <- MCKind
  MaxTicks = 2
  MaxDeliveries = 2
  MaxFaults = 1
  MaxEvents = 4
INVARIANTS TasksInv QueueIsServed ResultsAreKept
PROPERTIES QueuedRuns
CHECK_DEADLOCK FALSE
