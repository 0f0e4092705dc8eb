CONSTANTS
  Agent = {1}
  Rollout = {r1}
  Worker = {w1}
  Targets <- All
  CanaryCount = 1
  BatchSize = 1
  Nobody = Nobody
  Faults = {"install"}
  MaxRestarts = 0
SPECIFICATION FairSpec
PROPERTIES OverdueItemEnds
CHECK_DEADLOCK FALSE
