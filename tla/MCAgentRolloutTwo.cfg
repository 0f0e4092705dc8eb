CONSTANTS
  Agent = {1}
  Rollout = {r1, r2}
  Worker = {w1}
  Targets <- All
  CanaryCount = 1
  BatchSize = 1
  Nobody = Nobody
  Faults = {}
  MaxRestarts = 0
SPECIFICATION Spec
INVARIANTS OneRolloutPerAgent
CHECK_DEADLOCK FALSE
