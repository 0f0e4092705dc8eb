CONSTANTS
  Agent = {1, 2, 3}
  Rollout = {r1}
  Worker = {w1, w2}
  Targets <- All
  CanaryCount = 2
  BatchSize = 1
  Nobody = Nobody
  Faults = {}
  MaxRestarts = 0
SPECIFICATION Spec
INVARIANTS SucceededIsUpgraded
CHECK_DEADLOCK FALSE
