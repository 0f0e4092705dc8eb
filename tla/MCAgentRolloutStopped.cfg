CONSTANTS
  Agent = {1, 2}
  Rollout = {r1}
  Worker = {w1}
  Targets <- All
  CanaryCount = 2
  BatchSize = 1
  Nobody = Nobody
  Faults = {"reject"}
  MaxRestarts = 0
SPECIFICATION Spec
PROPERTIES StoppedAsksNobody
CHECK_DEADLOCK FALSE
