CONSTANTS
  Agent = {1, 2, 3, 4}
  Rollout = {r1}
  Worker = {w1}
  Targets <- All
  CanaryCount = 1
  BatchSize = 2
  Nobody = Nobody
  Faults = {"reject", "loss", "install", "disconnect", "offline", "cancel"}
  MaxRestarts = 1
SPECIFICATION Spec
ACTION_CONSTRAINT OtherwiseOnline
INVARIANTS SerialInv
CHECK_DEADLOCK FALSE
