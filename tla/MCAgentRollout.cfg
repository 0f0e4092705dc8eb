CONSTANTS
  Agent = {1, 2, 3}
  Rollout = {r1}
  Worker = {1, 2}
  Targets <- All
  CanaryCount = 2
  BatchSize = 1
  Nobody = Nobody
  Faults = {"reject", "loss"}
  MaxRestarts = 0
SPECIFICATION FairSpec
ACTION_CONSTRAINT FirstIdle
INVARIANTS RolloutInv
PROPERTIES RolloutEnds OutcomeIsFinal
CHECK_DEADLOCK FALSE
