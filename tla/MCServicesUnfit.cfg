SPECIFICATION MCSpec
CONSTANTS
  Scenarios = {"restore"}
  Stream = {out, err}
  MaxLines = 2
  Page = 1
  TTL = 1
  MaxEmitted = 3
  MaxTicks = 2
  MaxRestarts = 1
  File = {db, key, extra}
  Archived = {db, key}
  MaxUploads = 2
  MaxCrashes = 2
  MaxSeconds = 2
PROPERTIES ValidatedIsInstalled
CHECK_DEADLOCK FALSE
