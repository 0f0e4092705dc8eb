SPECIFICATION Spec
CONSTANTS
  f1 = f1
  f2 = f2
  f3 = f3
  File <- MCFile
  Irregular <- MCIrregular
  Database <- MCDatabase
  Safe <- MCSafe
  Container <- MCContainer
  Policy <- MCPolicy
  MaxSize = 1
  ManifestSize = 1
  MaxJobs = 2
  MaxDate = 0
INVARIANTS BackupInv SuccessIsComplete MarkerAfterData PassedMeansChecked
PROPERTIES HooksBracketData OverwriteIsWarned
CHECK_DEADLOCK FALSE
