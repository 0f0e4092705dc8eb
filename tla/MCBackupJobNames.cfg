SPECIFICATION Spec
CONSTANTS
  f1 = f1
  f2 = f2
  f3 = f3
  File <- MCFile
  Irregular <- MCIrregular
  Database <- MCDatabase
  Safe <- MCSafe
  Container <- MCContainer
  Policy <- MCNamesMeet
  MaxSize = 1
  ManifestSize = 1
  MaxJobs = 1
  MaxDate = 0
INVARIANTS DumpsSeparate
CHECK_DEADLOCK FALSE
