SPECIFICATION Spec
CONSTANTS
  Metadata <- MCMetadata
  Storages = {"s1", "s2"}
  Roots = {"first", "second"}
  Writer <- MCWriter
  Others <- MCOthers
  Histories <- MCHistories
  Requests <- MCRequests
  MaxSelection = 3
  MaxEdits = 2
  OwnPolicy <- MCOwnPolicy
  OwnPassword = "k1"
  Hosts <- MCHosts
\* TLC stops at the first that is violated: take one at a time.
INVARIANT PreflightForeseesFiles
\* INVARIANT ReadsItsRepositoryAlways
\* INVARIANT UsesItsPassword
CHECK_DEADLOCK FALSE
