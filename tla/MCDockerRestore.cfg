SPECIFICATION Spec
CONSTANTS
  Metadata <- MCMetadata
  Storages = {"s1", "s2"}
  Roots = {"first", "second"}
  Writer <- MCWriter
  Others <- MCOthers
  Histories <- MCHistories
  Requests <- MCRequests
  MaxSelection = 3
  MaxEdits = 2
  OwnPolicy <- MCOwnPolicy
  OwnPassword = "k1"
  Hosts <- MCHosts
INVARIANTS RequestInv BatchInv
PROPERTIES DataBeforeContainers StopsWhenCancelled
CHECK_DEADLOCK FALSE
