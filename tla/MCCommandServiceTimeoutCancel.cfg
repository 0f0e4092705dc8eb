SPECIFICATION Spec
CONSTANTS
  a1 = a1
  d1 = d1
  d2 = d2
  Command = {2}
  Agent = {a1}
  AgentOf <- OneAgent
  Kind <- LongKind
  Selective = {2}
  Dispatcher = {d1}
  BatchLimit = 2
  MaxWire = 2
  MaxRestarts = 0
  None = None
\* Requests may cease and every command be terminal.
CHECK_DEADLOCK FALSE
PROPERTIES
  RunningTimeoutSendsCancel
