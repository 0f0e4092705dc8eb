SPECIFICATION Spec
ACTION_CONSTRAINT OneDeadline
CONSTANTS
  a1 = a1
  d1 = d1
  d2 = d2
  Command = {1, 2}
  Agent = {a1}
  AgentOf <- OneAgent
  Kind <- ShortKind
  Selective = {}
  Dispatcher = {d1}
  BatchLimit = 1
  MaxWire = 1
  MaxRestarts = 0
  None = None
\* Requests may cease and every command be terminal.
CHECK_DEADLOCK FALSE
PROPERTIES
  TerminalIsFinal
