SPECIFICATION Spec
CONSTANTS
  Agent = "codex"
  None = None
  MaxChanges = 2
  MaxFaults = 1
INVARIANT RenameRetried
CHECK_DEADLOCK FALSE
