SPECIFICATION Spec
CONSTANTS
  Simple = {"stmt", "exit"}
  Structured = {"loop", "begin"}
  Labels = {}
  BackOfEmpty = {FALSE}
  MaxItems = 6
  MaxDepth = 2
INVARIANTS
  ExitsFlow
CHECK_DEADLOCK FALSE
