SPECIFICATION Spec
CONSTANTS
  Simple = {"stmt"}
  Structured = {"case"}
  Labels = {"value"}
  BackOfEmpty = {FALSE}
  MaxItems = 5
  MaxDepth = 1
INVARIANTS
  UnmatchedAborts
CHECK_DEADLOCK FALSE
