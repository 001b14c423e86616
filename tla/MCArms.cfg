SPECIFICATION Spec
CONSTANTS
  Simple = {"stmt"}
  Structured = {"if", "case"}
  Labels = {"value"}
  BackOfEmpty = {FALSE}
  MaxItems = 7
  MaxDepth = 2
INVARIANTS
  ArmsFlow
CHECK_DEADLOCK FALSE
