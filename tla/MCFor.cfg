SPECIFICATION Spec
CONSTANTS
  Simple = {"stmt"}
  Structured = {"for"}
  Labels = {}
  BackOfEmpty = {FALSE}
  MaxItems = 4
  MaxDepth = 1
INVARIANTS
  ForTestsFirst
CHECK_DEADLOCK FALSE
