SPECIFICATION Spec
CONSTANTS
  Simple = {"stmt", "exit", "return"}
  Structured = {"if", "case", "while", "repeat", "loop", "for", "begin"}
  Labels = {"value", "range"}
  BackOfEmpty = {FALSE}
  MaxItems = 7
  MaxDepth = 3
INVARIANTS
  TypeOK
  FlowRight
  ExitChecked
CHECK_DEADLOCK FALSE
