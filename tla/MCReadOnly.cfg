SPECIFICATION Spec
CONSTANTS
  Compilers = {c1}
  Texts <- MCTexts
  MaxCompilations = 2
INVARIANTS
  ReadOnlyImports
CHECK_DEADLOCK FALSE
