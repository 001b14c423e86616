CONSTANTS
    Variables = {"INTEGER"}
    Literals = {2}
    LiteralTypes = {"VOID"}
    Functions <- MCFunctions
    MaxInt = 3
    MaxFactors = 3
    Symbols = {"+"}
    MaxNesting = 2
    MaxStatements = 1
SPECIFICATION Spec
INVARIANTS
    ArgumentsIdentifiers
CHECK_DEADLOCK FALSE
