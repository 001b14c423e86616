CONSTANTS
    Variables = {"CHAR"}
    Literals = {2}
    LiteralTypes = {"CHAR"}
    Functions <- MCFunctions
    MaxInt = 3
    MaxFactors = 3
    Symbols = {"+"}
    MaxNesting = 2
    MaxStatements = 2
SPECIFICATION Spec
INVARIANTS
    StringsAsCharacters
CHECK_DEADLOCK FALSE
