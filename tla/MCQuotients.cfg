CONSTANTS
    Variables = {"INTEGER"}
    Literals = {2, 3}
    LiteralTypes = {}
    Functions <- MCFunctions
    MaxInt = 3
    MaxFactors = 3
    Symbols = {"DIV", "-"}
    MaxNesting = 2
    MaxStatements = 2
SPECIFICATION Spec
INVARIANTS
    QuotientsFloored
CHECK_DEADLOCK FALSE
