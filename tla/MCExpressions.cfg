CONSTANTS
    Variables = {"INTEGER", "REAL", "STRING", "SET", "POINTER"}
    Literals = {2}
    LiteralTypes = {"CHAR", "BOOLEAN", "VOID"}
    Functions <- MCFunctions
    MaxInt = 3
    MaxFactors = 3
    Symbols = {"*", "/", "DIV", "MOD", "&", "+", "-", "OR", "=", "<", "IN"}
    MaxNesting = 2
    MaxStatements = 2
SPECIFICATION Spec
INVARIANTS
    TypeOK
    GeneratedFits
    ConstantsAgree
    ConstantsConstant
CHECK_DEADLOCK FALSE
