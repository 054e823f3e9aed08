CONSTANTS
    Platforms = {"bmv2", "tofino"}
    Methods <- FaithfulMethods
    Fields = {"x", "y"}
    Inputs <- MCInputs
    Expressions <- MCExpressions
    Arguments <- MCArguments
    Tests <- MCTests
    TableShapes <- MCTableShapes
    MaxSymbols = 4
    MaxStatements = 4
    MaxNodes = 2
    MaxDepth = 2
SPECIFICATION Spec
INVARIANTS
    TypeOK
    StateExact
    VerdictsExact
CHECK_DEADLOCK FALSE
