CONSTANTS
    W = 2
    Kinds = {"lpm"}
    MaxFields = 1
    Targets = {"bmv2"}
    Excluded = {"mixedKey"}
SPECIFICATION Spec
INVARIANTS
    RealMatchIsPossible
CHECK_DEADLOCK FALSE
