CONSTANTS
    W = 2
    Kinds = {"exact", "ternary", "optional", "range", "selector"}
    MaxFields = 2
    Targets = {"bmv2", "other"}
    Excluded = {"singleValueRange", "absentOptional", "mixedKey"}
SPECIFICATION Spec
INVARIANTS
    CertainMatchIsReal
    RealMatchIsPossible
CHECK_DEADLOCK FALSE
