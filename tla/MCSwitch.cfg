CONSTANTS
    Labels = {"A", "B", "C"}
    MaxCases = 4
    DeadFallThrough = FALSE
SPECIFICATION Spec
INVARIANTS
    SwitchPreserved
CHECK_DEADLOCK FALSE
