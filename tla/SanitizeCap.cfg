SPECIFICATION Spec
CONSTANTS
    MaxQueryRunes = 3
    MaxInput = 6
CHECK_DEADLOCK FALSE
INVARIANTS
    Truncated
