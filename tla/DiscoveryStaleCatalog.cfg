SPECIFICATION Spec
CONSTANTS
    Paper = {p1, p2}
    Regime <- Together
    MaxChanges = 3
    None = none
SYMMETRY Symmetry
INVARIANT
    ViewIsCurrent
CHECK_DEADLOCK FALSE
