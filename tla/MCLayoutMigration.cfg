SPECIFICATION Spec
CONSTANTS
    Device = {d1, d2}
    Paper = {p1, p2}
    Control = {c1, c2}
    MaxChanges = 2
    None = none
INVARIANTS
    RetryIsSafe
PROPERTIES
    BaselineIsTrue
    ActivationIsFinal
SYMMETRY Symmetry
CONSTRAINT OneDisturbance
CHECK_DEADLOCK FALSE
