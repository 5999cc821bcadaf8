SPECIFICATION Spec
CONSTANTS
    Paper = {p1, p2}
    Regime <- Apart
    MaxChanges = 3
    None = none
SYMMETRY Symmetry
INVARIANTS
    ViewIsCurrent
    CatalogIsCurrent
PROPERTY
    KnownPaperIsNotForgotten
CHECK_DEADLOCK FALSE
