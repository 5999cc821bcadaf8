SPECIFICATION Spec
CONSTANTS
    Device = {d1, d2}
    Folder = {f1, f2}
    GenId = {g1, g2, g3, g4}
    None = None
SYMMETRY Symmetry
INVARIANTS
    TypeOK
    OnlyForksBreakResolution
    PresentHasPackage
    OnlyRestoreAnswersRemoval
    PresentMeansAllAcknowledged
PROPERTY ImplementsAuthority
CHECK_DEADLOCK FALSE
