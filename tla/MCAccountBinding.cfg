CONSTANTS
    Account = {"A", "B"}
    Root = {"a1", "a2", "b"}
    Owner <- MCOwner
    None = None
    MaxNotes = 2
    MaxSessions = 2
    MaxElsewhere = 1
SPECIFICATION Spec
CONSTRAINT FewExcuses
CHECK_DEADLOCK FALSE
INVARIANTS
    TypeOK
    CleanIsInRoot
    CatalogIsOfRoot
    CatalogCoversCursor
    DisconnectedStaysDisconnected
