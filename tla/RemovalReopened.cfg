SPECIFICATION Spec
CONSTANTS
    MaxNotes = 1
    MaxRemovals = 1
    MaxHeads = 3
    MaxRequests = 0
    None = None
INVARIANT NotesStayInDrive
CHECK_DEADLOCK FALSE
