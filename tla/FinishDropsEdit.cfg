SPECIFICATION MCSpec
CONSTANTS
    Task = {upload, removal, scan, housekeeping}
    Retained = {upload, removal}
    Closer = {disconnect, finish}
    None = none
    Upload = upload
    Finish = finish
    Busy = {upload, scan}
INVARIANT FinishAsks
