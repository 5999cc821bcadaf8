SPECIFICATION AgreedSpec
CONSTANTS
    Key = {paper, note}
    Paper = paper
    Preserving = {note}
    None = none
    Device = {1, 2}
    Skew <- MCSkew
    MaxHeads = 3
    Versions <- MCVersions
    Tombstones <- MCTombstones
    MaxEdits = 3
    MaxGens = 4
    MaxKeeps = 0
    Losing = {}
INVARIANT
    NewerEditCanBePublished
CHECK_DEADLOCK FALSE
