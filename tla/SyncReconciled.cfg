SPECIFICATION BehindSpec
CONSTANTS
    Key = {paper, note}
    Paper = paper
    Preserving = {note}
    None = none
    Device = {1, 2}
    Skew <- MCSkew
    MaxHeads = 3
    Versions <- MCVersions
    Tombstones <- MCTombstones
    MaxEdits = 4
    MaxGens = 4
    MaxKeeps = 0
    Losing = {}
INVARIANT
    ReplacedValueStaysReplaced
CHECK_DEADLOCK FALSE
