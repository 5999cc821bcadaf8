SPECIFICATION MCSpec
CONSTANTS
    Key = {paper, note}
    Paper = paper
    Preserving = {note}
    None = none
    Device = {1, 2}
    Skew <- MCSkew
    MaxHeads = 3
    Versions <- MCVersions
    Tombstones <- MCTombstones
    MaxEdits = 3
    MaxGens = 4
    MaxKeeps = 1
    Losing = {1}
INVARIANTS
    PublishedNeverRegresses
    ForkKeepsBoth
    ParentsArePreserved
    EditIsKept
    FoldIgnoresOrder
    FoldIsConsistent
    FoldLosesNoValue
CHECK_DEADLOCK FALSE
