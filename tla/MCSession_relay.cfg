SPECIFICATION Spec
CONSTANTS
    Viewers = {v1, v2}
    FlowControlled = {v1}
    Sizes = {s1}
    FirstSize = s1
    HighWater = 2
    SnapshotCost = 1
    MaxSeq = 4
    MaxTick = 1
    None = None
CHECK_DEADLOCK FALSE
INVARIANTS
    BacklogBounded
