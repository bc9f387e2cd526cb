SPECIFICATION FairSpec
CONSTANTS
    Viewers = {v1, v2}
    FlowControlled = {v1, v2}
    Sizes = {s1, s2}
    FirstSize = s1
    HighWater = 1
    SnapshotCost = 1
    MaxSeq = 2
    MaxTick = 2
    None = None
CHECK_DEADLOCK FALSE
INVARIANTS
    ScreensWhole
    ViewersAccounted
PROPERTIES
    MissedResyncs
    SizeFollowsAuthority
