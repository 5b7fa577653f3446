SPECIFICATION FairSpec
CONSTANTS
    SmallPages = 1
    DynaPages = 1
    Tid = {1, 2}
    MaxId = 6
    SmallEnd = 5
    LargeEnd = 8
    Desc = 2
    Sizes = {2, 3}
    NbBufs = 2
    PoolSize = 2
    Window = 3
    MaxSent = 7
    MaxReorder = 3
    FeatureSets = {{"switch"}, {"reorder"}, {"reorder", "late"}}
INVARIANT OrderKept
INVARIANT HeldAgrees
PROPERTY PublishedIsHandled
PROPERTY ImplementsRxChannel
CHECK_DEADLOCK FALSE
