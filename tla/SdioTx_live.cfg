SPECIFICATION FairSpec
CONSTANTS
    f1 = f1 f2 = f2 f3 = f3
    NoId = NoId
    Frame = {f1, f2}
    Sizes = {2}
    SmallPages = 3
    DynaPages = 2
    PagesOnce = 3
    Threshold = 3
    NbIds = 2
    RingSize = 2
    MaxPrefix = 5
    MaxPush = 3
    FaultSets = {{}}
PROPERTY QueuedIsSent
PROPERTY StopIsAnswered
CHECK_DEADLOCK FALSE
