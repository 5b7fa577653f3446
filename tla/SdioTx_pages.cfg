SPECIFICATION Spec
CONSTANTS
    f1 = f1 f2 = f2 f3 = f3
    NoId = NoId
    Frame = {f1, f2, f3}
    Sizes = {1, 2}
    SmallPages = 3
    DynaPages = 2
    PagesOnce = 3
    Threshold = 3
    NbIds = 3
    RingSize = 2
    MaxPrefix = 6
    MaxPush = 4
    FaultSets = {{"alloc", "bulk", "torn"}}
SYMMETRY Symmetry
INVARIANT PagesExact
INVARIANT NoOverrun
INVARIANT StopIsHonoured
PROPERTY ConfirmedFirst
CHECK_DEADLOCK FALSE
