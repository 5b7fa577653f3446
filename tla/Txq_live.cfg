SPECIFICATION LiveSpec
CONSTANTS
    s1 = s1 s2 = s2 q1 = q1 q2 = q2
    Sta = {s1}
    TxqSeq <- Queues
    TxqPrio <- Priority
    StaOf <- SameSta
    PsIdOf <- AllUapsd
    Mcast = {}
    NbFrames = 3
    Buses = {"PCIE"}
    InitialCredits = 1
    HwqSize = 2
    FlowStop = 1
    FlowRestart = 1
    BaCredits = {1}
    MaxReq = 2
    FeatureSets = {{"retry", "chan"}, {"ba"}, {"ps", "retry"}}
INVARIANT SpCountExact
PROPERTY QueuedIsPushed
PROPERTY SpFinishes
CHECK_DEADLOCK FALSE
