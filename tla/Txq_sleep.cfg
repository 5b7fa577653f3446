SPECIFICATION Spec
CONSTANTS
    s1 = s1 s2 = s2 q1 = q1 q2 = q2
    Sta = {s1, s2}
    TxqSeq <- Queues
    TxqPrio <- Priority
    StaOf <- OwnSta
    PsIdOf <- MixedPs
    Mcast = {s2}
    NbFrames = 3
    Buses = {"SDIO"}
    InitialCredits = 2
    HwqSize = 2
    FlowStop = 1
    FlowRestart = 1
    BaCredits = {1}
    MaxReq = 1
    FeatureSets = {{"ps", "timer", "interrupt"}, {"ps", "timer", "race"}}
INVARIANT PktReadyExact
INVARIANT FlowControlExact
CHECK_DEADLOCK FALSE
