SPECIFICATION Spec
CONSTANTS
    s1 = s1 s2 = s2 q1 = q1 q2 = q2
    Sta = {s1, s2}
    TxqSeq <- Queues
    TxqPrio <- Priority
    StaOf <- OwnSta
    PsIdOf <- AllLegacy
    Mcast = {}
    NbFrames = 3
    Buses = {"SDIO", "PCIE"}
    InitialCredits = 2
    HwqSize = 2
    FlowStop = 1
    FlowRestart = 1
    BaCredits = {1, 3}
    MaxReq = 0
    FeatureSets = {{"retry", "chan"}, {"ba", "chan"}, {"retry", "delete", "timer"}}
INVARIANT ListSound
INVARIANT ScheduledIffReady
INVARIANT CreditsConserved
INVARIANT PushOrder
CHECK_DEADLOCK FALSE
