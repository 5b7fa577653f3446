SPECIFICATION FairSpec
CONSTANTS
    c1 = c1  c2 = c2  c3 = c3
    r1 = r1  r2 = r2
    NoCmd = NoCmd
    NoCfm = NoCfm
    ReqId = {r1, r2}
    Cmd <- Two
    Requests <- FewReqs
    Buses = {"SDIO", "PCIE"}
    MaxQueued = 2
    Wrap = 4
    FaultSets = {{}, {"silent", "kill"}, {"silent", "late", "kill", "reload", "buserr"}}
CHECK_DEADLOCK FALSE
INVARIANT TypeOK
INVARIANT QueueAccounting
PROPERTY CallReturns
PROPERTY DeferredIsPushed
