SPECIFICATION Spec
CONSTANTS
    c1 = c1  c2 = c2  c3 = c3
    r1 = r1  r2 = r2
    NoCmd = NoCmd
    NoCfm = NoCfm
    ReqId = {r1, r2}
    Cmd <- Three
    Requests <- AllReqs
    Buses = {"SDIO", "PCIE"}
    MaxQueued = 2
    Wrap = 4
    FaultSets = {{"silent", "buserr"}}
SYMMETRY Perms3
INVARIANT ResultTruthful
INVARIANT MemorySafe
PROPERTY ImplementsMsgChannel
