SPECIFICATION FairSpec
CONSTANTS
    wlan0 = wlan0 p2p0 = p2p0
    Vif = {wlan0, p2p0}
    StaMode = {wlan0}
    Chan = {1, 2}
    None = None
    RocTx = 2
    Bounds <- Cases
INVARIANT EventsPaired
INVARIANT WaitCountExact
INVARIANT FramesOnTheirChannel
PROPERTY ScanEnds
PROPERTY RocEnds
CHECK_DEADLOCK FALSE
