SPECIFICATION Spec
CONSTANTS
    v1 = v1 v2 = v2 None = None
    Vif = {v1, v2}
    Scenarios <- Cases
    Tries = 2
    MaxWork = 2
INVARIANT BusErrorNotForgotten
INVARIANT WorkNotLost
INVARIANT Exclusion
INVARIANT FlagsAccounted
PROPERTY TroubleHandled
CHECK_DEADLOCK FALSE
