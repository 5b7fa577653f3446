SPECIFICATION Spec
CONSTANTS
    t1 = t1 t2 = t2 f1 = f1 f2 = f2 None = None
    Thread = {t1, t2}
    Flow = {f1, f2}
    Slots = 2
    MaxDrop = 2
    MaxSeq = 1
    Bounds <- FewBounds
SYMMETRY Symmetry
INVARIANT AckOnce
INVARIANT DroppedIsSuperseded
INVARIANT HeldHasTimer
INVARIANT InTxqIsTracked
CHECK_DEADLOCK FALSE
