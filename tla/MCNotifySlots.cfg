SPECIFICATION Spec
CONSTANTS
    Num = 2
    Threads = {t1, t2, t3}
    End = End
    None = None
    MaxRequests = 2
    NetLags = FALSE
SYMMETRY Symmetry
INVARIANTS SlotValid NoLostWakeup ExitServed NumberUnique NumberKept AssertsHold
