SPECIFICATION Spec
CONSTANTS
    Units = {u1, u2, u3}
    Keys = {k1, k2, k3}
    Buckets = {1}
    HashOf <- MCHashOf
    None = None
    MaxExtra = 2
    Evictions = {"off", "get", "set"}
    EraseCount = 1
    MaxModify = 20
    MaxCrashes = 1
    MaxOps = 4
CHECK_DEADLOCK FALSE
SYMMETRY MCSymmetry
INVARIANTS Linked UnitsOwned CountsAgree DirtyReached BackupComes LogFits
