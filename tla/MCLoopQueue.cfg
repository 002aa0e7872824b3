CONSTANTS
    Value = {v1, v2}
    Size = 2
    MaxBatch = 2
SPECIFICATION Spec
INVARIANTS TypeOK NoCellRace HintSound
PROPERTIES FifoSpec
