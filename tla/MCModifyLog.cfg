SPECIFICATION LogSpec
CONSTANTS
    Cells = {c1, c2}
    Values = {0, 1}
    LogSize = 4
INVARIANTS Replayable
PROPERTY AllOrNothing
