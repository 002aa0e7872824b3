SPECIFICATION FairSpec
CONSTANTS
    Conns = {1, 2, 3}
    Handles = {h1}
    None = None
    MaxConns = 2
    QueueCapacity = 1
    MaxRequests = 2
    Tars = TRUE
INVARIANTS AcceptSafe ListAgrees
PROPERTY Answered
CHECK_DEADLOCK FALSE
