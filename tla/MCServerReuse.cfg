SPECIFICATION Spec
CONSTANTS
    Conns = {1, 2, 3}
    Handles = {h1}
    None = None
    MaxConns = 2
    QueueCapacity = 1
    MaxRequests = 2
    Tars = TRUE
INVARIANT RightClient
CHECK_DEADLOCK FALSE
