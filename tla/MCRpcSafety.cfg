SPECIFICATION Spec
CONSTANTS
    c1 = c1
    c2 = c2
    c3 = c3
    t1 = t1
    t2 = t2
    NoCall = NoCall
    Threads = {t1, t2}
    Calls = {c1, c2, c3}
    Settings <- EveryFault
    RpcId <- NoRpcIds
    QueueCap = 1
    NoSendLimit = 1
    AsyncCap = 1
    MaxDials = 2
INVARIANTS TypeOK OneHolder QueueConsistent AnswerMatches SerialInFlight SendListServed
CHECK_DEADLOCK FALSE
