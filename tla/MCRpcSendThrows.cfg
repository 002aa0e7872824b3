SPECIFICATION FairSpec
CONSTANTS
    c1 = c1
    c2 = c2
    c3 = c3
    t1 = t1
    t2 = t2
    NoCall = NoCall
    Threads = {t1}
    Calls = {c1, c2, c3}
    Settings <- Exception
    RpcId <- NoRpcIds
    QueueCap = 2
    NoSendLimit = 0
    AsyncCap = 1
    MaxDials = 1
PROPERTIES SyncReturns
CHECK_DEADLOCK FALSE
