SPECIFICATION Spec
CONSTANTS
    Proxies = {root}
    Root = root
    NoProxy = NoProxy
    Nodes = 1
    Udp = FALSE
    ConnectThrows = TRUE
    AutoReconnect = TRUE
    minTimeoutInvoke = 2
    checkTimeoutInterval = 2
    frequenceFailInvoke = 3
    minFrequenceFailTime = 2
    tryTimeInterval = 2
    maxConnectExc = 2
    RadioNum = 1
    RadioDen = 2
    MaxTotal = 4
    MaxInflight = 1
INVARIANTS TypeOK ShieldedIsClosed ErrorShields
