SPECIFICATION LiveSpec
CONSTANTS
    Proxies = {root}
    Root = root
    NoProxy = NoProxy
    Nodes = 2
    Udp = FALSE
    ConnectThrows = FALSE
    AutoReconnect = FALSE
    minTimeoutInvoke = 2
    checkTimeoutInterval = 0
    frequenceFailInvoke = 1
    minFrequenceFailTime = 0
    tryTimeInterval = 2
    maxConnectExc = 1
    RadioNum = 1
    RadioDen = 2
    MaxTotal = 1
    MaxInflight = 1
PROPERTIES PrefersConnected RetrySpaced Recovers
