CONSTANTS
    Ifs = {1}
    MaxConns = 4
    MaxConnectRetries = 0
    MaxTcpFaults = 1
    MaxTcpSends = 1
    Socks = {1, 2}
    NumFrags <- MCNumFrags
    Sync = {2}
    SockBuf = 2
SPECIFICATION TcpSpec
INVARIANT QueuedOnceAndRead
CHECK_DEADLOCK FALSE
