\* A closed server connection's dest_socket survives into the next csp_connect.
CONSTANTS
    NULL = NULL
    NoHdr = NoHdr
    Buffers <- MCBuffers
    CSP_BUFFER_RESERVE = 2
    Conns <- MCConns
    CONN_RXQ_LEN = 1
    CONN_MASK <- MCConnMask
    MyAddr = 1
    BcastAddr = 7
    CSP_USE_HMAC = FALSE
    CSP_USE_RDP = FALSE
    Headers <- MCHeaders
    Sockets <- MCSockets
    SockOpts <- MCSockOpts
    PortTable <- MCPortTable
    Apps = {a1}
    ConnectTargets <- MCConnectTargets
    QFIFO_LEN = 1
    SOCK_QLEN = 1
    MAX_RX = 3
    DEDUP = "off"
    DEDUP_WINDOW = 1
SPECIFICATION Spec
INVARIANT ExclusiveConn
CONSTRAINT NoConcurrentConnNew
