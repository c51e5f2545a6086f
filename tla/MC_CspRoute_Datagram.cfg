\* Connection-less delivery on the CRC32-requiring socket of port 2: up to
\* four datagrams, three in flight, a socket queue of two, so datagrams
\* overtake nothing, queue behind each other and overflow; dedup on for
\* packets addressed to this node.
CONSTANTS
    NULL = NULL
    NoHdr = NoHdr
    Buffers <- MCDgBuffers
    CSP_BUFFER_RESERVE = 1
    Conns <- MCConns
    CONN_RXQ_LEN = 1
    CONN_MASK <- MCConnMask
    MyAddr = 1
    BcastAddr = 7
    CSP_USE_HMAC = FALSE
    CSP_USE_RDP = FALSE
    Headers <- MCDgHeaders
    Sockets <- MCSockets
    SockOpts <- MCSockOpts
    PortTable <- MCPortTable
    Apps = {a1}
    ConnectTargets <- MCNoConnectTargets
    QFIFO_LEN = 2
    SOCK_QLEN = 2
    MAX_RX = 4
    DEDUP = "incoming"
    DEDUP_WINDOW = 1
SPECIFICATION Spec
INVARIANT BufferConservation
PROPERTY DatagramRefinement
