\* Two threads using their own packet capsules and their own connections:
\* the capsules own their packets along every call and destructor.
CONSTANTS
    NULL = NULL
    NoHdr = NoHdr
    Buffers <- MCBuffers
    CSP_BUFFER_RESERVE = 2
    Threads = {"t1", "t2"}
    Caps = {"k1", "k2", "k3"}
    ConnCaps = {"c1", "c2"}
    ConnsOf <- MCPrivateConns
    CapsOf <- MCPrivateCaps
SPECIFICATION Spec
INVARIANT TypeOK
INVARIANT CapsuleConservation
PROPERTY CallsAtomic
