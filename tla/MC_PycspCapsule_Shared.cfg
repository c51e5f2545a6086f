\* Two threads passing the same packet capsule: a call that released the
\* GIL still uses the pointer it read when the other thread frees it, and
\* frees it again when it returns.
CONSTANTS
    NULL = NULL
    NoHdr = NoHdr
    Buffers <- MCBuffers
    CSP_BUFFER_RESERVE = 2
    Threads = {"t1", "t2"}
    Caps = {"k1", "k2"}
    ConnCaps = {"c1"}
    ConnsOf <- MCSharedConns
    CapsOf <- MCSharedCaps
SPECIFICATION Spec
INVARIANT InFlightOwned
