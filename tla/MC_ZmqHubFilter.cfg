CONSTANTS
    HOST_BITS = 14
    Addrs <- MCAddrs
    Netmasks <- MCNetmasks
    Dsts <- MCDsts
    Lens <- MCLens
    HEADER_SIZE = 6
    DATA_SIZE = 256
    NoIface = NoIface
    NoRx = NoRx
SPECIFICATION Spec
INVARIANT TypeOK
PROPERTY FilterExact
