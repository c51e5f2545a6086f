\* Every build, policy and packet through the gates of csp_route_work.
CONSTANTS
    NoPacket = NoPacket
SPECIFICATION Spec
INVARIANT GateMatchesSpec
