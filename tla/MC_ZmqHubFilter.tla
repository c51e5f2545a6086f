--------------------------- MODULE MC_ZmqHubFilter ---------------------------
EXTENDS ZmqHubFilter

\* Three addresses: one inside the first 256, two whose filter bytes differ in
\* both halves.  Netmasks: none, a /6 and a /8 subnet, a host route, and one past the
\* host bits (undefined shift).
MCAddrs == {5, 300, 8191}
MCNetmasks == {0, 6, 8, 14, 15}

\* Frames to: the first address, the second, the second's /8 broadcast,
\* the third address (all 13 low bits set: a broadcast for several netmasks), the global
\* broadcast, and an address nobody has.
MCDsts == {5, 300, 511, 8191, 16383, 9}

\* Message sizes around the two bounds: one byte short of a header, a bare
\* header, a full frame, and a frame one byte longer.
MCLens == {HEADER_SIZE - 1, HEADER_SIZE, HEADER_SIZE + DATA_SIZE,
           HEADER_SIZE + DATA_SIZE + 1}
=============================================================================
