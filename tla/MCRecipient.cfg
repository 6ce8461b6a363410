\* Keys of two bytes (identity, gateway) and one byte (encryption) over a
\* radix-3 byte, written in a radix-2 alphabet, so that leading zero bytes,
\* keys of several digits and an invalid curve point all occur.
CONSTANTS
    ByteBase = 3
    AlphaSize = 2
    IdSize = 2
    EncSize = 1
    BadPoints <- MCBadPoints
SPECIFICATION Spec
INVARIANTS StringRoundTrip BytesRoundTrip ParseIsCanonical
