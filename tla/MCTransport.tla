---------------------------- MODULE MCTransport ----------------------------
\* The instance TLC checks Transport on: a announces and writes to c.
EXTENDS Transport

CONSTANTS a, b, c, base, main, side

AToC == {<<a, c>>}

=============================================================================
