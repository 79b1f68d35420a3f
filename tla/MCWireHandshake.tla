--------------------------- MODULE MCWireHandshake ---------------------------
EXTENDS WireHandshake
=============================================================================
