--------------------------- MODULE MCComposedTransfer ---------------------------
EXTENDS ComposedTransfer

CONSTANTS MaxCount, MaxSize

\* Up to MaxCount buffers, empty ones among them.
MCBufferSizes == UNION {[1..n -> 0..MaxSize] : n \in 0..MaxCount}
=============================================================================
