---------------------------- MODULE MCClientRequests ----------------------------
\* As MCFileSplitter, with numbers of splits beyond the range of int32_t.
EXTENDS ClientRequests

CONSTANT MaxLen

MCByte == 1..MaxLen
MCData == {[i \in 1..n |-> i] : n \in 0..MaxLen}
MCNumSplits == 0..(UintMod \div 2 - 1)
MCNumber == (-UintMod)..UintMod
=============================================================================
