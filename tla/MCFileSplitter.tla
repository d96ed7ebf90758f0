----------------------------- MODULE MCFileSplitter -----------------------------
\* Files of up to MaxLen bytes that are all different, so that no two parts of a
\* file can be mistaken for each other.
EXTENDS FileSplitter

CONSTANT MaxLen

MCByte == 1..MaxLen
MCData == {[i \in 1..n |-> i] : n \in 0..MaxLen}
MCNumSplits == 0..(UintMod \div 2 - 1)
=============================================================================
