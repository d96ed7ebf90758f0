---------------------------- MODULE MCHorcruxServer ----------------------------
EXTENDS HorcruxServer, TLC

\* Connections are interchangeable (used where only safety is checked).
Symmetry == Permutations(Connection)
=============================================================================
