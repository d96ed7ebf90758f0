---------------------------- MODULE MCHorcruxSystem ----------------------------
EXTENDS HorcruxSystem

CONSTANTS a, b

\* Up to renaming of the UUIDs a steady client draws 0, and another one any.
MCDraw == {d \in [Client -> Uuid] : \A k \in Steady : d[k] = 0}

\* With integers modulo 3: one Horcrux; two whose total wraps to zero.
MCUpload == {<<<<a>>>>, <<<<a, b>>, <<a>>>>}

\* Contents that a crash can cut.
MCLongUpload == {<<<<a, b>>>>, <<<<a>>, <<b, a>>>>}

\* With a limit of 3: the file does not split; one Horcrux; enough of them for an
\* answer to be taken for a later one; a total that is over the limit.
MCManyUpload == {<<>>, <<<<a>>>>, <<<<a>>, <<b>>, <<a>>>>, <<<<a, b>>, <<b, a>>>>}
=============================================================================
