-------------------------- MODULE MCGameSimulation --------------------------
EXTENDS GameSimulation

CONSTANTS p1, p2

\* The match inserts the longer-waiting player first.
MCRank == [p \in Player |-> IF p = p1 THEN 1 ELSE 2]

\* Below, within and beyond what a move may be.
MCDelta == {-2, 1}

\* None named, a gain, a loss, and no number at all.
MCPoints == {0, 2, -3, Text}
=============================================================================
