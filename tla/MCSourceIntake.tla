--------------------------- MODULE MCSourceIntake ---------------------------
EXTENDS SourceIntake

CONSTANTS c1, c2, c3, d1, d2, s1, s2, p1, p2

TwoContents == {c1, c2}
ThreeContents == {c1, c2, c3}
TwoDocuments == {d1, d2}
TwoSyncs == {s1, s2}
TwoParses == {p1, p2}
=============================================================================
