-------------------------- MODULE MCHarnessRuntime --------------------------
EXTENDS HarnessRuntime
CONSTANTS t1, t2, t3, c1, old, new, search, structured
TwoTurns == {t1, t2}
ThreeTurns == {t1, t2, t3}
=============================================================================
