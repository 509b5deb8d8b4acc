---------------------------- MODULE MCSessionLog ----------------------------
(* Instances of SessionLog for TLC. *)
EXTENDS SessionLog, TLC

CONSTANTS r1, r2
OneReader == {r1}
TwoReaders == {r1, r2}
TwoLives == 1 .. 2
ThreeLives == 1 .. 3
Symmetry == Permutations(TwoReaders)
=============================================================================
