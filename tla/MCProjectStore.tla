---------------------------- MODULE MCProjectStore ----------------------------
(* ProjectStore on small sets.  Calls are interchangeable, and so are      *)
(* packages; symmetry is used in the safety runs.                          *)
EXTENDS ProjectStore, TLC

CallSymmetry == Permutations(Calls) \cup Permutations(Children)
=============================================================================
