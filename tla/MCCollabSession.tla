-------------------------- MODULE MCCollabSession --------------------------
(* CollabSession for TLC: the clients are alike.                             *)
EXTENDS CollabSession, TLC

Symmetry == Permutations(Clients)

=============================================================================
