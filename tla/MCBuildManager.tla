---------------------------- MODULE MCBuildManager ----------------------------
(* BuildManager on small sets. *)
EXTENDS BuildManager, TLC
=============================================================================
