---------------------------- MODULE MCRunManager ----------------------------
(* RunManager on small sets of calls.  Liveness is checked together with     *)
(* safety, so calls of a kind are kept apart although they could be swapped. *)
EXTENDS RunManager
=============================================================================
