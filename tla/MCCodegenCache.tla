---------------------------- MODULE MCCodegenCache ----------------------------
(* CodegenCache on small sets; the calls are interchangeable, and so are   *)
(* the contents of each input.                                             *)
EXTENDS CodegenCache, TLC

CacheSymmetry ==
  Permutations(Calls) \cup Permutations(Graphs) \cup Permutations(Trees)
    \cup Permutations(Markets)
=============================================================================
