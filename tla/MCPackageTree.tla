---------------------------- MODULE MCPackageTree ----------------------------
(* PackageTree on small sets; calls are interchangeable, and so are the      *)
(* slugs other than the root's.                                              *)
EXTENDS PackageTree

TreeSymmetry == Permutations(Calls) \cup Permutations(Slugs \ {Main})

MCFaultSets == {{}, {"overlap", "nested", "main_again", "rename_root", "crash"}}
MCMaxRequests(faults_) == IF faults_ = {} THEN 4 ELSE 3
=============================================================================
