------------------------------ MODULE AtomicTree ------------------------------
(***************************************************************************)
(* What ProjectStore promises of a project's package tree: every update    *)
(* that is acknowledged was applied, once and whole, to the tree as it was *)
(* at that moment, and nothing else changes it.                            *)
(***************************************************************************)
CONSTANTS Calls, Children

VARIABLES
  tree,    \* the child packages of the project
  applied  \* the updates acknowledged so far

Init == tree \in SUBSET Children /\ applied = {}

Acknowledge(c) == c \notin applied /\ applied' = applied \cup {c}

Add(c) ==
  /\ \E p \in Children \ tree : tree' = tree \cup {p}
  /\ Acknowledge(c)

Drop(c) ==
  /\ \E p \in tree : tree' = tree \ {p}
  /\ Acknowledge(c)

Next == \E c \in Calls : Add(c) \/ Drop(c)

Spec == Init /\ [][Next]_<<tree, applied>>
=============================================================================
