------------------------------- MODULE Lists -------------------------------
(* What the code filters (Iterator::filter, Vec::retain). It is a recursive  *)
(* function: the provers know nothing of SelectSeq.                          *)
EXTENDS Naturals, Sequences

(* The elements of s that are in S, in their order. *)
Those(s, S) ==
    LET F[n \in 0..Len(s)] ==
          IF n = 0 THEN <<>> ELSE IF s[n] \in S THEN Append(F[n - 1], s[n]) ELSE F[n - 1]
    IN  F[Len(s)]
=============================================================================
