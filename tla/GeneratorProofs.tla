--------------------------- MODULE GeneratorProofs ---------------------------
(* Proofs about Generator, for every graph, every set of packages and every  *)
(* session of edits: no generation touches what the user wrote outside the   *)
(* regions, a value of a saved graph is moved wherever it goes, the walk     *)
(* along a route of a saved graph ends, what a generation leaves is that of  *)
(* its graph - all of it, each declaration once, and the same next time -    *)
(* and what one template calls is what another exports.                      *)
(*                                                                           *)
(* For the first, an invariant of the files (TextInv): between the markers   *)
(* of a region there is no line of the user. A merge of such a file that     *)
(* parses gives such a file, with the user's lines as they were (Kept, line  *)
(* by line along the two walks of regions.rs); every write is such a merge,  *)
(* or a file of its own, and a generation is one write after the other,      *)
(* wherever it stops.                                                        *)
(*                                                                           *)
(* For the second, the analysis looks for a value that goes from one task to *)
(* another, and finds none in any graph, valid or not: a task that reaches   *)
(* the producer reaches whatever the producer feeds. And no output port of   *)
(* the catalogue takes two edges, so no value of a valid graph has two uses. *)
(*                                                                           *)
(* For the third, a middleware of a valid graph has one way in, so a walk    *)
(* from a route meets none twice: it is as short as the list of the nodes,   *)
(* by the pigeonhole principle.                                              *)
(*                                                                           *)
(* Then, what a generation that ended well leaves is settled (Settled): each *)
(* write left its file as it makes it from the graph, and no later write of  *)
(* the run touched it. What is settled is current, declares what is there,   *)
(* and stays as it is when it is generated again: to merge what was just     *)
(* merged gives the same file (Fits).                                        *)
(*                                                                           *)
(* The routes stay in the function that has them: a merge only adds to what  *)
(* is out, line by line (StartsAs, Stays).                                   *)
(*                                                                           *)
(* At the end, the catalogue: each call that a template can make is one of a *)
(* few (Answered), and each of those finds its function in the template it   *)
(* is made to (CallIsAnswered), whose node wrote its file as it exports it.  *)
EXTENDS Generator, TLAPS, FiniteSetTheorems, WellFoundedInduction

-----------------------------------------------------------------------------
(* Numbers.                                                                  *)

(* Induction: a set that holds 0 and, with every number, the next one, holds all. *)
LEMMA NatBySets ==
  ASSUME NEW T, 0 \in T, \A n \in Nat : n \in T => n + 1 \in T
  PROVE  Nat \subseteq T
<1> DEFINE Less == {p \in Nat \X Nat : p[1] < p[2]}
           Rest == Nat \ T
<1>1. SUFFICES ASSUME Rest # {} PROVE FALSE
  OBVIOUS
<1>2. IsWellFoundedOn(Less, Nat)
  <2>1. OpToRel(<, Nat) = Less
    BY Zenon DEF OpToRel
  <2> HIDE DEF Less
  <2> QED
    BY <2>1, NatLessThanWellFounded, Zenon
<1>3. PICK x \in Rest : \A y \in Rest : <<y, x>> \notin Less
  <2>1. Rest \subseteq Nat
    OBVIOUS
  <2> HIDE DEF Less, Rest
  <2> QED
    BY <1>1, <1>2, <2>1, WFMin
<1>4. x - 1 \in Nat /\ x - 1 \notin T
  OBVIOUS
<1>5. <<x - 1, x>> \in Less
  BY <1>4
<1> QED
  BY <1>3, <1>4, <1>5

(* A function may be defined by its value at 0 and its step from n - 1 to n. *)
LEMMA NatRecursion ==
  ASSUME NEW V, NEW base \in V, NEW N \in Nat, NEW step \in [1..N -> [V -> V]]
  PROVE  \E f \in [0..N -> V] : f[0] = base /\ \A n \in 1..N : f[n] = step[n][f[n - 1]]
<1> DEFINE Upto(n) == \E f \in [0..n -> V] :
                        f[0] = base /\ \A m \in 1..n : f[m] = step[m][f[m - 1]]
           T == {n \in Nat : n <= N => Upto(n)}
<1>1. 0 \in T
  <2> DEFINE f == [m \in 0..0 |-> base]
  <2>1. f \in [0..0 -> V] /\ f[0] = base /\ \A m \in 1..0 : f[m] = step[m][f[m - 1]]
    OBVIOUS
  <2>2. Upto(0)
    <3> HIDE DEF f
    <3> QED
      BY <2>1
  <2> QED
    BY <2>2
<1>2. ASSUME NEW n \in Nat, n \in T PROVE n + 1 \in T
  <2>1. SUFFICES ASSUME n + 1 <= N PROVE Upto(n + 1)
    OBVIOUS
  <2>2. PICK f \in [0..n -> V] : f[0] = base /\ \A m \in 1..n : f[m] = step[m][f[m - 1]]
    BY <1>2, <2>1
  <2> DEFINE g == [m \in 0..(n + 1) |-> IF m = n + 1 THEN step[n + 1][f[n]] ELSE f[m]]
  <2>3. g \in [0..(n + 1) -> V]
    <3>1. step[n + 1][f[n]] \in V
      <4>1. n + 1 \in 1..N /\ f[n] \in V
        BY <2>1, <2>2
      <4> QED
        BY <4>1
    <3> QED
      BY <2>2, <3>1
  <2>4. g[0] = base
    BY <2>2
  <2>5. \A m \in 1..(n + 1) : g[m] = step[m][g[m - 1]]
    <3> SUFFICES ASSUME NEW m \in 1..(n + 1) PROVE g[m] = step[m][g[m - 1]]
      OBVIOUS
    <3>1. CASE m = n + 1
      BY <3>1
    <3>2. CASE m \in 1..n
      BY <2>2, <3>2
    <3> QED
      BY <3>1, <3>2
  <2> HIDE DEF g
  <2> QED
    BY <2>3, <2>4, <2>5
<1>3. N \in T
  <2> HIDE DEF T
  <2> QED
    BY <1>1, <1>2, NatBySets
<1> QED
  BY <1>3

(* Min is the least number of a set of naturals.                             *)
LEMMA LeastNat ==
  ASSUME NEW I \in SUBSET Nat, I # {}
  PROVE  Min(I) \in I /\ \A i \in I : Min(I) <= i
<1> DEFINE T == {n \in Nat : (\E i \in I : i <= n) => \E m \in I : \A i \in I : m <= i}
<1>1. 0 \in T
  OBVIOUS
<1>2. ASSUME NEW n \in Nat, n \in T PROVE n + 1 \in T
  BY <1>2
<1>3. Nat \subseteq T
  <2> HIDE DEF T
  <2> QED
    BY <1>1, <1>2, NatBySets
<1>4. PICK m \in I : \A i \in I : m <= i
  <2>1. PICK i \in I : i \in T
    BY <1>3
  <2> QED
    BY <2>1
<1> QED
  BY <1>4 DEF Min

-----------------------------------------------------------------------------
(* What Those gives, for a sequence s.                                       *)

(* The walk of Those: what there is of the first n elements.                 *)
IsThose(F, s, S) ==
    /\ F[0] = <<>>
    /\ \A n \in 1..Len(s) : F[n] = IF s[n] \in S THEN Append(F[n - 1], s[n]) ELSE F[n - 1]

(* Those is the last value of such a walk.                                   *)
LEMMA ThoseWalk ==
  ASSUME NEW L, NEW s \in Seq(L), NEW S
  PROVE  \E F \in [0..Len(s) -> Seq(L)] : IsThose(F, s, S) /\ Those(s, S) = F[Len(s)]
<1> DEFINE V    == Seq(L)
           N    == Len(s)
           Next1(n, out) == IF s[n] \in S THEN Append(out, s[n]) ELSE out
           step == [n \in 1..N |-> [out \in V |-> Next1(n, out)]]
           Walk1(F) == [n \in 0..N |-> IF n = 0 THEN <<>> ELSE Next1(n, F[n - 1])]
           F    == CHOOSE F : F = Walk1(F)
<1>1. \A n \in 1..N, out \in V : Next1(n, out) \in V
  OBVIOUS
<1>2. step \in [1..N -> [V -> V]]
  <2> HIDE DEF Next1, V
  <2> QED
    BY <1>1
<1>3. N \in Nat /\ <<>> \in V
  OBVIOUS
<1>4. PICK f \in [0..N -> V] : f[0] = <<>> /\ \A n \in 1..N : f[n] = step[n][f[n - 1]]
  <2> DEFINE base == <<>>
  <2>1. base \in V
    BY <1>3
  <2>9. step \in [1..N -> [V -> V]] /\ N \in Nat /\ base \in V
    BY <1>2, <1>3, <2>1
  <2> HIDE DEF step, V, N, base, Next1, Walk1, F
  <2>2. \E f \in [0..N -> V] : f[0] = base /\ \A n \in 1..N : f[n] = step[n][f[n - 1]]
    BY <2>9, NatRecursion
  <2> QED
    BY <2>2 DEF base
<1>5. \A n \in 1..N : f[n] = Next1(n, f[n - 1])
  <2> HIDE DEF Next1, V
  <2> QED
    BY <1>4
<1>6. f = Walk1(f)
  <2> HIDE DEF V, Next1
  <2> QED
    BY <1>4, <1>5
<1>7. F = Walk1(F)
  <2> HIDE DEF Walk1
  <2> QED
    BY <1>6
<1>8. F[0] = <<>> /\ \A n \in 1..N : F[n] = Next1(n, F[n - 1])
  <2> HIDE DEF F, Next1
  <2>1. F = [n \in 0..N |-> IF n = 0 THEN <<>> ELSE Next1(n, F[n - 1])]
    BY <1>7
  <2> HIDE DEF N
  <2> QED
    BY <2>1, <1>3
<1> DEFINE T == {n \in Nat : n <= N => F[n] \in V}
<1>9. Nat \subseteq T
  <2> HIDE DEF F, V, Next1
  <2>1. 0 \in T
    BY <1>8, <1>3
  <2>2. ASSUME NEW n \in Nat, n \in T PROVE n + 1 \in T
    BY <2>2, <1>1, <1>8
  <2> HIDE DEF T
  <2> QED
    BY <2>1, <2>2, NatBySets
<1>10. F \in [0..N -> V]
  <2>1. F = [n \in 0..N |-> IF n = 0 THEN <<>> ELSE Next1(n, F[n - 1])]
    BY <1>7
  <2> HIDE DEF F, V, Next1
  <2> QED
    BY <1>9, <2>1
<1>11. Those(s, S) = F[N]
  BY DEF Those
<1> HIDE DEF F
<1> QED
  BY <1>8, <1>10, <1>11 DEF IsThose

(* Two such walks are the same as long as the elements are.                  *)
LEMMA ThoseTogether ==
  ASSUME NEW L, NEW s \in Seq(L), NEW t \in Seq(L), NEW S, NEW R, NEW N \in Nat,
         N <= Len(s), N <= Len(t),
         \A n \in 1..N : s[n] = t[n] /\ (s[n] \in S <=> s[n] \in R),
         NEW F, NEW G, IsThose(F, s, S), IsThose(G, t, R)
  PROVE  F[N] = G[N]
<1> DEFINE T == {n \in Nat : n <= N => F[n] = G[n]}
<1>1. 0 \in T
  BY DEF IsThose
<1>2. ASSUME NEW n \in Nat, n \in T PROVE n + 1 \in T
  BY <1>2 DEF IsThose
<1>3. Nat \subseteq T
  <2> HIDE DEF T
  <2> QED
    BY <1>1, <1>2, NatBySets
<1> QED
  BY <1>3

(* Only the members of S that s has matter.                                  *)
LEMMA ThoseSame ==
  ASSUME NEW L, NEW s \in Seq(L), NEW S, NEW R,
         \A n \in 1..Len(s) : s[n] \in S <=> s[n] \in R
  PROVE  Those(s, S) = Those(s, R)
<1>1. PICK F \in [0..Len(s) -> Seq(L)] : IsThose(F, s, S) /\ Those(s, S) = F[Len(s)]
  BY ThoseWalk
<1>2. PICK G \in [0..Len(s) -> Seq(L)] : IsThose(G, s, R) /\ Those(s, R) = G[Len(s)]
  BY ThoseWalk
<1>3. Len(s) \in Nat
  OBVIOUS
<1> QED
  BY <1>1, <1>2, <1>3, ThoseTogether

(* What is put at the end adds itself if it is in S ...                      *)
LEMMA ThoseAppend ==
  ASSUME NEW L, NEW s \in Seq(L), NEW x \in L, NEW S
  PROVE  Those(Append(s, x), S) = IF x \in S THEN Append(Those(s, S), x) ELSE Those(s, S)
<1> DEFINE t == Append(s, x)
<1>1. t \in Seq(L) /\ Len(t) = Len(s) + 1 /\ Len(s) \in Nat /\ t[Len(s) + 1] = x
      /\ \A n \in 1..Len(s) : t[n] = s[n]
  OBVIOUS
<1> HIDE DEF t
<1>2. PICK F \in [0..Len(s) -> Seq(L)] : IsThose(F, s, S) /\ Those(s, S) = F[Len(s)]
  BY ThoseWalk
<1>3. PICK G \in [0..Len(t) -> Seq(L)] : IsThose(G, t, S) /\ Those(t, S) = G[Len(t)]
  BY ThoseWalk, <1>1
<1>4. F[Len(s)] = G[Len(s)]
  <2>1. t \in Seq(L) /\ Len(s) \in Nat /\ Len(s) <= Len(s) /\ Len(s) <= Len(t)
    BY <1>1
  <2>2. \A n \in 1..Len(s) : s[n] = t[n] /\ (s[n] \in S <=> s[n] \in S)
    BY <1>1, Zenon
  <2> QED
    BY <1>2, <1>3, <2>1, <2>2, ThoseTogether
<1>5. G[Len(s) + 1] = IF x \in S THEN Append(G[Len(s)], x) ELSE G[Len(s)]
  BY <1>1, <1>3 DEF IsThose
<1> QED
  BY <1>1, <1>2, <1>3, <1>4, <1>5 DEF t

(* ... and nothing when there is none of S in it.                            *)
LEMMA ThoseConcatNone ==
  ASSUME NEW L, NEW s \in Seq(L), NEW t \in Seq(L), NEW S, \A n \in 1..Len(t) : t[n] \notin S
  PROVE  Those(s \o t, S) = Those(s, S)
<1> DEFINE st == s \o t
<1>1. /\ st \in Seq(L) /\ Len(st) = Len(s) + Len(t) /\ Len(s) \in Nat /\ Len(t) \in Nat
      /\ \A n \in 1..Len(s) : st[n] = s[n]
      /\ \A n \in 1..Len(t) : st[Len(s) + n] = t[n]
  OBVIOUS
<1> HIDE DEF st
<1>2. PICK F \in [0..Len(s) -> Seq(L)] : IsThose(F, s, S) /\ Those(s, S) = F[Len(s)]
  BY ThoseWalk
<1>3. PICK G \in [0..Len(st) -> Seq(L)] : IsThose(G, st, S) /\ Those(st, S) = G[Len(st)]
  <2>1. st \in Seq(L)
    BY <1>1
  <2> QED
    BY <2>1, ThoseWalk
<1>4. F[Len(s)] = G[Len(s)]
  <2>1. st \in Seq(L) /\ Len(s) \in Nat /\ Len(s) <= Len(s) /\ Len(s) <= Len(st)
    BY <1>1
  <2>2. \A n \in 1..Len(s) : s[n] = st[n] /\ (s[n] \in S <=> s[n] \in S)
    BY <1>1, Zenon
  <2> QED
    BY <1>2, <1>3, <2>1, <2>2, ThoseTogether
<1> DEFINE T == {n \in Nat : n <= Len(t) => G[Len(s) + n] = G[Len(s)]}
<1>5. 0 \in T
  BY <1>1
<1>6. ASSUME NEW n \in Nat, n \in T PROVE n + 1 \in T
  <2>1. SUFFICES ASSUME n + 1 <= Len(t) PROVE G[Len(s) + (n + 1)] = G[Len(s)]
    OBVIOUS
  <2>2. G[Len(s) + n] = G[Len(s)]
    BY <1>1, <1>6, <2>1
  <2>3. st[Len(s) + (n + 1)] = t[n + 1] /\ t[n + 1] \notin S
    BY <1>1, <2>1
  <2>4. Len(s) + (n + 1) \in 1..Len(st) /\ (Len(s) + (n + 1)) - 1 = Len(s) + n
    BY <1>1, <2>1
  <2> QED
    BY <1>3, <2>2, <2>3, <2>4 DEF IsThose
<1>7. Len(t) \in T
  <2> HIDE DEF T
  <2> QED
    BY <1>1, <1>5, <1>6, NatBySets
<1> QED
  BY <1>1, <1>2, <1>3, <1>4, <1>7 DEF st

(* Those has the elements of s that are in S.                                *)
LEMMA ThoseMembers ==
  ASSUME NEW L, NEW s \in Seq(L), NEW S
  PROVE  /\ Those(s, S) \in Seq(L)
         /\ \A i \in 1..Len(Those(s, S)) :
              Those(s, S)[i] \in S /\ \E n \in 1..Len(s) : s[n] = Those(s, S)[i]
         /\ \A n \in 1..Len(s) :
              s[n] \in S => \E i \in 1..Len(Those(s, S)) : Those(s, S)[i] = s[n]
<1>1. PICK F \in [0..Len(s) -> Seq(L)] : IsThose(F, s, S) /\ Those(s, S) = F[Len(s)]
  BY ThoseWalk
<1> DEFINE Right(n) == /\ \A i \in 1..Len(F[n]) :
                            F[n][i] \in S /\ \E k \in 1..n : s[k] = F[n][i]
                       /\ \A k \in 1..n : s[k] \in S => \E i \in 1..Len(F[n]) : F[n][i] = s[k]
           T == {n \in Nat : n <= Len(s) => Right(n)}
<1>2. 0 \in T
  BY <1>1 DEF IsThose
<1>3. ASSUME NEW n \in Nat, n \in T PROVE n + 1 \in T
  <2>1. SUFFICES ASSUME n + 1 <= Len(s) PROVE Right(n + 1)
    OBVIOUS
  <2>2. F[n] \in Seq(L) /\ Right(n)
    BY <1>1, <1>3, <2>1
  <2>3. F[n + 1] = IF s[n + 1] \in S THEN Append(F[n], s[n + 1]) ELSE F[n]
    BY <1>1, <2>1 DEF IsThose
  <2>4. CASE s[n + 1] \notin S
    <3>1. F[n + 1] = F[n]
      BY <2>3, <2>4
    <3>2. 1..n \subseteq 1..(n + 1) /\ \A k \in 1..(n + 1) : k \in 1..n \/ k = n + 1
      OBVIOUS
    <3> QED
      BY <2>2, <2>4, <3>1, <3>2
  <2>5. CASE s[n + 1] \in S
    <3>1. /\ F[n + 1] = Append(F[n], s[n + 1]) /\ Len(F[n + 1]) = Len(F[n]) + 1
          /\ Len(F[n]) \in Nat /\ F[n + 1][Len(F[n]) + 1] = s[n + 1]
          /\ \A i \in 1..Len(F[n]) : F[n + 1][i] = F[n][i]
      BY <2>1, <2>2, <2>3, <2>5
    <3>2. \A i \in 1..Len(F[n + 1]) : i \in 1..Len(F[n]) \/ i = Len(F[n]) + 1
      BY <3>1
    <3>3. \A k \in 1..(n + 1) : k \in 1..n \/ k = n + 1
      OBVIOUS
    <3>4. \A i \in 1..Len(F[n + 1]) :
            F[n + 1][i] \in S /\ \E k \in 1..(n + 1) : s[k] = F[n + 1][i]
      <4> SUFFICES ASSUME NEW i \in 1..Len(F[n + 1])
                   PROVE  F[n + 1][i] \in S /\ \E k \in 1..(n + 1) : s[k] = F[n + 1][i]
        OBVIOUS
      <4>1. CASE i = Len(F[n]) + 1
        BY <2>5, <3>1, <4>1
      <4>2. CASE i \in 1..Len(F[n])
        <5>1. PICK k \in 1..n : s[k] = F[n][i]
          BY <2>2, <4>2
        <5>2. k \in 1..(n + 1) /\ F[n + 1][i] = F[n][i] /\ F[n][i] \in S
          BY <2>2, <3>1, <4>2
        <5> QED
          BY <5>1, <5>2
      <4> QED
        BY <3>2, <4>1, <4>2
    <3>5. \A k \in 1..(n + 1) : s[k] \in S => \E i \in 1..Len(F[n + 1]) : F[n + 1][i] = s[k]
      <4> SUFFICES ASSUME NEW k \in 1..(n + 1), s[k] \in S
                   PROVE  \E i \in 1..Len(F[n + 1]) : F[n + 1][i] = s[k]
        OBVIOUS
      <4>1. CASE k = n + 1
        <5>1. Len(F[n]) + 1 \in 1..Len(F[n + 1])
          BY <3>1
        <5> QED
          BY <3>1, <4>1, <5>1
      <4>2. CASE k \in 1..n
        <5>1. PICK i \in 1..Len(F[n]) : F[n][i] = s[k]
          BY <2>2, <4>2
        <5>2. i \in 1..Len(F[n + 1]) /\ F[n + 1][i] = s[k]
          BY <3>1, <5>1
        <5> QED
          BY <5>2
      <4> QED
        BY <3>3, <4>1, <4>2
    <3> QED
      BY <3>4, <3>5
  <2> QED
    BY <2>4, <2>5
<1>4. Len(s) \in T
  <2> HIDE DEF T
  <2> QED
    BY <1>2, <1>3, NatBySets
<1> QED
  BY <1>1, <1>4
-----------------------------------------------------------------------------
(* The two walks over the lines of a file: parse_regions and merge.          *)

(* What lines are: pairs, and a marker has a name.                           *)
IsLines(L) == \A x \in L : x = <<x[1], x[2]>> /\ (IsMarker(x) => x[2] # Outside)

Ids(L) == {Outside} \cup {x[2] : x \in L}
ParseErrors == {"none", "nested", "duplicate", "stray_end", "mismatched"}
Parsed(L) == [open : Ids(L), seen : SUBSET Ids(L), error : ParseErrors]
Merged(L) == [out : Seq(L), inside : BOOLEAN]

IsParse(P, file) ==
    /\ P[0] = [open |-> Outside, seen |-> {}, error |-> "none"]
    /\ \A n \in 1..Len(file) : P[n] = ParseLine(file[n], P[n - 1])

(* The bodies of the regions are lines. *)
Bodies(new, L) == \A id \in DOMAIN new : new[id] \in Seq(L)

IsMerge(W, file, new) ==
    /\ W[0] = [out |-> <<>>, inside |-> FALSE]
    /\ \A n \in 1..Len(file) : W[n] = MergeLine(file[n], W[n - 1], new)

(* One line takes a parse to a parse ...                                     *)
LEMMA ParseLineType ==
  ASSUME NEW L, NEW line \in L, NEW p \in Parsed(L)
  PROVE  ParseLine(line, p) \in Parsed(L)
<1>1. line[2] \in Ids(L) /\ Outside \in Ids(L)
  BY DEF Ids
<1>2. /\ p.open \in Ids(L) /\ p.seen \in SUBSET Ids(L) /\ p.error \in ParseErrors
      /\ p = [open |-> p.open, seen |-> p.seen, error |-> p.error]
  BY DEF Parsed
<1>3. p.seen \cup {line[2]} \in SUBSET Ids(L)
  BY <1>1, <1>2
<1>4. \A e \in ParseErrors : [p EXCEPT !.error = e] \in Parsed(L)
  BY <1>2 DEF Parsed
<1>5. /\ [p EXCEPT !.open = line[2], !.seen = @ \cup {line[2]}] \in Parsed(L)
      /\ [p EXCEPT !.open = Outside] \in Parsed(L)
  BY <1>1, <1>2, <1>3 DEF Parsed
<1>6. /\ [p EXCEPT !.error = "nested"] \in Parsed(L)
      /\ [p EXCEPT !.error = "duplicate"] \in Parsed(L)
      /\ [p EXCEPT !.error = "stray_end"] \in Parsed(L)
      /\ [p EXCEPT !.error = "mismatched"] \in Parsed(L)
  BY <1>4 DEF ParseErrors
<1> HIDE DEF Parsed
<1> QED
  BY <1>5, <1>6 DEF ParseLine

(* ... and a merge to a merge.                                               *)
LEMMA MergeLineType ==
  ASSUME NEW L, NEW new, Bodies(new, L),
         NEW line \in L, NEW w \in Merged(L)
  PROVE  MergeLine(line, w, new) \in Merged(L)
<1>1. w.out \in Seq(L) /\ w.inside \in BOOLEAN /\ w = [out |-> w.out, inside |-> w.inside]
  BY DEF Merged
<1>2. Append(w.out, line) \in Seq(L)
  BY <1>1
<1>3. CASE line[2] \in DOMAIN new
  <2>1. new[line[2]] \in Seq(L)
    BY <1>3 DEF Bodies
  <2>2. Append(w.out, line) \o new[line[2]] \in Seq(L)
    BY <1>2, <2>1
  <2> QED
    BY <1>1, <1>2, <2>2 DEF MergeLine, Merged
<1>4. CASE line[2] \notin DOMAIN new
  BY <1>1, <1>2, <1>4 DEF MergeLine, Merged
<1> QED
  BY <1>3, <1>4

(* The parse of a file is the last of its lines' ...                         *)
LEMMA ParseWalk ==
  ASSUME NEW L, NEW file \in Seq(L)
  PROVE  \E P \in [0..Len(file) -> Parsed(L)] :
           /\ IsParse(P, file)
           /\ ParseRegions(file) =
                IF P[Len(file)].error = "none" /\ P[Len(file)].open # Outside
                THEN [P[Len(file)] EXCEPT !.error = "unclosed"] ELSE P[Len(file)]
<1> DEFINE V    == Parsed(L)
           N    == Len(file)
           base == [open |-> Outside, seen |-> {}, error |-> "none"]
           Next1(n, p) == ParseLine(file[n], p)
           step == [n \in 1..N |-> [p \in V |-> Next1(n, p)]]
           Walk1(F) == [n \in 0..N |-> IF n = 0 THEN base ELSE Next1(n, F[n - 1])]
           F    == CHOOSE F : F = Walk1(F)
<1>1. \A n \in 1..N, p \in V : Next1(n, p) \in V
  BY ParseLineType
<1>2. step \in [1..N -> [V -> V]]
  <2> HIDE DEF Next1, V
  <2> QED
    BY <1>1
<1>3. N \in Nat /\ base \in V
  <2>1. Outside \in Ids(L)
    BY DEF Ids
  <2>2. {} \in SUBSET Ids(L) /\ "none" \in ParseErrors /\ N \in Nat
    BY DEF ParseErrors
  <2> QED
    BY <2>1, <2>2 DEF Parsed
<1>4. PICK f \in [0..N -> V] : f[0] = base /\ \A n \in 1..N : f[n] = step[n][f[n - 1]]
  <2>1. base \in V /\ N \in Nat /\ step \in [1..N -> [V -> V]]
    BY <1>2, <1>3
  <2> HIDE DEF step, V, N, base, Next1, Walk1, F
  <2> QED
    BY <2>1, NatRecursion
<1>5. \A n \in 1..N : f[n] = Next1(n, f[n - 1])
  <2> HIDE DEF Next1, V, base, N, Walk1, F
  <2> SUFFICES ASSUME NEW n \in 1..N PROVE f[n] = Next1(n, f[n - 1])
    OBVIOUS
  <2>1. n - 1 \in 0..N
    BY <1>3
  <2> QED
    BY <1>4, <2>1
<1>6. f = Walk1(f)
  <2> HIDE DEF V, Next1, base
  <2> QED
    BY <1>4, <1>5
<1>7. F = Walk1(F)
  <2> HIDE DEF Walk1
  <2> QED
    BY <1>6
<1>8. F[0] = base /\ \A n \in 1..N : F[n] = Next1(n, F[n - 1])
  <2> HIDE DEF F, Next1, base
  <2>1. F = [n \in 0..N |-> IF n = 0 THEN base ELSE Next1(n, F[n - 1])]
    BY <1>7
  <2> HIDE DEF N
  <2> QED
    BY <2>1, <1>3
<1> DEFINE T == {n \in Nat : n <= N => F[n] \in V}
<1>9. Nat \subseteq T
  <2> HIDE DEF F, V, Next1, base
  <2>1. 0 \in T
    BY <1>8, <1>3
  <2>2. ASSUME NEW n \in Nat, n \in T PROVE n + 1 \in T
    BY <2>2, <1>1, <1>8
  <2> HIDE DEF T
  <2> QED
    BY <2>1, <2>2, NatBySets
<1>10. F \in [0..N -> V]
  <2>1. F = [n \in 0..N |-> IF n = 0 THEN base ELSE Next1(n, F[n - 1])]
    BY <1>7
  <2> HIDE DEF F, V, Next1, base
  <2> QED
    BY <1>9, <2>1
<1>11. ParseRegions(file) =
         IF F[N].error = "none" /\ F[N].open # Outside
         THEN [F[N] EXCEPT !.error = "unclosed"] ELSE F[N]
  BY DEF ParseRegions
<1> HIDE DEF F
<1>12. IsParse(F, file)
  BY <1>8 DEF IsParse
<1> QED
  BY <1>10, <1>11, <1>12

(* ... and so is the merge.                                                  *)
LEMMA MergeWalks ==
  ASSUME NEW L, NEW file \in Seq(L), NEW new, Bodies(new, L)
  PROVE  \E W \in [0..Len(file) -> Merged(L)] :
           IsMerge(W, file, new) /\ MergeWalk(file, new) = W[Len(file)].out
<1> DEFINE V    == Merged(L)
           N    == Len(file)
           base == [out |-> <<>>, inside |-> FALSE]
           Next1(n, w) == MergeLine(file[n], w, new)
           step == [n \in 1..N |-> [w \in V |-> Next1(n, w)]]
           Walk1(F) == [n \in 0..N |-> IF n = 0 THEN base ELSE Next1(n, F[n - 1])]
           F    == CHOOSE F : F = Walk1(F)
<1>1. \A n \in 1..N, w \in V : Next1(n, w) \in V
  <2> SUFFICES ASSUME NEW n \in 1..N, NEW w \in V PROVE Next1(n, w) \in V
    OBVIOUS
  <2>1. file[n] \in L
    OBVIOUS
  <2> QED
    BY <2>1, MergeLineType
<1>2. step \in [1..N -> [V -> V]]
  <2> HIDE DEF Next1, V
  <2> QED
    BY <1>1
<1>3. N \in Nat /\ base \in V
  BY DEF Merged
<1>4. PICK f \in [0..N -> V] : f[0] = base /\ \A n \in 1..N : f[n] = step[n][f[n - 1]]
  <2>1. base \in V /\ N \in Nat /\ step \in [1..N -> [V -> V]]
    BY <1>2, <1>3
  <2> HIDE DEF step, V, N, base, Next1, Walk1, F
  <2> QED
    BY <2>1, NatRecursion
<1>5. \A n \in 1..N : f[n] = Next1(n, f[n - 1])
  <2> HIDE DEF Next1, V, base, N, Walk1, F
  <2> SUFFICES ASSUME NEW n \in 1..N PROVE f[n] = Next1(n, f[n - 1])
    OBVIOUS
  <2>1. n - 1 \in 0..N
    BY <1>3
  <2> QED
    BY <1>4, <2>1
<1>6. f = Walk1(f)
  <2> HIDE DEF V, Next1, base
  <2> QED
    BY <1>4, <1>5
<1>7. F = Walk1(F)
  <2> HIDE DEF Walk1
  <2> QED
    BY <1>6
<1>8. F[0] = base /\ \A n \in 1..N : F[n] = Next1(n, F[n - 1])
  <2> HIDE DEF F, Next1, base
  <2>1. F = [n \in 0..N |-> IF n = 0 THEN base ELSE Next1(n, F[n - 1])]
    BY <1>7
  <2> HIDE DEF N
  <2> QED
    BY <2>1, <1>3
<1> DEFINE T == {n \in Nat : n <= N => F[n] \in V}
<1>9. Nat \subseteq T
  <2> HIDE DEF F, V, Next1, base
  <2>1. 0 \in T
    BY <1>8, <1>3
  <2>2. ASSUME NEW n \in Nat, n \in T PROVE n + 1 \in T
    BY <2>2, <1>1, <1>8
  <2> HIDE DEF T
  <2> QED
    BY <2>1, <2>2, NatBySets
<1>10. F \in [0..N -> V]
  <2>1. F = [n \in 0..N |-> IF n = 0 THEN base ELSE Next1(n, F[n - 1])]
    BY <1>7
  <2> HIDE DEF F, V, Next1, base
  <2> QED
    BY <1>9, <2>1
<1>11. MergeWalk(file, new) = F[N].out
  BY DEF MergeWalk
<1> HIDE DEF F
<1>12. IsMerge(F, file, new)
  BY <1>8 DEF IsMerge
<1> QED
  BY <1>10, <1>11, <1>12
-----------------------------------------------------------------------------
(* No line of the user between the begin and the end of a region.            *)
Clean(file) ==
    \A i, j, k \in 1..Len(file) :
      i < j /\ j < k /\ file[i][1] = "begin" /\ file[k] = End(file[i][2]) => file[j][1] # "text"

(* ... nor after the begin of the region that is open.                       *)
NoTextAfter(file, id) ==
    \A i, j \in 1..Len(file) : i < j /\ file[i] = Begin(id) => file[j][1] # "text"

(* The markers are of these regions.                                         *)
MarkersOf(file, ids) == \A i \in 1..Len(file) : IsMarker(file[i]) => file[i][2] \in ids

(* A body that a generation makes.                                           *)
Plain(body) == \A i \in 1..Len(body) : body[i][1] # "text" /\ ~IsMarker(body[i])

(* What a line at the end does to them ...                                   *)
LEMMA AppendLine ==
  ASSUME NEW L, NEW out \in Seq(L), NEW x \in L
  PROVE  /\ Append(out, x) \in Seq(L) /\ Len(Append(out, x)) = Len(out) + 1 /\ Len(out) \in Nat
         /\ Append(out, x)[Len(out) + 1] = x
         /\ \A i \in 1..Len(out) : Append(out, x)[i] = out[i]
  OBVIOUS

(* ... so that a list of one line more is known by its lines ...             *)
LEMMA Grown ==
  ASSUME NEW L, NEW s \in Seq(L), NEW x \in L, NEW t \in Seq(L), Len(t) = Len(s) + 1,
         t[Len(s) + 1] = x, \A i \in 1..Len(s) : t[i] = s[i]
  PROVE  Append(s, x) = t /\ s \o <<x>> = t
<1> DEFINE u == Append(s, x)
<1>1. /\ u \in Seq(L) /\ Len(u) = Len(s) + 1 /\ Len(s) \in Nat /\ u[Len(s) + 1] = x
      /\ \A i \in 1..Len(s) : u[i] = s[i]
  BY AppendLine
<1>2. s \o <<x>> = u
  OBVIOUS
<1> HIDE DEF u
<1>3. \A i \in 1..Len(u) : u[i] = t[i]
  <2> TAKE i \in 1..Len(u)
  <2>1. CASE i = Len(s) + 1
    BY <1>1, <2>1
  <2>2. CASE i # Len(s) + 1
    <3>1. i \in 1..Len(s)
      BY <1>1, <2>2
    <3> QED
      BY <1>1, <3>1
  <2> QED
    BY <2>1, <2>2
<1>4. u = t
  BY <1>1, <1>3
<1> QED
  BY <1>2, <1>4 DEF u

(* ... as two lines ...                                                      *)
LEMMA TwoLines ==
  ASSUME NEW L, NEW a \in L, NEW b \in L
  PROVE  Append(<<a>>, b) = <<a, b>>
<1> DEFINE one == <<a>>
           two == <<a, b>>
<1>1. one \in Seq(L) /\ Len(one) = 1 /\ one[1] = a
  OBVIOUS
<1>2. two \in Seq(L) /\ Len(two) = 2 /\ two[1] = a /\ two[2] = b
  OBVIOUS
<1> HIDE DEF one, two
<1>3. Len(two) = Len(one) + 1 /\ two[Len(one) + 1] = b
  BY <1>1, <1>2
<1>4. \A i \in 1..Len(one) : two[i] = one[i]
  BY <1>1, <1>2
<1>5. Append(one, b) = two
  BY <1>1, <1>2, <1>3, <1>4, Grown
<1> QED
  BY <1>5 DEF one, two

(* ... or three ...                                                          *)
LEMMA ThreeLines ==
  ASSUME NEW L, NEW a \in L, NEW b \in L, NEW x \in L
  PROVE  <<a, b>> \o <<x>> = <<a, b, x>>
<1> DEFINE two == <<a, b>>
           three == <<a, b, x>>
<1>1. two \in Seq(L) /\ Len(two) = 2 /\ two[1] = a /\ two[2] = b
  OBVIOUS
<1>2. three \in Seq(L) /\ Len(three) = 3 /\ three[1] = a /\ three[2] = b /\ three[3] = x
  OBVIOUS
<1> HIDE DEF two, three
<1>3. Len(three) = Len(two) + 1 /\ three[Len(two) + 1] = x
  BY <1>1, <1>2
<1>4. \A i \in 1..Len(two) : three[i] = two[i]
  BY <1>1, <1>2
<1>5. two \o <<x>> = three
  BY <1>1, <1>2, <1>3, <1>4, Grown
<1> QED
  BY <1>5 DEF two, three

(* ... or four are ...                                                       *)
LEMMA FourLines ==
  ASSUME NEW L, NEW a \in L, NEW b \in L, NEW x \in L, NEW c \in L
  PROVE  Append(<<a, b, x>>, c) = <<a, b, x, c>>
<1> DEFINE three == <<a, b, x>>
           four == <<a, b, x, c>>
<1>1. three \in Seq(L) /\ Len(three) = 3 /\ three[1] = a /\ three[2] = b /\ three[3] = x
  OBVIOUS
<1>2. four \in Seq(L) /\ Len(four) = 4 /\ four[1] = a /\ four[2] = b /\ four[3] = x /\ four[4] = c
  OBVIOUS
<1> HIDE DEF three, four
<1>3. Len(four) = Len(three) + 1 /\ four[Len(three) + 1] = c
  BY <1>1, <1>2
<1>4. \A i \in 1..Len(three) : four[i] = three[i]
  BY <1>1, <1>2
<1>5. Append(three, c) = four
  BY <1>1, <1>2, <1>3, <1>4, Grown
<1> QED
  BY <1>5 DEF three, four

(* ... and of two lists.                                                     *)
LEMMA ConcatLines ==
  ASSUME NEW L, NEW a \in Seq(L), NEW b \in Seq(L)
  PROVE  /\ a \o b \in Seq(L) /\ Len(a \o b) = Len(a) + Len(b)
         /\ Len(a) \in Nat /\ Len(b) \in Nat
         /\ \A i \in 1..Len(a) : (a \o b)[i] = a[i]
         /\ \A i \in 1..Len(b) : (a \o b)[Len(a) + i] = b[i]
  OBVIOUS

(* A line at the end leaves the file clean, if no region ends over a line.   *)
LEMMA CleanAppend ==
  ASSUME NEW L, IsLines(L), NEW out \in Seq(L), NEW x \in L,
         Clean(out), x[1] # "end" \/ NoTextAfter(out, x[2])
  PROVE  Clean(Append(out, x))
<1> DEFINE t == Append(out, x)
<1>1. /\ t \in Seq(L) /\ Len(t) = Len(out) + 1 /\ Len(out) \in Nat /\ t[Len(out) + 1] = x
      /\ \A i \in 1..Len(out) : t[i] = out[i]
  BY AppendLine
<1> HIDE DEF t
<1> SUFFICES ASSUME NEW i \in 1..Len(t), NEW j \in 1..Len(t), NEW k \in 1..Len(t),
                    i < j, j < k, t[i][1] = "begin", t[k] = End(t[i][2])
             PROVE  t[j][1] # "text"
  BY DEF Clean, t
<1>2. i \in 1..Len(out) /\ j \in 1..Len(out) /\ t[i] = out[i] /\ t[j] = out[j] /\ out[i] \in L
  BY <1>1
<1>3. CASE k \in 1..Len(out)
  BY <1>1, <1>2, <1>3 DEF Clean
<1>4. CASE k = Len(out) + 1
  <2>0. x = End(out[i][2])
    BY <1>1, <1>2, <1>4
  <2>1. x = End(out[i][2]) /\ x[1] = "end" /\ x[2] = out[i][2]
    BY <2>0 DEF End
  <2>2. out[i] = <<out[i][1], out[i][2]>>
    BY <1>2 DEF IsLines
  <2>3. out[i] = Begin(x[2])
    BY <1>2, <2>1, <2>2 DEF Begin
  <2> QED
    BY <1>2, <2>1, <2>3 DEF NoTextAfter
<1> QED
  BY <1>1, <1>3, <1>4

(* ... leaves the open region without the user's lines, if it is none,       *)
LEMMA NoTextAppend ==
  ASSUME NEW L, NEW out \in Seq(L), NEW x \in L, NEW id,
         x[1] # "text", NoTextAfter(out, id)
  PROVE  NoTextAfter(Append(out, x), id)
  BY AppendLine DEF NoTextAfter

(* ... and adds its own region to those that are marked.                     *)
LEMMA MarkersAppend ==
  ASSUME NEW L, NEW out \in Seq(L), NEW x \in L, NEW ids,
         IsMarker(x) => x[2] \in ids, MarkersOf(out, ids)
  PROVE  MarkersOf(Append(out, x), ids)
  BY AppendLine DEF MarkersOf

(* Those marked may be taken for more.                                       *)
LEMMA MarkersMore ==
  ASSUME NEW out, NEW ids, NEW more, MarkersOf(out, ids), ids \subseteq more
  PROVE  MarkersOf(out, more)
  BY DEF MarkersOf

(* Nothing is after the begin of a region that has none.                     *)
LEMMA NotBegun ==
  ASSUME NEW out, NEW ids, NEW id, id \notin ids, MarkersOf(out, ids)
  PROVE  NoTextAfter(out, id)
  BY DEF NoTextAfter, MarkersOf, IsMarker, Begin

(* ... and a body.                                                           *)
LEMMA PlainConcat ==
  ASSUME NEW L, IsLines(L), NEW out \in Seq(L), NEW body \in Seq(L), Plain(body), NEW ids,
         Clean(out), MarkersOf(out, ids)
  PROVE  /\ Clean(out \o body) /\ MarkersOf(out \o body, ids)
         /\ \A id : NoTextAfter(out, id) => NoTextAfter(out \o body, id)
<1> DEFINE t == out \o body
<1>1. /\ t \in Seq(L) /\ Len(t) = Len(out) + Len(body) /\ Len(out) \in Nat /\ Len(body) \in Nat
      /\ \A i \in 1..Len(out) : t[i] = out[i]
      /\ \A i \in 1..Len(body) : t[Len(out) + i] = body[i]
  OBVIOUS
<1> HIDE DEF t
<1>2. \A i \in 1..Len(t) : i \in 1..Len(out) \/ (t[i][1] # "text" /\ ~IsMarker(t[i]))
  <2> SUFFICES ASSUME NEW i \in 1..Len(t), i \notin 1..Len(out)
               PROVE  t[i][1] # "text" /\ ~IsMarker(t[i])
    OBVIOUS
  <2>1. i - Len(out) \in 1..Len(body) /\ Len(out) + (i - Len(out)) = i
    BY <1>1
  <2>2. t[i] = body[i - Len(out)]
    BY <1>1, <2>1
  <2> QED
    BY <2>1, <2>2 DEF Plain
<1>3. Clean(t)
  <2> SUFFICES ASSUME NEW i \in 1..Len(t), NEW j \in 1..Len(t), NEW k \in 1..Len(t),
                      i < j, j < k, t[i][1] = "begin", t[k] = End(t[i][2])
               PROVE  t[j][1] # "text"
    BY DEF Clean
  <2>1. IsMarker(t[k])
    BY DEF IsMarker, End
  <2>2. k \in 1..Len(out)
    BY <1>2, <2>1
  <2>3. i \in 1..Len(out) /\ j \in 1..Len(out)
    BY <1>1, <2>2
  <2> QED
    BY <1>1, <2>2, <2>3 DEF Clean
<1>4. MarkersOf(t, ids)
  BY <1>1, <1>2 DEF MarkersOf
<1>5. ASSUME NEW id, NoTextAfter(out, id) PROVE NoTextAfter(t, id)
  <2> SUFFICES ASSUME NEW i \in 1..Len(t), NEW j \in 1..Len(t), i < j, t[i] = Begin(id)
               PROVE  t[j][1] # "text"
    BY DEF NoTextAfter
  <2>1. IsMarker(t[i])
    BY DEF IsMarker, Begin
  <2>2. i \in 1..Len(out)
    BY <1>2, <2>1
  <2> QED
    BY <1>1, <1>2, <1>5, <2>2 DEF NoTextAfter
<1> QED
  BY <1>3, <1>4, <1>5 DEF t

-----------------------------------------------------------------------------
(* A file that parses: which region is open after a line, and those seen.    *)
Follows(line, o, s, p, t) ==
    CASE line[1] = "begin" ->
           o = Outside /\ line[2] \notin s /\ p = line[2] /\ t = s \cup {line[2]}
      [] line[1] = "end" -> o = line[2] /\ p = Outside /\ t = s
      [] OTHER -> p = o /\ t = s

Good(open, seen, file) ==
    /\ open[0] = Outside /\ seen[0] = {}
    /\ \A n \in 1..Len(file) : Follows(file[n], open[n - 1], seen[n - 1], open[n], seen[n])
    /\ open[Len(file)] = Outside /\ seen[Len(file)] = RegionIds(file)

(* A step of the parse without an error.                                     *)
LEMMA FollowsParse ==
  ASSUME NEW L, NEW line, NEW p \in Parsed(L), NEW q, q = ParseLine(line, p), q.error = "none"
  PROVE  p.error = "none" /\ Follows(line, p.open, p.seen, q.open, q.seen)
<1>1. p = [open |-> p.open, seen |-> p.seen, error |-> p.error]
  BY DEF Parsed
<1>2. p.error = "none"
  BY <1>1 DEF ParseLine
<1>3. CASE line[1] = "begin"
  <2>1. IsMarker(line)
    BY <1>3 DEF IsMarker
  <2>2. p.open = Outside
    BY <1>1, <1>2, <1>3, <2>1 DEF ParseLine
  <2>3. line[2] \notin p.seen
    BY <1>1, <1>2, <1>3, <2>1, <2>2 DEF ParseLine
  <2>4. q = [p EXCEPT !.open = line[2], !.seen = @ \cup {line[2]}]
    BY <1>2, <1>3, <2>1, <2>2, <2>3 DEF ParseLine
  <2> QED
    BY <1>1, <1>2, <1>3, <2>2, <2>3, <2>4 DEF Follows
<1>4. CASE line[1] = "end"
  <2>1. IsMarker(line) /\ line[1] # "begin"
    BY <1>4 DEF IsMarker
  <2>2. p.open # Outside
    BY <1>1, <1>2, <2>1 DEF ParseLine
  <2>3. p.open = line[2]
    BY <1>1, <1>2, <2>1, <2>2 DEF ParseLine
  <2>4. q = [p EXCEPT !.open = Outside]
    BY <1>2, <2>1, <2>2, <2>3 DEF ParseLine
  <2> QED
    BY <1>1, <1>2, <1>4, <2>1, <2>3, <2>4 DEF Follows
<1>5. CASE line[1] # "begin" /\ line[1] # "end"
  BY <1>1, <1>2, <1>5 DEF ParseLine, Follows, IsMarker
<1> QED
  BY <1>2, <1>3, <1>4, <1>5

(* After n lines, without an error so far.                                   *)
ErrorFree(P, n) == P[n].error = "none"

(* The last state of the parse of a file that is well formed.                *)
LastParse(P, N, file) ==
    P[N].error = "none" /\ P[N].open = Outside /\ P[N].seen = RegionIds(file)

(* A file that parses has such a walk.                                       *)
LEMMA GoodParse ==
  ASSUME NEW L, NEW file \in Seq(L), WellFormed(file)
  PROVE  \E open \in [0..Len(file) -> Ids(L)], seen \in [0..Len(file) -> SUBSET Ids(L)] :
           Good(open, seen, file)
<1> DEFINE N == Len(file)
           Result(P) ==
             ParseRegions(file) =
               IF P[N].error = "none" /\ P[N].open # Outside
               THEN [P[N] EXCEPT !.error = "unclosed"] ELSE P[N]
<1>1. N \in Nat
  OBVIOUS
<1>2. PICK P \in [0..N -> Parsed(L)] : IsParse(P, file) /\ Result(P)
  BY ParseWalk
<1> HIDE DEF Result, N
<1>3. \A n \in 0..N : P[n] \in Parsed(L)
  OBVIOUS
<1>4. LastParse(P, N, file)
  <2>1. P[N] \in Parsed(L)
    BY <1>1, <1>3
  <2>2. ParseRegions(file).error = "none"
    BY DEF WellFormed
  <2>3. ~(P[N].error = "none" /\ P[N].open # Outside)
    BY <1>2, <2>1, <2>2 DEF Parsed, Result
  <2>4. ParseRegions(file) = P[N]
    BY <1>2, <2>3 DEF Result
  <2> QED
    BY <2>2, <2>3, <2>4 DEF RegionIds, LastParse
<1>5. \A n \in 1..N : P[n] = ParseLine(file[n], P[n - 1])
  BY <1>2 DEF IsParse, N
<1>6. ASSUME NEW n \in 1..N, ErrorFree(P, n)
      PROVE  /\ ErrorFree(P, n - 1)
             /\ Follows(file[n], P[n - 1].open, P[n - 1].seen, P[n].open, P[n].seen)
  <2>1. n - 1 \in 0..N
    BY <1>1
  <2>2. P[n - 1] \in Parsed(L)
    BY <1>3, <2>1
  <2>3. P[n] = ParseLine(file[n], P[n - 1])
    BY <1>5
  <2>4. P[n].error = "none"
    BY <1>6 DEF ErrorFree
  <2> QED
    BY <2>2, <2>3, <2>4, FollowsParse DEF ErrorFree
<1> DEFINE T == {n \in Nat : n <= N => ErrorFree(P, N - n)}
<1>7. Nat \subseteq T
  <2>1. 0 \in T
    <3>1. ErrorFree(P, N)
      BY <1>4 DEF LastParse, ErrorFree
    <3>2. N - 0 = N
      BY <1>1
    <3> QED
      BY <3>1, <3>2
  <2>2. ASSUME NEW n \in Nat, n \in T PROVE n + 1 \in T
    <3>1. SUFFICES ASSUME n + 1 <= N PROVE ErrorFree(P, N - (n + 1))
      OBVIOUS
    <3>2. N - n \in 1..N /\ (N - n) - 1 = N - (n + 1) /\ ErrorFree(P, N - n)
      BY <1>1, <2>2, <3>1
    <3> QED
      BY <1>6, <3>2
  <2> HIDE DEF T
  <2> QED
    BY <2>1, <2>2, NatBySets
<1>8. \A n \in 0..N : ErrorFree(P, n)
  <2> SUFFICES ASSUME NEW n \in 0..N PROVE ErrorFree(P, n)
    OBVIOUS
  <2>1. N - n \in Nat /\ N - n <= N /\ N - (N - n) = n
    BY <1>1
  <2> QED
    BY <1>7, <2>1
<1> DEFINE open == [n \in 0..N |-> P[n].open]
           seen == [n \in 0..N |-> P[n].seen]
<1>9. open \in [0..N -> Ids(L)] /\ seen \in [0..N -> SUBSET Ids(L)]
  BY <1>3 DEF Parsed
<1>10. Good(open, seen, file)
  <2>1. open[0] = Outside /\ seen[0] = {}
    BY <1>1, <1>2 DEF IsParse
  <2>2. open[N] = Outside /\ seen[N] = RegionIds(file)
    BY <1>1, <1>4 DEF LastParse
  <2>3. ASSUME NEW n \in 1..N
        PROVE  Follows(file[n], open[n - 1], seen[n - 1], open[n], seen[n])
    <3>1. n \in 0..N /\ n - 1 \in 0..N
      BY <1>1
    <3>2. Follows(file[n], P[n - 1].open, P[n - 1].seen, P[n].open, P[n].seen)
      BY <1>6, <1>8, <3>1
    <3> QED
      BY <3>1, <3>2
  <2> HIDE DEF open, seen
  <2> QED
    BY <2>1, <2>2, <2>3 DEF Good, N
<1> QED
  BY <1>9, <1>10 DEF N

(* The region that is open has begun ...                                     *)
LEMMA Opened ==
  ASSUME NEW L, IsLines(L), NEW file \in Seq(L), NEW open, NEW seen, Good(open, seen, file)
  PROVE  \A n \in 0..Len(file) : open[n] # Outside =>
           open[n] \in seen[n] /\ \E i \in 1..n : file[i] = Begin(open[n])
<1> DEFINE N == Len(file)
           Begun(n) == open[n] # Outside =>
             open[n] \in seen[n] /\ \E i \in 1..n : file[i] = Begin(open[n])
           T == {n \in Nat : n <= N => Begun(n)}
<1>1. 0 \in T
  BY DEF Good
<1>2. ASSUME NEW n \in Nat, n \in T PROVE n + 1 \in T
  <2>1. SUFFICES ASSUME n + 1 <= N PROVE Begun(n + 1)
    OBVIOUS
  <2> DEFINE line == file[n + 1]
  <2>2. Begun(n) /\ n + 1 \in 1..N /\ (n + 1) - 1 = n
    BY <1>2, <2>1
  <2>3. line \in L
    BY <2>2
  <2>4. Follows(line, open[n], seen[n], open[n + 1], seen[n + 1])
    BY <2>2 DEF Good
  <2>5. CASE line[1] = "begin"
    <3>1. open[n + 1] = line[2] /\ seen[n + 1] = seen[n] \cup {line[2]}
      BY <2>4, <2>5 DEF Follows
    <3>2. line = Begin(line[2])
      BY <2>3, <2>5 DEF IsLines, Begin
    <3>3. n + 1 \in 1..(n + 1)
      OBVIOUS
    <3> QED
      BY <3>1, <3>2, <3>3
  <2>6. CASE line[1] = "end"
    BY <2>4, <2>6 DEF Follows
  <2>7. CASE line[1] # "begin" /\ line[1] # "end"
    <3>1. open[n + 1] = open[n] /\ seen[n + 1] = seen[n]
      BY <2>4, <2>7 DEF Follows
    <3>2. 1..n \subseteq 1..(n + 1)
      OBVIOUS
    <3> QED
      BY <2>2, <3>1, <3>2
  <2> QED
    BY <2>5, <2>6, <2>7
<1>3. Nat \subseteq T
  <2> HIDE DEF T
  <2> QED
    BY <1>1, <1>2, NatBySets
<1> QED
  BY <1>3

(* ... and ends.                                                             *)
LEMMA Closes ==
  ASSUME NEW L, IsLines(L), NEW file \in Seq(L), NEW open, NEW seen, Good(open, seen, file),
         NEW n \in 0..Len(file), open[n] # Outside
  PROVE  \E k \in (n + 1)..Len(file) : file[k] = End(open[n])
<1> DEFINE N == Len(file)
           Ends(m) == \E k \in (n + 1)..m : file[k] = End(open[n])
           T == {m \in Nat : n + m <= N => open[n + m] = open[n] \/ Ends(n + m)}
<1>1. 0 \in T
  OBVIOUS
<1>2. ASSUME NEW m \in Nat, m \in T PROVE m + 1 \in T
  <2>1. SUFFICES ASSUME n + (m + 1) <= N
                 PROVE  open[n + (m + 1)] = open[n] \/ Ends(n + (m + 1))
    OBVIOUS
  <2>2. CASE Ends(n + m)
    <3>1. (n + 1)..(n + m) \subseteq (n + 1)..(n + (m + 1))
      OBVIOUS
    <3> QED
      BY <2>2, <3>1
  <2>3. CASE open[n + m] = open[n]
    <3> DEFINE line == file[n + (m + 1)]
    <3>1. n + (m + 1) \in 1..N /\ (n + (m + 1)) - 1 = n + m
      BY <2>1
    <3>2. line \in L
      BY <3>1
    <3>3. Follows(line, open[n + m], seen[n + m], open[n + (m + 1)], seen[n + (m + 1)])
      BY <3>1 DEF Good
    <3>4. CASE line[1] = "begin"
      BY <2>3, <3>3, <3>4 DEF Follows
    <3>5. CASE line[1] = "end"
      <4>1. line = End(open[n])
        BY <2>3, <3>2, <3>3, <3>5 DEF Follows, IsLines, End
      <4>2. n + (m + 1) \in (n + 1)..(n + (m + 1))
        OBVIOUS
      <4> QED
        BY <4>1, <4>2
    <3>6. CASE line[1] # "begin" /\ line[1] # "end"
      BY <2>3, <3>3, <3>6 DEF Follows
    <3> QED
      BY <3>4, <3>5, <3>6
  <2> QED
    BY <1>2, <2>1, <2>2, <2>3
<1>3. Nat \subseteq T
  <2> HIDE DEF T
  <2> QED
    BY <1>1, <1>2, NatBySets
<1>4. N - n \in Nat /\ n + (N - n) = N
  OBVIOUS
<1>5. open[N] = open[n] \/ Ends(N)
  BY <1>3, <1>4
<1> QED
  BY <1>5 DEF Good

(* What the user wrote is outside the regions.                               *)
LEMMA TextIsOutside ==
  ASSUME NEW L, IsLines(L), NEW file \in Seq(L), NEW open, NEW seen, Good(open, seen, file),
         Clean(file), NEW n \in 1..Len(file), file[n][1] = "text"
  PROVE  open[n - 1] = Outside
<1> SUFFICES ASSUME open[n - 1] # Outside PROVE FALSE
  OBVIOUS
<1>1. n - 1 \in 0..Len(file) /\ n \in 0..Len(file)
  OBVIOUS
<1>2. open[n] = open[n - 1]
  BY DEF Good, Follows
<1>3. PICK i \in 1..(n - 1) : file[i] = Begin(open[n])
  BY <1>1, <1>2, Opened
<1>4. PICK k \in (n + 1)..Len(file) : file[k] = End(open[n])
  BY <1>1, <1>2, Closes
<1>5. i < n /\ n < k /\ i \in 1..Len(file) /\ k \in 1..Len(file)
  OBVIOUS
<1>6. file[i][1] = "begin" /\ file[k] = End(file[i][2])
  BY <1>3, <1>4 DEF Begin
<1> QED
  BY <1>5, <1>6 DEF Clean
-----------------------------------------------------------------------------
(* The merge of a file that parses keeps what the user wrote.                *)
Texts(L) == {x \in L : x[1] = "text"}
PlainBodies(new) == \A id \in DOMAIN new : Plain(new[id])

(* One line of merge, when region o is open.                                 *)
Merges(line, o, new, out, out2) ==
    CASE line[1] = "begin" /\ line[2] \in DOMAIN new -> out2 = Append(out, line) \o new[line[2]]
      [] line[1] = "end" /\ line[2] \in DOMAIN new -> out2 = Append(out, line)
      [] ~IsMarker(line) /\ o = Outside -> out2 = Append(out, line)
      [] OTHER -> out2 = out

IsInside(w) == w.inside

(* A line of such a walk, in the merge.                                      *)
LEMMA MergesLine ==
  ASSUME NEW L, IsLines(L), NEW line \in L, NEW new, NEW w \in Merged(L), NEW w2 \in Merged(L),
         w2 = MergeLine(line, w, new), NEW o, NEW s, NEW p, NEW t, Follows(line, o, s, p, t),
         IsInside(w) <=> o # Outside
  PROVE  (IsInside(w2) <=> p # Outside) /\ Merges(line, o, new, w.out, w2.out)
<1>1. w = [out |-> w.out, inside |-> w.inside]
  BY DEF Merged
<1>2. CASE line[1] = "begin" /\ line[2] \in DOMAIN new
  <2>1. w2 = [out |-> Append(w.out, line) \o new[line[2]], inside |-> TRUE]
    BY <1>2 DEF MergeLine, IsMarker
  <2>2. p = line[2] /\ line[2] # Outside
    BY <1>2 DEF Follows, IsLines, IsMarker
  <2>3. w2.out = Append(w.out, line) \o new[line[2]]
    <3> DEFINE more == Append(w.out, line) \o new[line[2]]
    <3>1. w2 = [out |-> more, inside |-> TRUE]
      BY <2>1
    <3> HIDE DEF more
    <3>2. w2.out = more
      BY <3>1
    <3> QED
      BY <3>2 DEF more
  <2>4. Merges(line, o, new, w.out, w2.out)
    BY <1>2, <2>3 DEF Merges, IsMarker
  <2> QED
    BY <2>1, <2>2, <2>4 DEF IsInside
<1>3. CASE line[1] = "begin" /\ line[2] \notin DOMAIN new
  <2>1. w2 = [w EXCEPT !.inside = TRUE]
    BY <1>3 DEF MergeLine, IsMarker
  <2>2. p = line[2] /\ line[2] # Outside /\ IsMarker(line)
    BY <1>3 DEF Follows, IsLines, IsMarker
  <2> QED
    BY <1>1, <1>3, <2>1, <2>2 DEF Merges, IsInside
<1>4. CASE line[1] = "end" /\ line[2] \in DOMAIN new
  <2>1. w2 = [out |-> Append(w.out, line), inside |-> FALSE]
    BY <1>4 DEF MergeLine, IsMarker
  <2>2. p = Outside
    BY <1>4 DEF Follows
  <2> QED
    BY <1>4, <2>1, <2>2 DEF Merges, IsInside
<1>5. CASE line[1] = "end" /\ line[2] \notin DOMAIN new
  <2>1. w2 = [w EXCEPT !.inside = FALSE]
    BY <1>5 DEF MergeLine, IsMarker
  <2>2. p = Outside /\ IsMarker(line)
    BY <1>5 DEF Follows, IsMarker
  <2> QED
    BY <1>1, <1>5, <2>1, <2>2 DEF Merges, IsInside
<1>6. CASE line[1] # "begin" /\ line[1] # "end"
  <2>1. p = o /\ ~IsMarker(line)
    BY <1>6 DEF Follows, IsMarker
  <2>2. CASE o = Outside
    <3>1. ~w.inside
      BY <2>2 DEF IsInside
    <3>2. w2 = [w EXCEPT !.out = Append(@, line)]
      BY <1>6, <2>1, <3>1 DEF MergeLine
    <3> QED
      BY <1>1, <1>6, <2>1, <2>2, <3>1, <3>2 DEF Merges, IsInside
  <2>3. CASE o # Outside
    <3>1. w.inside
      BY <2>3 DEF IsInside
    <3>2. w2 = w
      BY <1>6, <2>1, <3>1 DEF MergeLine
    <3> QED
      BY <1>6, <2>1, <2>3, <3>1, <3>2 DEF Merges, IsInside
  <2> QED
    BY <2>2, <2>3
<1> QED
  BY <1>2, <1>3, <1>4, <1>5, <1>6

(* What is out so far has the user's lines kept, and is clean.               *)
Kept(L, out, kept, o, s) ==
    /\ out \in Seq(L) /\ Those(out, Texts(L)) = kept
    /\ Clean(out) /\ MarkersOf(out, s)
    /\ o # Outside => NoTextAfter(out, o)

(* Before the line: the region that is open was seen, and a line of the user *)
(* is outside.                                                               *)
Placed(line, o, s) == (o # Outside => o \in s) /\ (line[1] = "text" => o = Outside)

(* The user's lines so far, with the line.                                   *)
Extended(L, kept, line, kept2) ==
    kept2 = IF line \in Texts(L) THEN Append(kept, line) ELSE kept

(* One line of the merge keeps what it has to.                               *)
LEMMA KeptStep ==
  ASSUME NEW L, IsLines(L), NEW line \in L, NEW new, Bodies(new, L), PlainBodies(new),
         NEW o, NEW s, NEW p, NEW t, Follows(line, o, s, p, t), Placed(line, o, s),
         NEW out, NEW out2, Merges(line, o, new, out, out2),
         NEW kept, NEW kept2,
         Extended(L, kept, line, kept2),
         Kept(L, out, kept, o, s)
  PROVE  Kept(L, out2, kept2, p, t)
<1>1. /\ out \in Seq(L) /\ Those(out, Texts(L)) = kept /\ Clean(out) /\ MarkersOf(out, s)
      /\ o # Outside => NoTextAfter(out, o)
  BY DEF Kept
<1>2. /\ Append(out, line) \in Seq(L)
      /\ Those(Append(out, line), Texts(L)) = kept2
  BY <1>1, ThoseAppend DEF Extended
<1>3. CASE line[1] = "begin"
  <2>1. /\ o = Outside /\ line[2] \notin s /\ p = line[2] /\ t = s \cup {line[2]}
        /\ line \notin Texts(L) /\ kept2 = kept
    BY <1>3 DEF Follows, Texts, Extended
  <2>2. NoTextAfter(out, p) /\ MarkersOf(out, t)
    BY <1>1, <2>1, NotBegun, MarkersMore
  <2>3. CASE line[2] \in DOMAIN new
    <3> DEFINE more == Append(out, line)
               body == new[line[2]]
    <3>1. body \in Seq(L) /\ Plain(body)
      BY <2>3 DEF Bodies, PlainBodies
    <3>2. Clean(more) /\ MarkersOf(more, t) /\ NoTextAfter(more, p)
      BY <1>1, <1>3, <2>1, <2>2, CleanAppend, MarkersAppend, NoTextAppend
    <3>3. \A n \in 1..Len(body) : body[n] \notin Texts(L)
      BY <3>1 DEF Plain, Texts
    <3>4. more \in Seq(L) /\ Those(more, Texts(L)) = kept2
      BY <1>2
    <3>5. out2 = more \o body
      BY <1>3, <2>3 DEF Merges, IsMarker
    <3> HIDE DEF more, body
    <3>6. more \o body \in Seq(L)
      BY <3>1, <3>4
    <3>7. Those(more \o body, Texts(L)) = kept2
      BY <3>1, <3>3, <3>4, ThoseConcatNone
    <3>8. Clean(more \o body) /\ MarkersOf(more \o body, t) /\ NoTextAfter(more \o body, p)
      BY <3>1, <3>2, <3>4, PlainConcat
    <3> QED
      BY <3>5, <3>6, <3>7, <3>8 DEF Kept
  <2>4. CASE line[2] \notin DOMAIN new
    <3>1. out2 = out
      BY <1>3, <2>4 DEF Merges, IsMarker
    <3> QED
      BY <1>1, <2>1, <2>2, <3>1 DEF Kept
  <2> QED
    BY <2>3, <2>4
<1>4. CASE line[1] = "end"
  <2>1. /\ o = line[2] /\ p = Outside /\ t = s /\ line[2] # Outside
        /\ line \notin Texts(L) /\ kept2 = kept
    BY <1>4 DEF Follows, Texts, Extended, IsLines, IsMarker
  <2>2. CASE line[2] \in DOMAIN new
    <3>1. out2 = Append(out, line)
      BY <1>4, <2>2 DEF Merges
    <3>2. NoTextAfter(out, line[2]) /\ line[2] \in s
      BY <1>1, <2>1 DEF Placed
    <3>3. Clean(Append(out, line)) /\ MarkersOf(Append(out, line), t)
      BY <1>1, <2>1, <3>2, CleanAppend, MarkersAppend
    <3> QED
      BY <1>2, <2>1, <3>1, <3>3 DEF Kept
  <2>3. CASE line[2] \notin DOMAIN new
    <3>1. out2 = out
      BY <1>4, <2>3 DEF Merges, IsMarker
    <3> QED
      BY <1>1, <2>1, <3>1 DEF Kept
  <2> QED
    BY <2>2, <2>3
<1>5. CASE line[1] # "begin" /\ line[1] # "end"
  <2>1. p = o /\ t = s /\ ~IsMarker(line)
    BY <1>5 DEF Follows, IsMarker
  <2>2. CASE o = Outside
    <3>1. out2 = Append(out, line)
      BY <1>5, <2>1, <2>2 DEF Merges
    <3>2. Clean(Append(out, line)) /\ MarkersOf(Append(out, line), t)
      BY <1>1, <1>5, <2>1, CleanAppend, MarkersAppend
    <3> QED
      BY <1>2, <2>1, <2>2, <3>1, <3>2 DEF Kept
  <2>3. CASE o # Outside
    <3>1. out2 = out
      BY <1>5, <2>1, <2>3 DEF Merges
    <3>2. line \notin Texts(L)
      BY <2>3 DEF Texts, Placed
    <3> QED
      BY <1>1, <2>1, <3>1, <3>2 DEF Kept, Extended
  <2> QED
    BY <2>2, <2>3
<1> QED
  BY <1>3, <1>4, <1>5

(* ... and so the walk does.                                                 *)
LEMMA MergeWalkKeeps ==
  ASSUME NEW L, IsLines(L), NEW file \in Seq(L), NEW new, Bodies(new, L), PlainBodies(new),
         WellFormed(file), Clean(file)
  PROVE  Kept(L, MergeWalk(file, new), Those(file, Texts(L)), Outside, RegionIds(file))
<1> DEFINE N == Len(file)
<1>1. PICK open \in [0..N -> Ids(L)], seen \in [0..N -> SUBSET Ids(L)] : Good(open, seen, file)
  BY GoodParse
<1>2. PICK W \in [0..N -> Merged(L)] :
        IsMerge(W, file, new) /\ MergeWalk(file, new) = W[N].out
  BY MergeWalks
<1>3. PICK F \in [0..N -> Seq(L)] :
        IsThose(F, file, Texts(L)) /\ Those(file, Texts(L)) = F[N]
  BY ThoseWalk
<1> DEFINE out == [n \in 0..N |-> W[n].out]
           Now(n) == /\ IsInside(W[n]) <=> open[n] # Outside
                     /\ Kept(L, out[n], F[n], open[n], seen[n])
           T == {n \in Nat : n <= N => Now(n)}
<1>4. N \in Nat
  OBVIOUS
<1>5. 0 \in T
  <2>1. out[0] = <<>> /\ ~IsInside(W[0])
    BY <1>2, <1>4 DEF IsMerge, IsInside
  <2>2. open[0] = Outside /\ seen[0] = {} /\ F[0] = <<>>
    BY <1>1, <1>3 DEF Good, IsThose
  <2>3. <<>> \in Seq(L) /\ Clean(<<>>) /\ MarkersOf(<<>>, {})
    BY DEF Clean, MarkersOf
  <2>4. Those(<<>>, Texts(L)) = <<>>
    <3>1. PICK G \in [0..Len(<<>>) -> Seq(L)] :
            IsThose(G, <<>>, Texts(L)) /\ Those(<<>>, Texts(L)) = G[Len(<<>>)]
      BY <2>3, ThoseWalk
    <3> QED
      BY <3>1 DEF IsThose
  <2>5. Kept(L, <<>>, <<>>, Outside, {})
    BY <2>3, <2>4 DEF Kept
  <2> HIDE DEF out
  <2> QED
    BY <2>1, <2>2, <2>5
<1>6. ASSUME NEW n \in Nat, n \in T PROVE n + 1 \in T
  <2> HIDE DEF out
  <2>1. SUFFICES ASSUME n + 1 <= N PROVE Now(n + 1)
    OBVIOUS
  <2>2. n \in 0..N /\ n + 1 \in 0..N /\ n + 1 \in 1..N /\ (n + 1) - 1 = n
    BY <2>1, <1>4
  <2>3. /\ IsInside(W[n]) <=> open[n] # Outside
        /\ Kept(L, out[n], F[n], open[n], seen[n])
    BY <1>6, <2>2
  <2>4. file[n + 1] \in L
    BY <2>2
  <2>5. Follows(file[n + 1], open[n], seen[n], open[n + 1], seen[n + 1])
    BY <1>1, <2>2 DEF Good
  <2>6. W[n + 1] = MergeLine(file[n + 1], W[n], new)
    BY <1>2, <2>2 DEF IsMerge
  <2>7. W[n] \in Merged(L) /\ W[n + 1] \in Merged(L)
    BY <2>2
  <2>8. /\ IsInside(W[n + 1]) <=> open[n + 1] # Outside
        /\ Merges(file[n + 1], open[n], new, W[n].out, W[n + 1].out)
    BY <2>3, <2>4, <2>5, <2>6, <2>7, MergesLine
  <2>9. out[n] = W[n].out /\ out[n + 1] = W[n + 1].out
    BY <2>2 DEF out
  <2>10. F[n + 1] = IF file[n + 1] \in Texts(L) THEN Append(F[n], file[n + 1]) ELSE F[n]
    BY <1>3, <2>2 DEF IsThose
  <2>11. open[n] # Outside => open[n] \in seen[n]
    BY <1>1, <2>2, Opened
  <2>12. file[n + 1][1] = "text" => open[n] = Outside
    BY <1>1, <2>2, TextIsOutside
  <2>13. Merges(file[n + 1], open[n], new, out[n], out[n + 1])
    BY <2>8, <2>9
  <2>14. Kept(L, out[n + 1], F[n + 1], open[n + 1], seen[n + 1])
    <3> DEFINE line == file[n + 1]
               o == open[n]
               s == seen[n]
               p == open[n + 1]
               t == seen[n + 1]
               u == out[n]
               v == out[n + 1]
               kept == F[n]
               kept2 == F[n + 1]
    <3>1. line \in L /\ Kept(L, u, kept, o, s)
      BY <2>3, <2>4
    <3>2. Extended(L, kept, line, kept2)
      BY <2>10 DEF Extended
    <3>3. Follows(line, o, s, p, t)
      BY <2>5
    <3>4. Merges(line, o, new, u, v)
      BY <2>13
    <3>5. Placed(line, o, s)
      BY <2>11, <2>12 DEF Placed
    <3> HIDE DEF line, kept, kept2, o, s, p, t, u, v
    <3>6. Kept(L, v, kept2, p, t)
      BY <3>1, <3>2, <3>3, <3>4, <3>5, KeptStep
    <3> QED
      BY <3>6 DEF kept2, p, t, v
  <2> QED
    BY <2>8, <2>14
<1>7. N \in T
  <2> HIDE DEF T, N
  <2> QED
    BY <1>4, <1>5, <1>6, NatBySets
<1>8. Kept(L, out[N], F[N], open[N], seen[N])
  <2> HIDE DEF out
  <2> QED
    BY <1>4, <1>7
<1>9. out[N] = MergeWalk(file, new) /\ open[N] = Outside /\ seen[N] = RegionIds(file)
  BY <1>1, <1>2, <1>4 DEF Good
<1> HIDE DEF out
<1> QED
  BY <1>3, <1>8, <1>9

(* A region that is new comes to the end.                                    *)
LEMMA AddedKeeps ==
  ASSUME NEW L, IsLines(L), NEW file, NEW new, Bodies(new, L), PlainBodies(new), NEW id,
         Begin(id) \in L, End(id) \in L, NEW out, NEW kept, NEW ids,
         id \notin ids \/ id \in RegionIds(file),
         Kept(L, out, kept, Outside, ids)
  PROVE  Kept(L, Added(file, new, id, out), kept, Outside, ids \cup {id})
<1>1. out \in Seq(L) /\ Those(out, Texts(L)) = kept /\ Clean(out) /\ MarkersOf(out, ids)
  BY DEF Kept
<1>2. MarkersOf(out, ids \cup {id})
  BY <1>1, MarkersMore
<1>3. CASE ~(id \in DOMAIN new \ RegionIds(file))
  <2>1. Added(file, new, id, out) = out
    BY <1>3 DEF Added
  <2> QED
    BY <1>1, <1>2, <2>1 DEF Kept
<1>4. CASE id \in DOMAIN new \ RegionIds(file)
  <2> DEFINE a == Append(out, Begin(id))
             b == a \o new[id]
             c == Append(b, End(id))
             more == ids \cup {id}
  <2>1. Begin(id)[1] = "begin" /\ Begin(id)[2] = id /\ End(id)[1] = "end" /\ End(id)[2] = id
        /\ Begin(id) \notin Texts(L) /\ End(id) \notin Texts(L)
    BY DEF Begin, End, Texts
  <2>2. new[id] \in Seq(L) /\ Plain(new[id])
    BY <1>4 DEF Bodies, PlainBodies
  <2>3. NoTextAfter(out, id)
    BY <1>1, <1>4, NotBegun
  <2>4. a \in Seq(L) /\ Clean(a) /\ MarkersOf(a, more) /\ NoTextAfter(a, id)
        /\ Those(a, Texts(L)) = kept
    <3>1. a \in Seq(L) /\ Those(a, Texts(L)) = kept
      BY <1>1, <2>1, ThoseAppend
    <3>2. Clean(a)
      BY <1>1, <2>1, CleanAppend
    <3>3. MarkersOf(a, more)
      BY <1>1, <1>2, <2>1, MarkersAppend
    <3>4. NoTextAfter(a, id)
      BY <1>1, <2>1, <2>3, NoTextAppend
    <3> QED
      BY <3>1, <3>2, <3>3, <3>4
  <2>5. b \in Seq(L) /\ Clean(b) /\ MarkersOf(b, more) /\ NoTextAfter(b, id)
        /\ Those(b, Texts(L)) = kept
    <3>1. \A n \in 1..Len(new[id]) : new[id][n] \notin Texts(L)
      BY <2>2 DEF Plain, Texts
    <3> HIDE DEF a
    <3>2. b \in Seq(L)
      BY <2>2, <2>4
    <3>3. Those(b, Texts(L)) = kept
      BY <2>2, <2>4, <3>1, ThoseConcatNone
    <3> QED
      BY <2>2, <2>4, <3>2, <3>3, PlainConcat
  <2>6. c \in Seq(L) /\ Clean(c) /\ MarkersOf(c, more) /\ Those(c, Texts(L)) = kept
    <3> HIDE DEF b
    <3>1. c \in Seq(L) /\ Those(c, Texts(L)) = kept
      BY <2>1, <2>5, ThoseAppend
    <3>2. Clean(c)
      BY <2>1, <2>5, CleanAppend
    <3>3. MarkersOf(c, more)
      BY <2>1, <2>5, MarkersAppend
    <3> QED
      BY <3>1, <3>2, <3>3
  <2>7. Added(file, new, id, out) = c
    BY <1>1, <1>4, <2>2 DEF Added
  <2> HIDE DEF c
  <2> QED
    BY <2>6, <2>7 DEF Kept
<1> QED
  BY <1>3, <1>4
-----------------------------------------------------------------------------
(* What is between the markers of a region is generated.                     *)
LEMMA BodyIndices ==
  ASSUME NEW L, NEW file \in Seq(L), NEW id
  PROVE  \/ Body(file, id) = <<>>
         \/ \E b, e \in 1..Len(file) :
              /\ file[b] = Begin(id) /\ \A i \in 1..Len(file) : file[i] = Begin(id) => b <= i
              /\ file[e] = End(id) /\ \A i \in 1..Len(file) : file[i] = End(id) => e <= i
              /\ Body(file, id) = SubSeq(file, b + 1, e - 1)
<1> DEFINE B == {i \in 1..Len(file) : file[i] = Begin(id)}
           E == {i \in 1..Len(file) : file[i] = End(id)}
           b == SelectInSeq(file, LAMBDA line : line = Begin(id))
           e == SelectInSeq(file, LAMBDA line : line = End(id))
<1>1. b = IF B # {} THEN Min(B) ELSE 0
  BY DEF SelectInSeq
<1>2. e = IF E # {} THEN Min(E) ELSE 0
  BY DEF SelectInSeq
<1>3. Body(file, id) = IF b = 0 \/ e = 0 THEN <<>> ELSE SubSeq(file, b + 1, e - 1)
  BY DEF Body
<1>4. B \in SUBSET Nat /\ E \in SUBSET Nat
  OBVIOUS
<1> HIDE DEF b, e
<1>5. CASE B # {} /\ E # {}
  <2>1. Min(B) \in B /\ \A i \in B : Min(B) <= i
    BY <1>4, <1>5, LeastNat
  <2>2. Min(E) \in E /\ \A i \in E : Min(E) <= i
    BY <1>4, <1>5, LeastNat
  <2>3. b = Min(B) /\ e = Min(E)
    BY <1>1, <1>2, <1>5
  <2>4. /\ b \in 1..Len(file) /\ file[b] = Begin(id)
        /\ \A i \in 1..Len(file) : file[i] = Begin(id) => b <= i
    BY <2>1, <2>3
  <2>5. /\ e \in 1..Len(file) /\ file[e] = End(id)
        /\ \A i \in 1..Len(file) : file[i] = End(id) => e <= i
    BY <2>2, <2>3
  <2>6. Body(file, id) = SubSeq(file, b + 1, e - 1)
    BY <1>3, <2>4, <2>5
  <2> QED
    BY <2>4, <2>5, <2>6
<1>6. CASE B = {} \/ E = {}
  BY <1>1, <1>2, <1>3, <1>6
<1> QED
  BY <1>5, <1>6

(* Lines that are pairs, no markers, and not the user's.                     *)
Generated(body) ==
    /\ body \in Seq(ToSet(body))
    /\ \A i \in 1..Len(body) :
         body[i] = <<body[i][1], body[i][2]>> /\ body[i][1] # "text" /\ ~IsMarker(body[i])

(* ... which hold none of the user's lines and no marker.                    *)
LEMMA BodyIsGenerated ==
  ASSUME NEW L, IsLines(L), NEW file \in Seq(L), WellFormed(file), Clean(file), NEW id
  PROVE  Body(file, id) \in Seq(L) /\ Plain(Body(file, id))
<1>1. CASE Body(file, id) = <<>>
  BY <1>1 DEF Plain
<1>2. CASE Body(file, id) # <<>>
  <2>1. PICK b, e \in 1..Len(file) :
          /\ file[b] = Begin(id)
          /\ file[e] = End(id) /\ \A i \in 1..Len(file) : file[i] = End(id) => e <= i
          /\ Body(file, id) = SubSeq(file, b + 1, e - 1)
    BY <1>2, BodyIndices
  <2>2. PICK open \in [0..Len(file) -> Ids(L)], seen \in [0..Len(file) -> SUBSET Ids(L)] :
          Good(open, seen, file)
    BY GoodParse
  <2>3. file[b] \in L /\ id # Outside
    <3>1. file[b] \in L
      OBVIOUS
    <3>2. file[b][1] = "begin" /\ file[b][2] = id
      BY <2>1 DEF Begin
    <3> QED
      BY <3>1, <3>2 DEF IsLines, IsMarker
  <2> DEFINE T == {m \in Nat : b + m < e => open[b + m] = id}
  <2>4. 0 \in T
    <3>1. Follows(file[b], open[b - 1], seen[b - 1], open[b], seen[b])
      BY <2>2 DEF Good
    <3>2. open[b] = id
      BY <2>1, <3>1 DEF Follows, Begin
    <3> QED
      BY <3>2
  <2>5. ASSUME NEW m \in Nat, m \in T PROVE m + 1 \in T
    <3>1. SUFFICES ASSUME b + (m + 1) < e PROVE open[b + (m + 1)] = id
      OBVIOUS
    <3> DEFINE line == file[b + (m + 1)]
    <3>2. b + (m + 1) \in 1..Len(file) /\ (b + (m + 1)) - 1 = b + m /\ open[b + m] = id
      BY <2>5, <3>1
    <3>3. Follows(line, open[b + m], seen[b + m], open[b + (m + 1)], seen[b + (m + 1)])
      BY <2>2, <3>2 DEF Good
    <3>4. line \in L /\ line # End(id)
      BY <2>1, <3>1, <3>2
    <3>5. line[1] # "begin"
      BY <2>3, <3>2, <3>3 DEF Follows
    <3>6. line[1] # "end"
      BY <3>2, <3>3, <3>4 DEF Follows, IsLines, End
    <3> QED
      BY <3>2, <3>3, <3>5, <3>6 DEF Follows
  <2>6. Nat \subseteq T
    <3> HIDE DEF T
    <3> QED
      BY <2>4, <2>5, NatBySets
  <2>7. ASSUME NEW m \in (b + 1)..(e - 1) PROVE file[m][1] # "text" /\ ~IsMarker(file[m])
    <3>1. (m - 1) - b \in Nat /\ b + ((m - 1) - b) = m - 1 /\ m - 1 < e
          /\ m - b \in Nat /\ b + (m - b) = m /\ m < e /\ m \in 1..Len(file)
      OBVIOUS
    <3>2. open[m - 1] = id /\ open[m] = id
      BY <2>6, <3>1
    <3>3. Follows(file[m], open[m - 1], seen[m - 1], open[m], seen[m])
      BY <2>2, <3>1 DEF Good
    <3>4. file[m][1] # "begin" /\ file[m][1] # "end"
      BY <2>3, <3>2, <3>3 DEF Follows
    <3>5. file[m][1] # "text"
      BY <2>2, <2>3, <3>1, <3>2, TextIsOutside
    <3> QED
      BY <3>4, <3>5 DEF IsMarker
  <2> DEFINE s == SubSeq(file, b + 1, e - 1)
  <2>8. CASE b + 1 > e - 1
    <3>1. s = <<>>
      BY <2>8
    <3> QED
      BY <1>2, <2>1, <3>1
  <2>9. CASE b + 1 <= e - 1
    <3>1. s \in Seq(L) /\ Len(s) = (e - 1) - b
      BY <2>9
    <3>2. \A i \in 1..Len(s) : s[i] = file[b + i] /\ b + i \in (b + 1)..(e - 1)
      BY <2>9, <3>1
    <3> HIDE DEF s
    <3>3. Plain(s)
      BY <2>7, <3>2 DEF Plain
    <3> QED
      BY <2>1, <3>1, <3>3 DEF s
  <2> QED
    BY <2>8, <2>9
<1> QED
  BY <1>1, <1>2

(* Bodies are put together from bodies.                                      *)
LEMMA GeneratedIn ==
  ASSUME NEW L, IsLines(L), NEW body \in Seq(L), Plain(body)
  PROVE  Generated(body)
<1>1. body \in Seq(ToSet(body))
  BY DEF ToSet
<1>2. ASSUME NEW i \in 1..Len(body) PROVE body[i] = <<body[i][1], body[i][2]>>
  BY DEF IsLines
<1> QED
  BY <1>1, <1>2 DEF Generated, Plain

(* ... one after the other.                                                  *)
LEMMA GeneratedConcat ==
  ASSUME NEW a, NEW b, Generated(a), Generated(b)
  PROVE  Generated(a \o b)
<1> DEFINE M == ToSet(a) \cup ToSet(b)
           c == a \o b
<1>1. a \in Seq(M) /\ b \in Seq(M)
  BY DEF Generated
<1>2. /\ c \in Seq(M) /\ Len(c) = Len(a) + Len(b) /\ Len(a) \in Nat /\ Len(b) \in Nat
      /\ \A i \in 1..Len(a) : c[i] = a[i]
      /\ \A i \in 1..Len(b) : c[Len(a) + i] = b[i]
  <2> HIDE DEF M
  <2> QED
    BY <1>1
<1> HIDE DEF c
<1>3. c \in Seq(ToSet(c))
  BY <1>2 DEF ToSet
<1>4. ASSUME NEW i \in 1..Len(c)
      PROVE  c[i] = <<c[i][1], c[i][2]>> /\ c[i][1] # "text" /\ ~IsMarker(c[i])
  <2>1. CASE i \in 1..Len(a)
    BY <1>2, <2>1 DEF Generated
  <2>2. CASE i \notin 1..Len(a)
    <3>1. i - Len(a) \in 1..Len(b) /\ Len(a) + (i - Len(a)) = i
      BY <1>2, <2>2
    <3>2. c[i] = b[i - Len(a)]
      BY <1>2, <3>1
    <3> QED
      BY <3>1, <3>2 DEF Generated
  <2> QED
    BY <2>1, <2>2
<1>5. Generated(c)
  BY <1>3, <1>4 DEF Generated
<1> QED
  BY <1>5 DEF c

-----------------------------------------------------------------------------
(* A file that the generator and the user write together.                    *)
IsText(file) == \E L : IsLines(L) /\ file \in Seq(L) /\ Clean(file)

(* The user's lines are those that are text, whatever set the lines are of.  *)
LEMMA TextsAreThose ==
  ASSUME NEW L, NEW file \in Seq(L)
  PROVE  TextLines(file) = Those(file, Texts(L))
<1>1. \A n \in 1..Len(file) :
        file[n] \in {line \in ToSet(file) : line[1] = "text"} <=> file[n] \in Texts(L)
  BY DEF ToSet, Texts
<1> QED
  BY <1>1, ThoseSame DEF TextLines

MergedIds == {"mods", "module_decls", "routes"}

(* The lines of a file and of what is merged into it.                        *)
LEMMA MergedLines ==
  ASSUME NEW K, IsLines(K), NEW new, \A id \in DOMAIN new : Generated(new[id])
  PROVE  \E L : /\ IsLines(L) /\ K \subseteq L /\ Bodies(new, L) /\ PlainBodies(new)
                /\ \A id \in MergedIds : Begin(id) \in L /\ End(id) \in L
<1> DEFINE Marks == {Begin(id) : id \in MergedIds} \cup {End(id) : id \in MergedIds}
           Lines == UNION {ToSet(new[id]) : id \in DOMAIN new}
           L == K \cup Marks \cup Lines
<1>1. \A id \in MergedIds : id # Outside
  BY DEF MergedIds, Outside
<1>2. IsLines(L)
  <2>1. \A x \in Marks : x = <<x[1], x[2]>> /\ x[2] # Outside
    BY <1>1 DEF Begin, End
  <2>2. ASSUME NEW x \in Lines PROVE x = <<x[1], x[2]>> /\ ~IsMarker(x)
    <3>1. PICK id \in DOMAIN new : x \in ToSet(new[id])
      OBVIOUS
    <3>2. Generated(new[id])
      OBVIOUS
    <3>3. PICK i \in 1..Len(new[id]) : x = new[id][i]
      BY <3>1, <3>2 DEF ToSet, Generated
    <3> QED
      BY <3>2, <3>3 DEF Generated
  <2> HIDE DEF Marks, Lines
  <2> QED
    BY <2>1, <2>2 DEF IsLines
<1>3. Bodies(new, L) /\ PlainBodies(new)
  <2>1. ASSUME NEW id \in DOMAIN new PROVE new[id] \in Seq(L) /\ Plain(new[id])
    <3>1. Generated(new[id])
      OBVIOUS
    <3>2. ToSet(new[id]) \subseteq L
      OBVIOUS
    <3>3. new[id] \in Seq(ToSet(new[id])) /\ Plain(new[id])
      BY <3>1 DEF Generated, Plain
    <3> HIDE DEF L
    <3> QED
      BY <3>2, <3>3
  <2> QED
    BY <2>1 DEF Bodies, PlainBodies
<1>4. K \subseteq L /\ \A id \in MergedIds : Begin(id) \in L /\ End(id) \in L
  OBVIOUS
<1> HIDE DEF L
<1> QED
  BY <1>2, <1>3, <1>4

(* A merge of such bodies keeps what the user wrote, and leaves such a file. *)
LEMMA FilledKeepsText ==
  ASSUME NEW file, IsText(file), WellFormed(file),
         NEW new, \A id \in DOMAIN new : Generated(new[id])
  PROVE  IsText(MergeFilled(file, new)) /\ TextLines(MergeFilled(file, new)) = TextLines(file)
<1>1. PICK K : IsLines(K) /\ file \in Seq(K) /\ Clean(file)
  BY DEF IsText
<1>2. PICK L : /\ IsLines(L) /\ K \subseteq L /\ Bodies(new, L) /\ PlainBodies(new)
               /\ \A id \in MergedIds : Begin(id) \in L /\ End(id) \in L
  BY <1>1, MergedLines
<1>3. file \in Seq(L)
  BY <1>1, <1>2
<1> DEFINE kept == Those(file, Texts(L))
           ids == RegionIds(file)
           m0 == MergeWalk(file, new)
           m1 == Added(file, new, "mods", m0)
           m2 == Added(file, new, "module_decls", m1)
           m3 == Added(file, new, "routes", m2)
<1> HIDE DEF kept, ids
<1>4. Kept(L, m0, kept, Outside, ids)
  BY <1>1, <1>2, <1>3, MergeWalkKeeps DEF kept, ids
<1>5. Kept(L, m1, kept, Outside, ids \cup {"mods"})
  <2>1. "mods" \notin ids \/ "mods" \in RegionIds(file)
    BY DEF ids
  <2>2. Begin("mods") \in L /\ End("mods") \in L
    BY <1>2 DEF MergedIds
  <2> HIDE DEF m0
  <2> QED
    BY <1>2, <1>4, <2>1, <2>2, AddedKeeps
<1>6. Kept(L, m2, kept, Outside, (ids \cup {"mods"}) \cup {"module_decls"})
  <2> DEFINE more == ids \cup {"mods"}
  <2>1. "module_decls" \notin more \/ "module_decls" \in RegionIds(file)
    BY DEF ids
  <2>2. Begin("module_decls") \in L /\ End("module_decls") \in L
    BY <1>2 DEF MergedIds
  <2>3. Kept(L, m1, kept, Outside, more)
    BY <1>5
  <2> HIDE DEF m1, more
  <2>4. Kept(L, m2, kept, Outside, more \cup {"module_decls"})
    BY <1>2, <2>1, <2>2, <2>3, AddedKeeps
  <2> QED
    BY <2>4 DEF more
<1>7. Kept(L, m3, kept, Outside, ((ids \cup {"mods"}) \cup {"module_decls"}) \cup {"routes"})
  <2> DEFINE more == (ids \cup {"mods"}) \cup {"module_decls"}
  <2>1. "routes" \notin more \/ "routes" \in RegionIds(file)
    BY DEF ids
  <2>2. Begin("routes") \in L /\ End("routes") \in L
    BY <1>2 DEF MergedIds
  <2>3. Kept(L, m2, kept, Outside, more)
    BY <1>6
  <2> HIDE DEF m2, more
  <2>4. Kept(L, m3, kept, Outside, more \cup {"routes"})
    BY <1>2, <2>1, <2>2, <2>3, AddedKeeps
  <2> QED
    BY <2>4 DEF more
<1>8. MergeFilled(file, new) = m3
  BY DEF MergeFilled
<1> HIDE DEF m3
<1>9. m3 \in Seq(L) /\ Those(m3, Texts(L)) = kept /\ Clean(m3)
  BY <1>7 DEF Kept
<1>10. TextLines(m3) = Those(m3, Texts(L)) /\ TextLines(file) = kept
  BY <1>3, <1>9, TextsAreThose DEF kept
<1>11. IsText(m3)
  BY <1>2, <1>9 DEF IsText
<1> QED
  BY <1>8, <1>9, <1>10, <1>11

(* The blank line in an empty body is generated, too.                        *)
LEMMA FilledGenerated ==
  ASSUME NEW new, \A id \in DOMAIN new : Generated(new[id])
  PROVE  /\ DOMAIN Filled(new) = DOMAIN new
         /\ \A id \in DOMAIN Filled(new) : Generated(Filled(new)[id])
<1> DEFINE b == <<Blank>>
<1>1. Blank = <<Blank[1], Blank[2]>> /\ Blank[1] = "blank"
  BY DEF Blank
<1>2. Blank[1] # "text" /\ ~IsMarker(Blank)
  BY <1>1 DEF IsMarker
<1>3. b \in Seq({Blank}) /\ Len(b) = 1 /\ b[1] = Blank
  OBVIOUS
<1> HIDE DEF b
<1>4. ToSet(b) = {Blank}
  BY <1>3 DEF ToSet
<1>5. Generated(b)
  BY <1>1, <1>2, <1>3, <1>4 DEF Generated
<1>6. DOMAIN Filled(new) = DOMAIN new
  BY DEF Filled
<1>7. \A id \in DOMAIN new : Filled(new)[id] = b \/ Filled(new)[id] = new[id]
  BY DEF Filled, b
<1> QED
  BY <1>5, <1>6, <1>7

(* A merge keeps what the user wrote, and leaves such a file.                *)
LEMMA MergeKeepsText ==
  ASSUME NEW file, IsText(file), WellFormed(file),
         NEW new, \A id \in DOMAIN new : Generated(new[id])
  PROVE  IsText(Merge(file, new)) /\ TextLines(Merge(file, new)) = TextLines(file)
<1> DEFINE full == Filled(new)
<1>1. \A id \in DOMAIN full : Generated(full[id])
  BY FilledGenerated
<1> HIDE DEF full
<1>2. IsText(MergeFilled(file, full)) /\ TextLines(MergeFilled(file, full)) = TextLines(file)
  BY <1>1, FilledKeepsText
<1> QED
  BY <1>2 DEF Merge, full
-----------------------------------------------------------------------------
(* What a merge makes, line by line: the state of both walks at its end.     *)

(* The state of the parse after all lines of a file ...                      *)
Parses(file, p) == \E P : IsParse(P, file) /\ p = P[Len(file)]

(* ... and that of a merge.                                                  *)
Rewrites(file, new, w) == \E W : IsMerge(W, file, new) /\ w = W[Len(file)]

(* A walk goes on with the line that is appended ...                         *)
LEMMA ParsesAppend ==
  ASSUME NEW L, NEW s \in Seq(L), NEW x \in L, NEW p, Parses(s, p)
  PROVE  Parses(Append(s, x), ParseLine(x, p))
<1> DEFINE t == Append(s, x)
           N == Len(s)
           q == ParseLine(x, p)
<1>1. Len(t) = N + 1 /\ N \in Nat /\ t[N + 1] = x /\ \A i \in 1..N : t[i] = s[i]
  BY AppendLine
<1>2. PICK P : IsParse(P, s) /\ p = P[N]
  BY DEF Parses
<1> DEFINE Q == [n \in 0..N + 1 |-> IF n = N + 1 THEN q ELSE P[n]]
<1> HIDE DEF t
<1>3. Q[0] = P[0] /\ Q[N + 1] = q
  BY <1>1
<1>4. ASSUME NEW n \in 1..N + 1 PROVE Q[n] = ParseLine(t[n], Q[n - 1])
  <2>1. CASE n = N + 1
    <3>1. Q[n - 1] = p /\ t[n] = x
      BY <1>1, <1>2, <2>1
    <3> QED
      BY <1>3, <2>1, <3>1
  <2>2. CASE n \in 1..N
    <3>1. Q[n] = P[n] /\ Q[n - 1] = P[n - 1] /\ t[n] = s[n]
      BY <1>1, <2>2
    <3>2. P[n] = ParseLine(s[n], P[n - 1])
      BY <1>2, <2>2 DEF IsParse
    <3> QED
      BY <3>1, <3>2
  <2> QED
    BY <1>1, <2>1, <2>2
<1> HIDE DEF Q, q
<1>5. IsParse(Q, t)
  BY <1>1, <1>2, <1>3, <1>4 DEF IsParse
<1> QED
  BY <1>1, <1>3, <1>5 DEF Parses, t, q

(* One line more of the merge.                                               *)
LEMMA RewritesAppend ==
  ASSUME NEW L, NEW s \in Seq(L), NEW x \in L, NEW new, NEW p, Rewrites(s, new, p)
  PROVE  Rewrites(Append(s, x), new, MergeLine(x, p, new))
<1> DEFINE t == Append(s, x)
           N == Len(s)
           q == MergeLine(x, p, new)
<1>1. Len(t) = N + 1 /\ N \in Nat /\ t[N + 1] = x /\ \A i \in 1..N : t[i] = s[i]
  BY AppendLine
<1>2. PICK P : IsMerge(P, s, new) /\ p = P[N]
  BY DEF Rewrites
<1> DEFINE Q == [n \in 0..N + 1 |-> IF n = N + 1 THEN q ELSE P[n]]
<1> HIDE DEF t
<1>3. Q[0] = P[0] /\ Q[N + 1] = q
  BY <1>1
<1>4. ASSUME NEW n \in 1..N + 1 PROVE Q[n] = MergeLine(t[n], Q[n - 1], new)
  <2>1. CASE n = N + 1
    <3>1. Q[n - 1] = p /\ t[n] = x
      BY <1>1, <1>2, <2>1
    <3> QED
      BY <1>3, <2>1, <3>1
  <2>2. CASE n \in 1..N
    <3>1. Q[n] = P[n] /\ Q[n - 1] = P[n - 1] /\ t[n] = s[n]
      BY <1>1, <2>2
    <3>2. P[n] = MergeLine(s[n], P[n - 1], new)
      BY <1>2, <2>2 DEF IsMerge
    <3> QED
      BY <3>1, <3>2
  <2> QED
    BY <1>1, <2>1, <2>2
<1> HIDE DEF Q, q
<1>5. IsMerge(Q, t, new)
  BY <1>1, <1>2, <1>3, <1>4 DEF IsMerge
<1> QED
  BY <1>1, <1>3, <1>5 DEF Rewrites, t, q

(* ... and past a body as if it were not there: a parse that sees no marker  *)
LEMMA ParsesBody ==
  ASSUME NEW L, NEW s \in Seq(L), NEW body \in Seq(L), Plain(body), NEW p, Parses(s, p)
  PROVE  Parses(s \o body, p)
<1> DEFINE t == s \o body
           N == Len(s)
           M == Len(body)
<1>1. /\ Len(t) = N + M /\ N \in Nat /\ M \in Nat
      /\ \A i \in 1..N : t[i] = s[i]
      /\ \A i \in 1..M : t[N + i] = body[i]
  BY ConcatLines
<1>2. PICK P : IsParse(P, s) /\ p = P[N]
  BY DEF Parses
<1> DEFINE Q == [n \in 0..N + M |-> IF n <= N THEN P[n] ELSE p]
<1> HIDE DEF t
<1>3. Q[0] = P[0] /\ Q[N + M] = p
  BY <1>1, <1>2
<1>4. ASSUME NEW n \in 1..N + M PROVE Q[n] = ParseLine(t[n], Q[n - 1])
  <2>1. CASE n > N
    <3>1. Q[n - 1] = p /\ Q[n] = p
      BY <1>1, <1>2, <2>1
    <3>2. n - N \in 1..M /\ N + (n - N) = n
      BY <1>1, <2>1
    <3>3. ~IsMarker(t[n])
      BY <1>1, <3>2 DEF Plain
    <3> QED
      BY <3>1, <3>3 DEF ParseLine
  <2>2. CASE n \in 1..N
    <3>1. Q[n] = P[n] /\ Q[n - 1] = P[n - 1] /\ t[n] = s[n]
      BY <1>1, <2>2
    <3>2. P[n] = ParseLine(s[n], P[n - 1])
      BY <1>2, <2>2 DEF IsParse
    <3> QED
      BY <3>1, <3>2
  <2> QED
    BY <1>1, <2>1, <2>2
<1> HIDE DEF Q
<1>5. IsParse(Q, t)
  BY <1>1, <1>2, <1>3, <1>4 DEF IsParse
<1> QED
  BY <1>1, <1>3, <1>5 DEF Parses, t

(* is as it was, and so is a merge inside a region.                          *)
LEMMA RewritesBody ==
  ASSUME NEW L, NEW s \in Seq(L), NEW body \in Seq(L), Plain(body), NEW new, NEW p,
         Rewrites(s, new, p), p.inside
  PROVE  Rewrites(s \o body, new, p)
<1> DEFINE t == s \o body
           N == Len(s)
           M == Len(body)
<1>1. /\ Len(t) = N + M /\ N \in Nat /\ M \in Nat
      /\ \A i \in 1..N : t[i] = s[i]
      /\ \A i \in 1..M : t[N + i] = body[i]
  BY ConcatLines
<1>2. PICK P : IsMerge(P, s, new) /\ p = P[N]
  BY DEF Rewrites
<1> DEFINE Q == [n \in 0..N + M |-> IF n <= N THEN P[n] ELSE p]
<1> HIDE DEF t
<1>3. Q[0] = P[0] /\ Q[N + M] = p
  BY <1>1, <1>2
<1>4. ASSUME NEW n \in 1..N + M PROVE Q[n] = MergeLine(t[n], Q[n - 1], new)
  <2>1. CASE n > N
    <3>1. Q[n - 1] = p /\ Q[n] = p
      BY <1>1, <1>2, <2>1
    <3>2. n - N \in 1..M /\ N + (n - N) = n
      BY <1>1, <2>1
    <3>3. ~IsMarker(t[n])
      BY <1>1, <3>2 DEF Plain
    <3> HIDE DEF Q
    <3> QED
      BY <3>1, <3>3 DEF MergeLine, IsMarker
  <2>2. CASE n \in 1..N
    <3>1. Q[n] = P[n] /\ Q[n - 1] = P[n - 1] /\ t[n] = s[n]
      BY <1>1, <2>2
    <3>2. P[n] = MergeLine(s[n], P[n - 1], new)
      BY <1>2, <2>2 DEF IsMerge
    <3> QED
      BY <3>1, <3>2
  <2> QED
    BY <1>1, <2>1, <2>2
<1> HIDE DEF Q
<1>5. IsMerge(Q, t, new)
  BY <1>1, <1>2, <1>3, <1>4 DEF IsMerge
<1> QED
  BY <1>1, <1>3, <1>5 DEF Rewrites, t

(* There is one such state.                                                  *)
LEMMA ParsesOnce ==
  ASSUME NEW L, NEW file \in Seq(L), NEW p, NEW q, Parses(file, p), Parses(file, q)
  PROVE  p = q
<1>1. PICK P, Q : IsParse(P, file) /\ p = P[Len(file)] /\ IsParse(Q, file) /\ q = Q[Len(file)]
  BY DEF Parses
<1> DEFINE T == {n \in Nat : n <= Len(file) => P[n] = Q[n]}
<1>2. 0 \in T
  BY <1>1 DEF IsParse
<1>3. ASSUME NEW n \in Nat, n \in T PROVE n + 1 \in T
  <2>1. SUFFICES ASSUME n + 1 <= Len(file) PROVE P[n + 1] = Q[n + 1]
    OBVIOUS
  <2>2. P[n] = Q[n] /\ n + 1 \in 1..Len(file) /\ (n + 1) - 1 = n
    BY <1>3, <2>1
  <2> QED
    BY <1>1, <2>2 DEF IsParse
<1>4. Nat \subseteq T
  <2> HIDE DEF T
  <2> QED
    BY <1>2, <1>3, NatBySets
<1>5. Len(file) \in Nat
  OBVIOUS
<1> QED
  BY <1>1, <1>4, <1>5

(* The merge of a file is one.                                               *)
LEMMA RewritesOnce ==
  ASSUME NEW L, NEW file \in Seq(L), NEW new, NEW p, NEW q,
         Rewrites(file, new, p), Rewrites(file, new, q)
  PROVE  p = q
<1>1. PICK P, Q : /\ IsMerge(P, file, new) /\ p = P[Len(file)]
                  /\ IsMerge(Q, file, new) /\ q = Q[Len(file)]
  BY DEF Rewrites
<1> DEFINE T == {n \in Nat : n <= Len(file) => P[n] = Q[n]}
<1>2. 0 \in T
  BY <1>1 DEF IsMerge
<1>3. ASSUME NEW n \in Nat, n \in T PROVE n + 1 \in T
  <2>1. SUFFICES ASSUME n + 1 <= Len(file) PROVE P[n + 1] = Q[n + 1]
    OBVIOUS
  <2>2. P[n] = Q[n] /\ n + 1 \in 1..Len(file) /\ (n + 1) - 1 = n
    BY <1>3, <2>1
  <2> QED
    BY <1>1, <2>2 DEF IsMerge
<1>4. Nat \subseteq T
  <2> HIDE DEF T
  <2> QED
    BY <1>2, <1>3, NatBySets
<1>5. Len(file) \in Nat
  OBVIOUS
<1> QED
  BY <1>1, <1>4, <1>5
-----------------------------------------------------------------------------
(* Where the body of a region is.                                            *)

(* No marker of the region is in the file.                                   *)
Unmarked(f, id) == \A i \in 1..Len(f) : f[i] # Begin(id) /\ f[i] # End(id)

(* The body starts after the one begin of its region ...                     *)
BodyAfter(f, id, body, b) ==
    /\ b \in 1..Len(f) /\ f[b] = Begin(id)
    /\ \A i \in 1..Len(f) : f[i] = Begin(id) => i = b
    /\ b + Len(body) <= Len(f)
    /\ \A i \in 1..Len(body) : f[b + i] = body[i]

(* ... and is all that follows, while the region is open; or its end does.   *)
OpenBody(f, id, body) ==
    /\ BodyAfter(f, id, body, Len(f) - Len(body))
    /\ \A i \in 1..Len(f) : f[i] # End(id)
HasBody(f, id, body) ==
    \E b \in 1..Len(f) :
      /\ BodyAfter(f, id, body, b)
      /\ b + Len(body) + 1 \in 1..Len(f) /\ f[b + Len(body) + 1] = End(id)
      /\ \A i \in 1..Len(f) : f[i] = End(id) => i = b + Len(body) + 1

(* The markers tell regions, and begin from end.                             *)
LEMMA MarkersDiffer ==
  \A id, x : /\ Begin(id)[1] = "begin" /\ Begin(id)[2] = id /\ Begin(id) # End(x)
             /\ End(id)[1] = "end" /\ End(id)[2] = id
             /\ IsMarker(Begin(id)) /\ IsMarker(End(id))
  BY DEF Begin, End, IsMarker

(* A line that is no marker of the region leaves its body where it is.       *)
LEMMA HasBodyAppend ==
  ASSUME NEW L, NEW f \in Seq(L), NEW x \in L, NEW id, NEW M, NEW body \in Seq(M),
         x # Begin(id), x # End(id), HasBody(f, id, body)
  PROVE  HasBody(Append(f, x), id, body)
<1> DEFINE t == Append(f, x)
<1>1. /\ t \in Seq(L) /\ Len(t) = Len(f) + 1 /\ Len(f) \in Nat /\ t[Len(f) + 1] = x
      /\ \A i \in 1..Len(f) : t[i] = f[i]
  BY AppendLine
<1>2. Len(body) \in Nat
  OBVIOUS
<1>3. PICK b \in 1..Len(f) :
        /\ BodyAfter(f, id, body, b)
        /\ b + Len(body) + 1 \in 1..Len(f) /\ f[b + Len(body) + 1] = End(id)
        /\ \A i \in 1..Len(f) : f[i] = End(id) => i = b + Len(body) + 1
  BY DEF HasBody
<1> HIDE DEF t
<1>4. BodyAfter(t, id, body, b)
  <2>1. b \in 1..Len(t) /\ t[b] = Begin(id)
    BY <1>1, <1>3 DEF BodyAfter
  <2>2. \A i \in 1..Len(t) : t[i] = Begin(id) => i = b
    <3>1. \A i \in 1..Len(t) : i \in 1..Len(f) \/ i = Len(f) + 1
      BY <1>1
    <3> QED
      BY <1>1, <1>3, <3>1 DEF BodyAfter
  <2>3. b + Len(body) <= Len(t)
    BY <1>1, <1>2, <1>3
  <2>4. \A i \in 1..Len(body) : t[b + i] = body[i]
    <3> SUFFICES ASSUME NEW i \in 1..Len(body) PROVE t[b + i] = body[i]
      OBVIOUS
    <3>1. b + i \in 1..Len(f)
      BY <1>1, <1>2, <1>3
    <3> QED
      BY <1>1, <1>3, <3>1 DEF BodyAfter
  <2> QED
    BY <2>1, <2>2, <2>3, <2>4 DEF BodyAfter
<1>5. b + Len(body) + 1 \in 1..Len(t) /\ t[b + Len(body) + 1] = End(id)
  BY <1>1, <1>2, <1>3
<1>6. \A i \in 1..Len(t) : t[i] = End(id) => i = b + Len(body) + 1
  BY <1>1, <1>2, <1>3
<1>7. b \in 1..Len(t)
  BY <1>1
<1> QED
  BY <1>4, <1>5, <1>6, <1>7 DEF HasBody, t

(* ... and so does another body.                                             *)
LEMMA HasBodyConcat ==
  ASSUME NEW L, NEW f \in Seq(L), NEW other \in Seq(L), Plain(other), NEW id,
         NEW M, NEW body \in Seq(M), HasBody(f, id, body)
  PROVE  HasBody(f \o other, id, body)
<1> DEFINE t == f \o other
<1>1. /\ t \in Seq(L) /\ Len(t) = Len(f) + Len(other) /\ Len(f) \in Nat /\ Len(other) \in Nat
      /\ \A i \in 1..Len(f) : t[i] = f[i]
      /\ \A i \in 1..Len(other) : t[Len(f) + i] = other[i]
  BY ConcatLines
<1>2. Len(body) \in Nat
  OBVIOUS
<1>3. PICK b \in 1..Len(f) :
        /\ BodyAfter(f, id, body, b)
        /\ b + Len(body) + 1 \in 1..Len(f) /\ f[b + Len(body) + 1] = End(id)
        /\ \A i \in 1..Len(f) : f[i] = End(id) => i = b + Len(body) + 1
  BY DEF HasBody
<1> HIDE DEF t
<1>4. \A i \in 1..Len(t) : i \in 1..Len(f) \/ (t[i] # Begin(id) /\ t[i] # End(id))
  <2> SUFFICES ASSUME NEW i \in 1..Len(t), i \notin 1..Len(f)
               PROVE  t[i] # Begin(id) /\ t[i] # End(id)
    OBVIOUS
  <2>1. i - Len(f) \in 1..Len(other) /\ Len(f) + (i - Len(f)) = i
    BY <1>1
  <2>2. t[i] = other[i - Len(f)]
    BY <1>1, <2>1
  <2> QED
    BY <2>1, <2>2, MarkersDiffer DEF Plain
<1>5. BodyAfter(t, id, body, b)
  <2>1. b \in 1..Len(t) /\ t[b] = Begin(id)
    BY <1>1, <1>3 DEF BodyAfter
  <2>2. \A i \in 1..Len(t) : t[i] = Begin(id) => i = b
    BY <1>1, <1>3, <1>4 DEF BodyAfter
  <2>3. b + Len(body) <= Len(t)
    BY <1>1, <1>2, <1>3
  <2>4. \A i \in 1..Len(body) : t[b + i] = body[i]
    <3> SUFFICES ASSUME NEW i \in 1..Len(body) PROVE t[b + i] = body[i]
      OBVIOUS
    <3>1. b + i \in 1..Len(f)
      BY <1>1, <1>2, <1>3
    <3> QED
      BY <1>1, <1>3, <3>1 DEF BodyAfter
  <2> QED
    BY <2>1, <2>2, <2>3, <2>4 DEF BodyAfter
<1>6. b + Len(body) + 1 \in 1..Len(t) /\ t[b + Len(body) + 1] = End(id)
  BY <1>1, <1>2, <1>3
<1>7. \A i \in 1..Len(t) : t[i] = End(id) => i = b + Len(body) + 1
  BY <1>1, <1>2, <1>3, <1>4
<1>8. b \in 1..Len(t)
  BY <1>1
<1> QED
  BY <1>5, <1>6, <1>7, <1>8 DEF HasBody, t

(* A region opens with its begin and its body ...                            *)
LEMMA BodyOpens ==
  ASSUME NEW L, NEW f \in Seq(L), NEW id, Begin(id) \in L, NEW body \in Seq(L), Plain(body),
         Unmarked(f, id)
  PROVE  OpenBody(Append(f, Begin(id)) \o body, id, body)
<1> DEFINE a == Append(f, Begin(id))
           t == a \o body
<1>1. /\ a \in Seq(L) /\ Len(a) = Len(f) + 1 /\ Len(f) \in Nat /\ a[Len(f) + 1] = Begin(id)
      /\ \A i \in 1..Len(f) : a[i] = f[i]
  BY AppendLine
<1> HIDE DEF a
<1>2. /\ t \in Seq(L) /\ Len(t) = Len(a) + Len(body) /\ Len(body) \in Nat
      /\ \A i \in 1..Len(a) : t[i] = a[i]
      /\ \A i \in 1..Len(body) : t[Len(a) + i] = body[i]
  BY <1>1, ConcatLines
<1> HIDE DEF t
<1>3. Len(t) - Len(body) = Len(f) + 1
  BY <1>1, <1>2
<1>4. \A i \in 1..Len(t) : \/ i \in 1..Len(f) /\ t[i] = f[i]
                           \/ i = Len(f) + 1 /\ t[i] = Begin(id)
                           \/ t[i] # Begin(id) /\ t[i] # End(id)
  <2>0. /\ \A i \in 1..Len(f) : t[i] = f[i]
        /\ t[Len(f) + 1] = Begin(id)
    BY <1>1, <1>2
  <2> SUFFICES ASSUME NEW i \in 1..Len(t), i \notin 1..Len(f), i # Len(f) + 1
               PROVE  t[i] # Begin(id) /\ t[i] # End(id)
    BY <2>0
  <2>1. i - Len(a) \in 1..Len(body) /\ Len(a) + (i - Len(a)) = i
    BY <1>1, <1>2
  <2>2. t[i] = body[i - Len(a)]
    BY <1>2, <2>1
  <2> QED
    BY <2>1, <2>2, MarkersDiffer DEF Plain
<1>5. BodyAfter(t, id, body, Len(f) + 1)
  <2>1. Len(f) + 1 \in 1..Len(t) /\ t[Len(f) + 1] = Begin(id)
    BY <1>1, <1>2
  <2>2. \A i \in 1..Len(t) : t[i] = Begin(id) => i = Len(f) + 1
    BY <1>4 DEF Unmarked
  <2>3. Len(f) + 1 + Len(body) <= Len(t) /\ \A i \in 1..Len(body) : t[Len(f) + 1 + i] = body[i]
    BY <1>1, <1>2
  <2> QED
    BY <2>1, <2>2, <2>3 DEF BodyAfter
<1>6. \A i \in 1..Len(t) : t[i] # End(id)
  BY <1>4, MarkersDiffer DEF Unmarked
<1> QED
  BY <1>3, <1>5, <1>6 DEF OpenBody, t, a

(* ... and closes with its end.                                              *)
LEMMA BodyCloses ==
  ASSUME NEW L, NEW f \in Seq(L), NEW id, End(id) \in L, NEW M, NEW body \in Seq(M),
         OpenBody(f, id, body)
  PROVE  HasBody(Append(f, End(id)), id, body)
<1> DEFINE t == Append(f, End(id))
           b == Len(f) - Len(body)
<1>1. /\ t \in Seq(L) /\ Len(t) = Len(f) + 1 /\ Len(f) \in Nat /\ t[Len(f) + 1] = End(id)
      /\ \A i \in 1..Len(f) : t[i] = f[i]
  BY AppendLine
<1>2. Len(body) \in Nat
  OBVIOUS
<1>3. BodyAfter(f, id, body, b) /\ \A i \in 1..Len(f) : f[i] # End(id)
  BY DEF OpenBody
<1> HIDE DEF t
<1>4. b \in 1..Len(f) /\ b + Len(body) + 1 = Len(f) + 1
  BY <1>1, <1>2, <1>3 DEF BodyAfter
<1>5. BodyAfter(t, id, body, b)
  <2>1. b \in 1..Len(t) /\ t[b] = Begin(id)
    BY <1>1, <1>3, <1>4 DEF BodyAfter
  <2>2. \A i \in 1..Len(t) : t[i] = Begin(id) => i = b
    BY <1>1, <1>3, MarkersDiffer DEF BodyAfter
  <2>3. b + Len(body) <= Len(t)
    BY <1>1, <1>2, <1>4
  <2>4. \A i \in 1..Len(body) : t[b + i] = body[i]
    <3> SUFFICES ASSUME NEW i \in 1..Len(body) PROVE t[b + i] = body[i]
      OBVIOUS
    <3>1. b + i \in 1..Len(f)
      BY <1>1, <1>2, <1>4
    <3> QED
      BY <1>1, <1>3, <3>1 DEF BodyAfter
  <2> QED
    BY <2>1, <2>2, <2>3, <2>4 DEF BodyAfter
<1>6. \A i \in 1..Len(t) : t[i] = End(id) => i = b + Len(body) + 1
  BY <1>1, <1>3, <1>4
<1>7. b + Len(body) + 1 \in 1..Len(t) /\ t[b + Len(body) + 1] = End(id) /\ b \in 1..Len(t)
  BY <1>1, <1>4
<1> QED
  BY <1>5, <1>6, <1>7 DEF HasBody, t

(* That is the body that is read.                                            *)
LEMMA BodyIsThere ==
  ASSUME NEW L, NEW f \in Seq(L), NEW id, NEW body \in Seq(L), HasBody(f, id, body)
  PROVE  Body(f, id) = body
<1>1. PICK b \in 1..Len(f) :
        /\ BodyAfter(f, id, body, b)
        /\ b + Len(body) + 1 \in 1..Len(f) /\ f[b + Len(body) + 1] = End(id)
        /\ \A i \in 1..Len(f) : f[i] = End(id) => i = b + Len(body) + 1
  BY DEF HasBody
<1> DEFINE e == b + Len(body) + 1
           B == {i \in 1..Len(f) : f[i] = Begin(id)}
           E == {i \in 1..Len(f) : f[i] = End(id)}
           bb == SelectInSeq(f, LAMBDA line : line = Begin(id))
           ee == SelectInSeq(f, LAMBDA line : line = End(id))
<1>2. B = {b} /\ E = {e}
  BY <1>1 DEF BodyAfter
<1>3. bb = IF B # {} THEN Min(B) ELSE 0
  BY DEF SelectInSeq
<1>4. ee = IF E # {} THEN Min(E) ELSE 0
  BY DEF SelectInSeq
<1>5. Body(f, id) = IF bb = 0 \/ ee = 0 THEN <<>> ELSE SubSeq(f, bb + 1, ee - 1)
  BY DEF Body
<1> HIDE DEF bb, ee, B, E
<1>6. Min({b}) = b /\ Min({e}) = e
  BY <1>1 DEF Min
<1>7. bb = b /\ ee = e /\ b # 0 /\ e # 0
  BY <1>1, <1>2, <1>3, <1>4, <1>6
<1>8. Body(f, id) = SubSeq(f, b + 1, e - 1)
  BY <1>5, <1>7
<1>9. SubSeq(f, b + 1, e - 1) = body
  <2>1. Len(body) \in Nat /\ e - 1 = b + Len(body) /\ e - 1 <= Len(f)
    BY <1>1
  <2> DEFINE s == SubSeq(f, b + 1, e - 1)
  <2>2. s \in Seq(L) /\ Len(s) = Len(body) /\ \A i \in 1..Len(body) : s[i] = f[b + i]
    BY <1>1, <2>1
  <2>3. \A i \in 1..Len(body) : s[i] = body[i]
    BY <1>1, <2>2 DEF BodyAfter
  <2> HIDE DEF s
  <2>4. s = body
    BY <2>2, <2>3
  <2> QED
    BY <2>4 DEF s
<1> QED
  BY <1>8, <1>9
-----------------------------------------------------------------------------
(* What a merge has made when the region o of the file is open and those in  *)
(* s were seen: a file that parses, that another merge with the same bodies  *)
(* leaves as it is, and that has each of them.                               *)

(* The bodies of a merge. *)
Proper(new, L) == Bodies(new, L) /\ PlainBodies(new) /\ Outside \notin DOMAIN new

(* ... a region is open in what is made if it is emitted. *)
OpenIn(new, o) == IF o \in DOMAIN new THEN o ELSE Outside

IsSeen(out, new, o, s) ==
    Parses(out, [open |-> OpenIn(new, o), seen |-> s \cap DOMAIN new, error |-> "none"])
IsSame(out, new, o) == Rewrites(out, new, [out |-> out, inside |-> (o \in DOMAIN new)])
AreBodies(out, new, o, s) ==
    \A id \in s \cap DOMAIN new :
      IF id = o THEN OpenBody(out, id, new[id]) ELSE HasBody(out, id, new[id])

Made(L, out, new, o, s) ==
    /\ out \in Seq(L)
    /\ IsSeen(out, new, o, s) /\ IsSame(out, new, o)
    /\ MarkersOf(out, s \cap DOMAIN new) /\ AreBodies(out, new, o, s)

(* It starts with nothing.                                                   *)
LEMMA MadeFirst ==
  ASSUME NEW L, NEW new, Proper(new, L)
  PROVE  Made(L, <<>>, new, Outside, {})
<1> DEFINE e == <<>>
           p0 == [open |-> Outside, seen |-> {}, error |-> "none"]
           w0 == [out |-> e, inside |-> FALSE]
<1>1. e \in Seq(L) /\ Len(e) = 0
  OBVIOUS
<1>2. Outside \notin DOMAIN new
  BY DEF Proper
<1>3. Parses(e, p0)
  <2> DEFINE P == [n \in {0} |-> p0]
  <2>1. P[0] = p0
    OBVIOUS
  <2> HIDE DEF P, e
  <2>2. IsParse(P, e)
    BY <1>1, <2>1 DEF IsParse
  <2> QED
    BY <1>1, <2>1, <2>2 DEF Parses
<1>4. Rewrites(e, new, w0)
  <2> DEFINE W == [n \in {0} |-> w0]
  <2>1. W[0] = w0
    OBVIOUS
  <2>2. w0 = [out |-> <<>>, inside |-> FALSE]
    OBVIOUS
  <2> HIDE DEF W, e
  <2>3. IsMerge(W, e, new)
    BY <1>1, <2>1, <2>2 DEF IsMerge
  <2> QED
    BY <1>1, <2>1, <2>3 DEF Rewrites
<1>5. /\ {} \cap DOMAIN new = {} /\ OpenIn(new, Outside) = Outside
      /\ (Outside \in DOMAIN new) = FALSE
  BY <1>2 DEF OpenIn
<1> HIDE DEF e
<1>6. IsSeen(e, new, Outside, {}) /\ IsSame(e, new, Outside)
  BY <1>3, <1>4, <1>5 DEF IsSeen, IsSame
<1>7. MarkersOf(e, {} \cap DOMAIN new) /\ AreBodies(e, new, Outside, {})
  BY <1>1 DEF MarkersOf, AreBodies
<1> QED
  BY <1>1, <1>6, <1>7 DEF Made, e

(* A line outside the regions ...                                            *)
LEMMA MadeLine ==
  ASSUME NEW L, NEW new, Proper(new, L), NEW line \in L, ~IsMarker(line), NEW s, NEW out,
         Made(L, out, new, Outside, s)
  PROVE  Made(L, Append(out, line), new, Outside, s)
<1> DEFINE a == Append(out, line)
           p0 == [open |-> Outside, seen |-> s \cap DOMAIN new, error |-> "none"]
<1>1. OpenIn(new, Outside) = Outside /\ (Outside \in DOMAIN new) = FALSE
  BY DEF Proper, OpenIn
<1>2. out \in Seq(L) /\ Parses(out, p0) /\ Rewrites(out, new, [out |-> out, inside |-> FALSE])
  BY <1>1 DEF Made, IsSeen, IsSame
<1>3. Parses(a, p0)
  <2>1. ParseLine(line, p0) = p0
    BY DEF ParseLine
  <2> HIDE DEF p0
  <2> QED
    BY <1>2, <2>1, ParsesAppend
<1>4. Rewrites(a, new, [out |-> a, inside |-> FALSE])
  <2> DEFINE w0 == [out |-> out, inside |-> FALSE]
  <2>1. MergeLine(line, w0, new) = [out |-> a, inside |-> FALSE]
    BY DEF MergeLine, IsMarker
  <2> HIDE DEF w0, a
  <2>2. Rewrites(Append(out, line), new, MergeLine(line, w0, new))
    BY <1>2, RewritesAppend DEF w0
  <2> QED
    BY <2>1, <2>2 DEF a
<1>5. MarkersOf(a, s \cap DOMAIN new)
  BY <1>2, MarkersAppend DEF Made
<1>6. AreBodies(a, new, Outside, s)
  <2> SUFFICES ASSUME NEW id \in s \cap DOMAIN new PROVE HasBody(a, id, new[id])
    BY <1>1 DEF AreBodies
  <2>1. HasBody(out, id, new[id]) /\ new[id] \in Seq(L)
    BY <1>1 DEF Made, AreBodies, Proper, Bodies
  <2>2. line # Begin(id) /\ line # End(id)
    BY MarkersDiffer
  <2> QED
    BY <1>2, <2>1, <2>2, HasBodyAppend
<1>7. a \in Seq(L)
  BY <1>2
<1> HIDE DEF a
<1>8. IsSeen(a, new, Outside, s) /\ IsSame(a, new, Outside)
  BY <1>1, <1>3, <1>4 DEF IsSeen, IsSame
<1> QED
  BY <1>5, <1>6, <1>7, <1>8 DEF Made, a

(* ... the begin of a region that is emitted, with its new body ...          *)
LEMMA MadeOpens ==
  ASSUME NEW L, NEW new, Proper(new, L), NEW id \in DOMAIN new, Begin(id) \in L,
         NEW s, id \notin s, NEW out, Made(L, out, new, Outside, s)
  PROVE  Made(L, Append(out, Begin(id)) \o new[id], new, id, s \cup {id})
<1> DEFINE a == Append(out, Begin(id))
           body == new[id]
           b == a \o body
           p0 == [open |-> Outside, seen |-> s \cap DOMAIN new, error |-> "none"]
           p1 == [open |-> id, seen |-> (s \cup {id}) \cap DOMAIN new, error |-> "none"]
           w0 == [out |-> out, inside |-> FALSE]
           w1 == [out |-> b, inside |-> TRUE]
<1>1. OpenIn(new, Outside) = Outside /\ (Outside \in DOMAIN new) = FALSE /\ id # Outside
      /\ OpenIn(new, id) = id /\ (id \in DOMAIN new) = TRUE
  BY DEF Proper, OpenIn
<1>2. out \in Seq(L) /\ Parses(out, p0) /\ Rewrites(out, new, w0)
  BY <1>1 DEF Made, IsSeen, IsSame
<1>3. body \in Seq(L) /\ Plain(body)
  BY DEF Proper, Bodies, PlainBodies
<1>4. a \in Seq(L)
  BY <1>2
<1>5. b \in Seq(L)
  <2> HIDE DEF a, body
  <2> QED
    BY <1>3, <1>4
<1>6. Parses(b, p1)
  <2>1. ParseLine(Begin(id), p0) = p1
    <3>1. /\ IsMarker(Begin(id)) /\ Begin(id)[1] = "begin" /\ Begin(id)[2] = id
          /\ id \notin p0.seen /\ p0.open = Outside /\ p0.error = "none"
      BY MarkersDiffer
    <3>2. ParseLine(Begin(id), p0) = [p0 EXCEPT !.open = id, !.seen = @ \cup {id}]
      BY <3>1 DEF ParseLine
    <3>3. (s \cap DOMAIN new) \cup {id} = (s \cup {id}) \cap DOMAIN new
      OBVIOUS
    <3> QED
      BY <3>2, <3>3
  <2> HIDE DEF p0, p1, body
  <2>2. Parses(a, p1)
    BY <1>2, <2>1, ParsesAppend
  <2> HIDE DEF a
  <2> QED
    BY <1>3, <1>4, <2>2, ParsesBody
<1>7. Rewrites(b, new, w1)
  <2>1. MergeLine(Begin(id), w0, new) = w1
    BY MarkersDiffer DEF MergeLine
  <2>2. w1.inside
    OBVIOUS
  <2> HIDE DEF w0, w1, body
  <2>3. Rewrites(a, new, w1)
    BY <1>2, <2>1, RewritesAppend
  <2> HIDE DEF a
  <2> QED
    BY <1>3, <1>4, <2>2, <2>3, RewritesBody
<1>8. MarkersOf(out, s \cap DOMAIN new)
  BY DEF Made
<1>9. MarkersOf(b, (s \cup {id}) \cap DOMAIN new)
  <2> DEFINE ids == (s \cup {id}) \cap DOMAIN new
  <2>1. (s \cap DOMAIN new) \subseteq ids /\ id \in ids
    OBVIOUS
  <2> HIDE DEF ids, body
  <2>2. MarkersOf(out, ids)
    BY <1>8, <2>1, MarkersMore
  <2>3. MarkersOf(a, ids)
    BY <1>2, <2>1, <2>2, MarkersAppend, MarkersDiffer
  <2> HIDE DEF a
  <2>4. \A i \in 1..Len(b) : (i \in 1..Len(a) /\ b[i] = a[i]) \/ ~IsMarker(b[i])
    <3>1. /\ Len(b) = Len(a) + Len(body) /\ Len(a) \in Nat /\ Len(body) \in Nat
          /\ \A i \in 1..Len(a) : b[i] = a[i]
          /\ \A i \in 1..Len(body) : b[Len(a) + i] = body[i]
      BY <1>3, <1>4, ConcatLines
    <3> HIDE DEF b
    <3> SUFFICES ASSUME NEW i \in 1..Len(b), i \notin 1..Len(a) PROVE ~IsMarker(b[i])
      BY <3>1
    <3>2. i - Len(a) \in 1..Len(body) /\ Len(a) + (i - Len(a)) = i
      BY <3>1
    <3>3. b[i] = body[i - Len(a)]
      BY <3>1, <3>2
    <3> QED
      BY <1>3, <3>2, <3>3 DEF Plain
  <2> HIDE DEF b
  <2> QED
    BY <2>3, <2>4 DEF MarkersOf, ids
<1>10. AreBodies(b, new, id, s \cup {id})
  <2>1. Unmarked(out, id)
    <3>1. id \notin s \cap DOMAIN new
      OBVIOUS
    <3> QED
      BY <1>8, <3>1, MarkersDiffer DEF Unmarked, MarkersOf
  <2>2. OpenBody(b, id, body)
    BY <1>2, <1>3, <2>1, BodyOpens
  <2>3. ASSUME NEW x \in (s \cup {id}) \cap DOMAIN new, x # id PROVE HasBody(b, x, new[x])
    <3>1. HasBody(out, x, new[x]) /\ new[x] \in Seq(L)
      BY <1>1, <2>3 DEF Made, AreBodies, Proper, Bodies
    <3>2. Begin(id) # Begin(x) /\ Begin(id) # End(x)
      BY <2>3, MarkersDiffer
    <3>3. HasBody(a, x, new[x])
      BY <1>2, <3>1, <3>2, HasBodyAppend
    <3> HIDE DEF a, body
    <3> QED
      BY <1>3, <1>4, <3>1, <3>3, HasBodyConcat
  <2> HIDE DEF b
  <2> QED
    BY <2>2, <2>3 DEF AreBodies
<1> HIDE DEF b
<1>11. IsSeen(b, new, id, s \cup {id}) /\ IsSame(b, new, id)
  BY <1>1, <1>6, <1>7 DEF IsSeen, IsSame
<1> QED
  BY <1>5, <1>9, <1>10, <1>11 DEF Made, b

(* ... and its end.                                                          *)
LEMMA MadeCloses ==
  ASSUME NEW L, NEW new, Proper(new, L), NEW id \in DOMAIN new, End(id) \in L,
         NEW s, id \in s, NEW out, Made(L, out, new, id, s)
  PROVE  Made(L, Append(out, End(id)), new, Outside, s)
<1> DEFINE a == Append(out, End(id))
           p0 == [open |-> id, seen |-> s \cap DOMAIN new, error |-> "none"]
           p1 == [open |-> Outside, seen |-> s \cap DOMAIN new, error |-> "none"]
           w0 == [out |-> out, inside |-> TRUE]
           w1 == [out |-> a, inside |-> FALSE]
<1>1. OpenIn(new, Outside) = Outside /\ (Outside \in DOMAIN new) = FALSE /\ id # Outside
      /\ OpenIn(new, id) = id /\ (id \in DOMAIN new) = TRUE
  BY DEF Proper, OpenIn
<1>2. out \in Seq(L) /\ Parses(out, p0) /\ Rewrites(out, new, w0)
  BY <1>1 DEF Made, IsSeen, IsSame
<1>3. a \in Seq(L)
  BY <1>2
<1>4. Parses(a, p1)
  <2>1. ParseLine(End(id), p0) = p1
    <3>1. /\ IsMarker(End(id)) /\ End(id)[1] = "end" /\ End(id)[2] = id
          /\ p0.open = id /\ p0.error = "none"
      BY MarkersDiffer
    <3>2. ParseLine(End(id), p0) = [p0 EXCEPT !.open = Outside]
      BY <1>1, <3>1 DEF ParseLine
    <3> QED
      BY <3>2
  <2> HIDE DEF p0, p1
  <2> QED
    BY <1>2, <2>1, ParsesAppend
<1>5. Rewrites(a, new, w1)
  <2>1. MergeLine(End(id), w0, new) = w1
    BY MarkersDiffer DEF MergeLine
  <2> HIDE DEF w0, w1
  <2> QED
    BY <1>2, <2>1, RewritesAppend
<1>6. MarkersOf(a, s \cap DOMAIN new)
  BY <1>2, MarkersAppend, MarkersDiffer DEF Made
<1>7. AreBodies(a, new, Outside, s)
  <2> SUFFICES ASSUME NEW x \in s \cap DOMAIN new PROVE HasBody(a, x, new[x])
    BY <1>1 DEF AreBodies
  <2>1. new[x] \in Seq(L)
    BY DEF Proper, Bodies
  <2>2. CASE x = id
    <3>1. OpenBody(out, x, new[x])
      BY <2>2 DEF Made, AreBodies
    <3> QED
      BY <1>2, <2>1, <2>2, <3>1, BodyCloses
  <2>3. CASE x # id
    <3>1. HasBody(out, x, new[x])
      BY <2>3 DEF Made, AreBodies
    <3>2. End(id) # Begin(x) /\ End(id) # End(x)
      BY <2>3, MarkersDiffer
    <3> QED
      BY <1>2, <2>1, <3>1, <3>2, HasBodyAppend
  <2> QED
    BY <2>2, <2>3
<1> HIDE DEF a
<1>8. IsSeen(a, new, Outside, s) /\ IsSame(a, new, Outside)
  BY <1>1, <1>4, <1>5 DEF IsSeen, IsSame
<1> QED
  BY <1>3, <1>6, <1>7, <1>8 DEF Made, a

(* A region that is not emitted is as if it were not there.                  *)
LEMMA MadeSkips ==
  ASSUME NEW L, NEW new, Proper(new, L), NEW id, id \notin DOMAIN new, NEW s, NEW out
  PROVE  /\ Made(L, out, new, Outside, s) => Made(L, out, new, id, s \cup {id})
         /\ Made(L, out, new, id, s) => Made(L, out, new, Outside, s)
         /\ Made(L, out, new, Outside, s) => Made(L, out, new, Outside, s \cup {id})
<1>1. /\ OpenIn(new, Outside) = Outside /\ (Outside \in DOMAIN new) = FALSE
      /\ OpenIn(new, id) = Outside /\ (id \in DOMAIN new) = FALSE
      /\ (s \cup {id}) \cap DOMAIN new = s \cap DOMAIN new
  BY DEF Proper, OpenIn
<1>2. /\ IsSeen(out, new, Outside, s) <=> IsSeen(out, new, id, s \cup {id})
      /\ IsSeen(out, new, Outside, s) <=> IsSeen(out, new, id, s)
      /\ IsSeen(out, new, Outside, s) <=> IsSeen(out, new, Outside, s \cup {id})
  BY <1>1 DEF IsSeen
<1>3. IsSame(out, new, Outside) <=> IsSame(out, new, id)
  BY <1>1 DEF IsSame
<1>4. /\ AreBodies(out, new, Outside, s) <=> AreBodies(out, new, id, s \cup {id})
      /\ AreBodies(out, new, Outside, s) <=> AreBodies(out, new, id, s)
      /\ AreBodies(out, new, Outside, s) <=> AreBodies(out, new, Outside, s \cup {id})
  BY <1>1 DEF AreBodies
<1> QED
  BY <1>1, <1>2, <1>3, <1>4 DEF Made
(* One line of the file.                                                     *)
LEMMA MadeStep ==
  ASSUME NEW L, IsLines(L), NEW line \in L, NEW new, Proper(new, L),
         NEW o, NEW s, NEW p, NEW t, Follows(line, o, s, p, t), o # Outside => o \in s,
         NEW out, NEW out2, Merges(line, o, new, out, out2), Made(L, out, new, o, s)
  PROVE  Made(L, out2, new, p, t)
<1>0. line = <<line[1], line[2]>>
  BY DEF IsLines
<1>1. CASE line[1] = "begin"
  <2>1. o = Outside /\ line[2] \notin s /\ p = line[2] /\ t = s \cup {line[2]}
    BY <1>1 DEF Follows
  <2>2. CASE line[2] \in DOMAIN new
    <3>1. out2 = Append(out, line) \o new[line[2]]
      BY <1>1, <2>2 DEF Merges, IsMarker
    <3>2. line = Begin(line[2])
      BY <1>0, <1>1 DEF Begin
    <3> QED
      BY <2>1, <2>2, <3>1, <3>2, MadeOpens
  <2>3. CASE line[2] \notin DOMAIN new
    <3>1. out2 = out
      BY <1>1, <2>3 DEF Merges, IsMarker
    <3> QED
      BY <2>1, <2>3, <3>1, MadeSkips
  <2> QED
    BY <2>2, <2>3
<1>2. CASE line[1] = "end"
  <2>1. o = line[2] /\ p = Outside /\ t = s /\ line[2] \in s
    BY <1>2 DEF Follows, IsLines, IsMarker
  <2>2. CASE line[2] \in DOMAIN new
    <3>1. out2 = Append(out, line)
      BY <1>2, <2>2 DEF Merges
    <3>2. line = End(line[2])
      BY <1>0, <1>2 DEF End
    <3> QED
      BY <2>1, <2>2, <3>1, <3>2, MadeCloses
  <2>3. CASE line[2] \notin DOMAIN new
    <3>1. out2 = out
      BY <1>2, <2>3 DEF Merges, IsMarker
    <3> QED
      BY <2>1, <2>3, <3>1, MadeSkips
  <2> QED
    BY <2>2, <2>3
<1>3. CASE line[1] # "begin" /\ line[1] # "end"
  <2>1. p = o /\ t = s /\ ~IsMarker(line)
    BY <1>3 DEF Follows, IsMarker
  <2>2. CASE o = Outside
    <3>1. out2 = Append(out, line)
      BY <1>3, <2>1, <2>2 DEF Merges
    <3> QED
      BY <2>1, <2>2, <3>1, MadeLine
  <2>3. CASE o # Outside
    <3>1. out2 = out
      BY <1>3, <2>1, <2>3 DEF Merges
    <3> QED
      BY <2>1, <3>1
  <2> QED
    BY <2>2, <2>3
<1> QED
  BY <1>1, <1>2, <1>3

(* All of them.                                                              *)
LEMMA MergeWalkMakes ==
  ASSUME NEW L, IsLines(L), NEW file \in Seq(L), NEW new, Proper(new, L), WellFormed(file)
  PROVE  Made(L, MergeWalk(file, new), new, Outside, RegionIds(file))
<1> DEFINE N == Len(file)
<1>1. PICK open \in [0..N -> Ids(L)], seen \in [0..N -> SUBSET Ids(L)] : Good(open, seen, file)
  BY GoodParse
<1>2. PICK W \in [0..N -> Merged(L)] :
        IsMerge(W, file, new) /\ MergeWalk(file, new) = W[N].out
  BY MergeWalks DEF Proper
<1> DEFINE Now(n) == /\ IsInside(W[n]) <=> open[n] # Outside
                     /\ Made(L, W[n].out, new, open[n], seen[n])
           T == {n \in Nat : n <= N => Now(n)}
<1>3. N \in Nat
  OBVIOUS
<1>4. 0 \in T
  <2>1. W[0].out = <<>> /\ ~IsInside(W[0])
    BY <1>2 DEF IsMerge, IsInside
  <2>2. open[0] = Outside /\ seen[0] = {}
    BY <1>1 DEF Good
  <2> QED
    BY <2>1, <2>2, MadeFirst
<1>5. ASSUME NEW n \in Nat, n \in T PROVE n + 1 \in T
  <2>1. SUFFICES ASSUME n + 1 <= N PROVE Now(n + 1)
    OBVIOUS
  <2>2. n \in 0..N /\ n + 1 \in 0..N /\ n + 1 \in 1..N /\ (n + 1) - 1 = n
    BY <2>1, <1>3
  <2>3. Now(n)
    BY <1>5, <2>2
  <2>4. file[n + 1] \in L
    BY <2>2
  <2>5. Follows(file[n + 1], open[n], seen[n], open[n + 1], seen[n + 1])
    BY <1>1, <2>2 DEF Good
  <2>6. W[n + 1] = MergeLine(file[n + 1], W[n], new)
    BY <1>2, <2>2 DEF IsMerge
  <2>7. W[n] \in Merged(L) /\ W[n + 1] \in Merged(L)
    BY <2>2
  <2>8. /\ IsInside(W[n + 1]) <=> open[n + 1] # Outside
        /\ Merges(file[n + 1], open[n], new, W[n].out, W[n + 1].out)
    BY <2>3, <2>4, <2>5, <2>6, <2>7, MergesLine
  <2>9. open[n] # Outside => open[n] \in seen[n]
    BY <1>1, <2>2, Opened
  <2>10. Made(L, W[n + 1].out, new, open[n + 1], seen[n + 1])
    <3> DEFINE line == file[n + 1]
               o == open[n]
               s == seen[n]
               p == open[n + 1]
               t == seen[n + 1]
               u == W[n].out
               v == W[n + 1].out
    <3>1. line \in L /\ Made(L, u, new, o, s) /\ (o # Outside => o \in s)
      BY <2>3, <2>4, <2>9
    <3>2. Follows(line, o, s, p, t) /\ Merges(line, o, new, u, v)
      BY <2>5, <2>8
    <3> HIDE DEF line, o, s, p, t, u, v
    <3>3. Made(L, v, new, p, t)
      BY <3>1, <3>2, MadeStep
    <3> QED
      BY <3>3 DEF p, t, v
  <2> QED
    BY <2>8, <2>10
<1>6. N \in T
  <2> HIDE DEF T, N
  <2> QED
    BY <1>3, <1>4, <1>5, NatBySets
<1>7. open[N] = Outside /\ seen[N] = RegionIds(file)
  BY <1>1 DEF Good
<1> QED
  BY <1>2, <1>3, <1>6, <1>7

(* A region that is new.                                                     *)
LEMMA AddedMakes ==
  ASSUME NEW L, IsLines(L), NEW file, NEW new, Proper(new, L), NEW id,
         Begin(id) \in L, End(id) \in L, NEW out, NEW ids,
         id \notin ids \/ id \in RegionIds(file), RegionIds(file) \subseteq ids,
         Made(L, out, new, Outside, ids)
  PROVE  Made(L, Added(file, new, id, out), new, Outside, ids \cup {id})
<1>1. CASE id \in RegionIds(file)
  <2>1. Added(file, new, id, out) = out
    BY <1>1 DEF Added
  <2>2. ids \cup {id} = ids
    BY <1>1
  <2> QED
    BY <2>1, <2>2
<1>2. CASE id \notin DOMAIN new
  <2>1. Added(file, new, id, out) = out
    BY <1>2 DEF Added
  <2> QED
    BY <1>2, <2>1, MadeSkips
<1>3. CASE id \in DOMAIN new /\ id \notin RegionIds(file)
  <2> DEFINE b == Append(out, Begin(id)) \o new[id]
             c == Append(b, End(id))
  <2>1. Made(L, b, new, id, ids \cup {id})
    BY <1>3, MadeOpens
  <2>2. out \in Seq(L) /\ new[id] \in Seq(L)
    BY <1>3 DEF Made, Proper, Bodies
  <2>3. Added(file, new, id, out) = c
    BY <1>3, <2>2 DEF Added
  <2> HIDE DEF b
  <2>4. Made(L, c, new, Outside, ids \cup {id})
    BY <1>3, <2>1, MadeCloses
  <2> QED
    BY <2>3, <2>4
<1> QED
  BY <1>1, <1>2, <1>3

-----------------------------------------------------------------------------
(* A file as it is after a merge with these bodies.                          *)
Fits(file, new) ==
    \E L : IsLines(L) /\ Proper(new, L) /\ Made(L, file, new, Outside, DOMAIN new)

(* It parses, has the regions that were merged and no other, each with its   *)
(* body, and merging them again changes nothing.                             *)
LEMMA FitsAll ==
  ASSUME NEW file, NEW new, Fits(file, new)
  PROVE  /\ WellFormed(file) /\ RegionIds(file) = DOMAIN new
         /\ \A id \in DOMAIN new : Body(file, id) = new[id]
         /\ MergeFilled(file, new) = file
<1>1. PICK L : IsLines(L) /\ Proper(new, L) /\ Made(L, file, new, Outside, DOMAIN new)
  BY DEF Fits
<1>2. OpenIn(new, Outside) = Outside /\ (Outside \in DOMAIN new) = FALSE
      /\ (DOMAIN new) \cap DOMAIN new = DOMAIN new
  BY <1>1 DEF Proper, OpenIn
<1> DEFINE p0 == [open |-> Outside, seen |-> DOMAIN new, error |-> "none"]
           w0 == [out |-> file, inside |-> FALSE]
<1>3. file \in Seq(L) /\ Parses(file, p0) /\ Rewrites(file, new, w0)
  BY <1>1, <1>2 DEF Made, IsSeen, IsSame
<1>4. ParseRegions(file) = p0
  <2>1. PICK P \in [0..Len(file) -> Parsed(L)] :
          /\ IsParse(P, file)
          /\ ParseRegions(file) =
               IF P[Len(file)].error = "none" /\ P[Len(file)].open # Outside
               THEN [P[Len(file)] EXCEPT !.error = "unclosed"] ELSE P[Len(file)]
    BY <1>3, ParseWalk
  <2>2. Parses(file, P[Len(file)])
    BY <2>1 DEF Parses
  <2>3. P[Len(file)] = p0
    <3> HIDE DEF p0
    <3> QED
      BY <1>3, <2>2, ParsesOnce
  <2>4. p0.open = Outside
    OBVIOUS
  <2> HIDE DEF p0
  <2> QED
    BY <2>1, <2>3, <2>4
<1>5. WellFormed(file) /\ RegionIds(file) = DOMAIN new
  BY <1>4 DEF WellFormed, RegionIds
<1>6. MergeWalk(file, new) = file
  <2>1. PICK W \in [0..Len(file) -> Merged(L)] :
          IsMerge(W, file, new) /\ MergeWalk(file, new) = W[Len(file)].out
    BY <1>1, <1>3, MergeWalks DEF Proper
  <2>2. Rewrites(file, new, W[Len(file)])
    BY <2>1 DEF Rewrites
  <2>3. W[Len(file)] = w0
    <3> HIDE DEF w0
    <3> QED
      BY <1>3, <2>2, RewritesOnce
  <2> QED
    BY <2>1, <2>3
<1>7. \A id, out : Added(file, new, id, out) = out
  BY <1>5 DEF Added
<1>8. MergeFilled(file, new) = file
  BY <1>6, <1>7 DEF MergeFilled
<1>9. ASSUME NEW id \in DOMAIN new PROVE Body(file, id) = new[id]
  <2>1. HasBody(file, id, new[id]) /\ new[id] \in Seq(L)
    BY <1>1, <1>2 DEF Made, AreBodies, Proper, Bodies
  <2> QED
    BY <1>3, <2>1, BodyIsThere
<1> QED
  BY <1>5, <1>8, <1>9
(* A file that was merged fits ...                                           *)
LEMMA FilledFits ==
  ASSUME NEW file, IsText(file), WellFormed(file),
         NEW new, \A id \in DOMAIN new : Generated(new[id]), DOMAIN new \subseteq MergedIds
  PROVE  Fits(MergeFilled(file, new), new)
<1>1. PICK K : IsLines(K) /\ file \in Seq(K)
  BY DEF IsText
<1>2. PICK L : /\ IsLines(L) /\ K \subseteq L /\ Bodies(new, L) /\ PlainBodies(new)
               /\ \A id \in MergedIds : Begin(id) \in L /\ End(id) \in L
  BY <1>1, MergedLines
<1>3. Proper(new, L)
  BY <1>2 DEF Proper, MergedIds, Outside
<1>4. file \in Seq(L)
  BY <1>1, <1>2
<1> DEFINE ids == RegionIds(file)
           m0 == MergeWalk(file, new)
           m1 == Added(file, new, "mods", m0)
           m2 == Added(file, new, "module_decls", m1)
           m3 == Added(file, new, "routes", m2)
<1>5. Made(L, m0, new, Outside, ids)
  BY <1>2, <1>4, <1>3, MergeWalkMakes
<1>6. Made(L, m1, new, Outside, ids \cup {"mods"})
  <2>1. ("mods" \notin ids \/ "mods" \in RegionIds(file)) /\ RegionIds(file) \subseteq ids
    OBVIOUS
  <2>2. Begin("mods") \in L /\ End("mods") \in L
    BY <1>2 DEF MergedIds
  <2> HIDE DEF m0, ids
  <2> QED
    BY <1>2, <1>5, <1>3, <2>1, <2>2, AddedMakes
<1>7. Made(L, m2, new, Outside, (ids \cup {"mods"}) \cup {"module_decls"})
  <2> DEFINE more == ids \cup {"mods"}
  <2>1. /\ "module_decls" \notin more \/ "module_decls" \in RegionIds(file)
        /\ RegionIds(file) \subseteq more
    OBVIOUS
  <2>2. Begin("module_decls") \in L /\ End("module_decls") \in L
    BY <1>2 DEF MergedIds
  <2>3. Made(L, m1, new, Outside, more)
    BY <1>6
  <2> HIDE DEF m1, more
  <2>4. Made(L, m2, new, Outside, more \cup {"module_decls"})
    BY <1>2, <1>3, <2>1, <2>2, <2>3, AddedMakes
  <2> QED
    BY <2>4 DEF more
<1>8. Made(L, m3, new, Outside, ((ids \cup {"mods"}) \cup {"module_decls"}) \cup {"routes"})
  <2> DEFINE more == (ids \cup {"mods"}) \cup {"module_decls"}
  <2>1. /\ "routes" \notin more \/ "routes" \in RegionIds(file)
        /\ RegionIds(file) \subseteq more
    OBVIOUS
  <2>2. Begin("routes") \in L /\ End("routes") \in L
    BY <1>2 DEF MergedIds
  <2>3. Made(L, m2, new, Outside, more)
    BY <1>7
  <2> HIDE DEF m2, more
  <2>4. Made(L, m3, new, Outside, more \cup {"routes"})
    BY <1>2, <1>3, <2>1, <2>2, <2>3, AddedMakes
  <2> QED
    BY <2>4 DEF more
<1>9. MergeFilled(file, new) = m3
  BY DEF MergeFilled
<1> DEFINE all == ((ids \cup {"mods"}) \cup {"module_decls"}) \cup {"routes"}
<1>10. all \cap DOMAIN new = (DOMAIN new) \cap DOMAIN new
  BY DEF MergedIds
<1> HIDE DEF m3, all
<1>11. Made(L, m3, new, Outside, all)
  BY <1>8 DEF all
<1>12. Made(L, m3, new, Outside, DOMAIN new)
  BY <1>10, <1>11 DEF Made, IsSeen, IsSame, AreBodies
<1> QED
  BY <1>2, <1>9, <1>12, <1>3 DEF Fits

(* ... its bodies, when none of them is empty, and their blank lines.        *)
LEMMA MergeFits ==
  ASSUME NEW file, IsText(file), WellFormed(file),
         NEW new, \A id \in DOMAIN new : Generated(new[id]), DOMAIN new \subseteq MergedIds
  PROVE  Fits(Merge(file, new), Filled(new))
<1> DEFINE full == Filled(new)
<1>1. (\A id \in DOMAIN full : Generated(full[id])) /\ DOMAIN full \subseteq MergedIds
  BY FilledGenerated
<1> HIDE DEF full
<1>2. Fits(MergeFilled(file, full), full)
  BY <1>1, FilledFits
<1> QED
  BY <1>2 DEF Merge, full

(* What fits is merged to itself.                                            *)
LEMMA FitsStays ==
  ASSUME NEW file, NEW new, Fits(file, Filled(new))
  PROVE  WellFormed(file) /\ Merge(file, new) = file
  BY FitsAll DEF Merge
-----------------------------------------------------------------------------
(* What the generator puts between the markers.                              *)

(* A declaration is a line,                                                  *)
LEMMA ModLines == \A y : Mod(y) = <<Mod(y)[1], Mod(y)[2]>> /\ Mod(y)[1] = "mod"
  BY DEF Mod

(* ... of a folder as well.                                                  *)
LEMMA FolderLines == \A x : Folder(x) = <<Folder(x)[1], Folder(x)[2]>> /\ Folder(x)[1] = "mod"
<1>1. \A x : \E y : Folder(x) = Mod(y)
  BY Zenon DEF Folder
<1> QED
  BY <1>1, ModLines

(* The declarations of folders are a body;                                   *)
LEMMA FoldersGenerated ==
  ASSUME NEW names, NEW X, NEW sorted \in Seq(X)
  PROVE  Generated(Declare(names, sorted))
<1> DEFINE here == Those(sorted, names)
           body == [i \in DOMAIN here |-> Folder(here[i])]
           G    == {Folder(x) : x \in X}
<1>1. here \in Seq(X)
  BY ThoseMembers
<1> HIDE DEF here
<1>2. body \in Seq(G)
  BY <1>1
<1>3. \A x \in G : x = <<x[1], x[2]>> /\ x[1] = "mod"
  BY FolderLines
<1>4. IsLines(G)
  BY <1>3 DEF IsLines, IsMarker
<1>5. ASSUME NEW i \in 1..Len(body) PROVE body[i][1] # "text" /\ ~IsMarker(body[i])
  <2>1. body[i] \in G
    BY <1>2
  <2> QED
    BY <1>3, <2>1 DEF IsMarker
<1>6. Declare(names, sorted) = body
  BY DEF Declare, here
<1> HIDE DEF body, G
<1>7. Plain(body)
  BY <1>5 DEF Plain
<1> QED
  BY <1>2, <1>4, <1>6, <1>7, GeneratedIn

SortedNames == ToSet(SortedDirs) \cup ToSet(SortedSlugs)

(* the names that are sorted are lists;                                      *)
LEMMA SortedSeqs == SortedDirs \in Seq(SortedNames) /\ SortedSlugs \in Seq(SortedNames)
<1>1. SortedSlugs \in Seq(SortedNames)
  BY PackagesAssumption DEF SortedNames, ToSet, Range
<1>2. SortedDirs \in Seq(SortedNames)
  BY DEF SortedDirs, SortedNames, ToSet
<1> QED
  BY <1>1, <1>2

(* The declarations of the files of every project.                           *)
GivenDecls == [i \in DOMAIN Given |-> Folder(Given[i])]

(* They are the two given names, as folders.                                 *)
LEMMA GivenAre ==
    /\ GivenDecls = <<Folder("errors"), Folder("debug")>>
    /\ Given \in Seq(Range(Given)) /\ Range(Given) = {"errors", "debug"}
<1>1. DOMAIN Given = {1, 2} /\ Given[1] = "errors" /\ Given[2] = "debug" /\ Len(Given) = 2
  BY DEF Given
<1>2. Range(Given) = {"errors", "debug"}
  BY <1>1 DEF Range
<1>3. Given \in Seq(Range(Given))
  BY <1>1 DEF Range, Given
<1>4. GivenDecls = <<Folder("errors"), Folder("debug")>>
  BY DEF GivenDecls, Given
<1> QED
  BY <1>2, <1>3, <1>4

(* the declarations of lib.rs are a body,                                    *)
LEMMA LibDeclsGenerated == \A g, pk : Generated(LibDecls(g, pk))
<1> SUFFICES ASSUME NEW g, NEW pk PROVE Generated(LibDecls(g, pk))
  OBVIOUS
<1> DEFINE a == <<Folder("errors"), Folder("debug")>>
           b == Declare(Range(Dirs(g)), SortedDirs)
           c == Declare(Children(pk, Lib) \ (Range(Dirs(g)) \cup Range(Given)), SortedSlugs)
<1>1. Generated(a)
  <2>1. a \in Seq({Folder("errors"), Folder("debug")}) /\ Len(a) = 2
    OBVIOUS
  <2>2. IsLines({Folder("errors"), Folder("debug")})
    BY FolderLines DEF IsLines, IsMarker
  <2>3. Plain(a)
    BY FolderLines DEF Plain, IsMarker
  <2> HIDE DEF a
  <2> QED
    BY <2>1, <2>2, <2>3, GeneratedIn
<1>2. Generated(b) /\ Generated(c)
  BY FoldersGenerated, SortedSeqs
<1>3. LibDecls(g, pk) = (a \o b) \o c
  BY GivenAre DEF LibDecls, GivenDecls
<1> HIDE DEF a, b, c
<1> QED
  BY <1>1, <1>2, <1>3, GeneratedConcat

(* The walks of a graph with a list of nodes are a list.                     *)
LEMMA WalksAreASeq ==
  ASSUME NEW g, IsGraph(g)
  PROVE  /\ OfType(g, "http.route") \in Seq(NodesOf(g))
         /\ Walks(g) \in Seq({Walk(g, n) : n \in NodesOf(g)})
<1>1. OfType(g, "http.route") \in Seq(NodesOf(g))
  BY ThoseMembers DEF OfType, IsGraph
<1> DEFINE s == OfType(g, "http.route")
           W == {Walk(g, n) : n \in NodesOf(g)}
<1>2. Walks(g) = [i \in DOMAIN s |-> Walk(g, s[i])]
  BY DEF Walks
<1>3. \A i \in DOMAIN s : Walk(g, s[i]) \in W
  BY <1>1
<1> HIDE DEF s, W
<1>4. Walks(g) \in Seq(W)
  BY <1>1, <1>2, <1>3 DEF s
<1> QED
  BY <1>1, <1>4 DEF W

(* the routes are,                                                           *)
LEMMA RoutesGenerated ==
  ASSUME NEW g, IsGraph(g)
  PROVE  Generated(Routes(g))
<1> DEFINE W == {Walk(g, n) : n \in NodesOf(g)}
           mounted == Those(Walks(g), {w \in Range(Walks(g)) : w.handler # Absent})
           Route(w) == <<"route", <<Framework(g), w.handler, w.wraps>>>>
           body == [i \in DOMAIN mounted |-> Route(mounted[i])]
           G == {Route(w) : w \in W}
<1>1. Walks(g) \in Seq(W)
  BY WalksAreASeq
<1>2. mounted \in Seq(W)
  <2> HIDE DEF W
  <2> QED
    BY <1>1, ThoseMembers
<1> HIDE DEF mounted, W
<1>3. \A x \in G : x = <<x[1], x[2]>> /\ x[1] = "route"
  OBVIOUS
<1> HIDE DEF Route
<1>4. body \in Seq(G)
  BY <1>2
<1>5. IsLines(G)
  BY <1>3 DEF IsLines, IsMarker
<1>6. Plain(body)
  <2> SUFFICES ASSUME NEW i \in 1..Len(body) PROVE body[i][1] # "text" /\ ~IsMarker(body[i])
    BY DEF Plain
  <2>1. body[i] \in G
    BY <1>4
  <2> QED
    BY <1>3, <2>1 DEF IsMarker
<1>7. Routes(g) = body
  BY DEF Routes, mounted, Route
<1> HIDE DEF body, G
<1> QED
  BY <1>4, <1>5, <1>6, <1>7, GeneratedIn

(* the declarations of a directory's mod.rs are,                             *)
LEMMA ModsGenerated ==
  ASSUME NEW g, IsGraph(g), NEW d
  PROVE  Generated([i \in DOMAIN ModulesIn(g, d) |-> Mod(ModulesIn(g, d)[i])])
<1> DEFINE inDir == Those(g.nodes, {n \in NodesOf(g) : n.t.dir = d})
           names == [i \in DOMAIN inDir |-> ModuleName(inDir[i])]
           body  == [i \in DOMAIN names |-> Mod(names[i])]
           X == {ModuleName(n) : n \in NodesOf(g)}
           G == {Mod(x) : x \in X}
<1>1. inDir \in Seq(NodesOf(g))
  BY ThoseMembers DEF IsGraph
<1> HIDE DEF inDir
<1>2. names \in Seq(X)
  BY <1>1
<1>3. ModulesIn(g, d) = names
  BY DEF ModulesIn, inDir
<1> HIDE DEF names, X
<1>4. body \in Seq(G)
  BY <1>2
<1>5. \A x \in G : x = <<x[1], x[2]>> /\ x[1] = "mod"
  BY DEF Mod
<1>6. IsLines(G)
  BY <1>5 DEF IsLines, IsMarker
<1>7. Plain(body)
  <2> SUFFICES ASSUME NEW i \in 1..Len(body) PROVE body[i][1] # "text" /\ ~IsMarker(body[i])
    BY DEF Plain
  <2>1. body[i] \in G
    BY <1>4
  <2> QED
    BY <1>5, <2>1 DEF IsMarker
<1> HIDE DEF G
<1>8. Generated(body)
  <2> HIDE DEF body
  <2> QED
    BY <1>4, <1>6, <1>7, GeneratedIn
<1> QED
  BY <1>3, <1>8

(* ... and so all that is merged into lib.rs.                                *)
LEMMA RegionsGenerated ==
  ASSUME NEW g, IsGraph(g), NEW pk
  PROVE  \A id \in DOMAIN LibRegions(g, pk) : Generated(LibRegions(g, pk)[id])
<1>1. Generated(LibDecls(g, pk)) /\ Generated(Routes(g))
  BY LibDeclsGenerated, RoutesGenerated
<1> QED
  BY <1>1 DEF LibRegions

-----------------------------------------------------------------------------
(* The files a generation starts, when there are none.                       *)

(* The file of a package that has none.                                      *)
LEMMA StubIsText ==
  ASSUME NEW text, NEW ours, Generated(ours), NEW id, id # Outside, text[1] = "text",
         text = <<text[1], text[2]>>
  PROVE  IsText(<<text, Begin(id)>> \o ours \o <<End(id)>>)
<1> DEFINE L == {text, Begin(id), End(id)} \cup ToSet(ours)
           b == <<text, Begin(id)>>
           c == b \o ours
           d == Append(c, End(id))
<1>1. /\ Begin(id) = <<Begin(id)[1], Begin(id)[2]>> /\ Begin(id)[1] = "begin" /\ Begin(id)[2] = id
      /\ End(id) = <<End(id)[1], End(id)[2]>> /\ End(id)[1] = "end" /\ End(id)[2] = id
  BY DEF Begin, End
<1>2. IsLines(L)
  <2>1. \A x \in ToSet(ours) : x = <<x[1], x[2]>> /\ ~IsMarker(x)
    BY DEF Generated, ToSet
  <2> QED
    BY <1>1, <2>1 DEF IsLines, IsMarker
<1>3. text \in L /\ Begin(id) \in L /\ End(id) \in L /\ ToSet(ours) \subseteq L
  OBVIOUS
<1>4. ours \in Seq(L) /\ Plain(ours)
  <2> HIDE DEF L
  <2> QED
    BY <1>3 DEF Generated, Plain
<1> HIDE DEF L
<1>6. b \in Seq(L) /\ Clean(b) /\ MarkersOf(b, {id}) /\ NoTextAfter(b, id)
  <2>1. b \in Seq(L) /\ Len(b) = 2 /\ b[1] = text /\ b[2] = Begin(id)
    BY <1>3
  <2> HIDE DEF b
  <2>2. Clean(b)
    BY <2>1 DEF Clean
  <2>3. MarkersOf(b, {id})
    BY <1>1, <2>1 DEF MarkersOf, IsMarker
  <2>4. NoTextAfter(b, id)
    BY <1>1, <2>1 DEF NoTextAfter
  <2> QED
    BY <2>1, <2>2, <2>3, <2>4
<1>7. c \in Seq(L) /\ Clean(c) /\ NoTextAfter(c, id)
  <2> HIDE DEF b
  <2>1. c \in Seq(L)
    BY <1>4, <1>6
  <2> QED
    BY <1>2, <1>4, <1>6, <2>1, PlainConcat
<1>8. d \in Seq(L) /\ Clean(d)
  <2> HIDE DEF c
  <2>1. d \in Seq(L)
    BY <1>3, <1>7
  <2>2. Clean(d)
    BY <1>1, <1>2, <1>3, <1>7, CleanAppend
  <2> QED
    BY <2>1, <2>2
<1>9. <<text, Begin(id)>> \o ours \o <<End(id)>> = d
  <2>1. c \o <<End(id)>> = d
    <3> HIDE DEF c
    <3> QED
      BY <1>3, <1>7
  <2> QED
    BY <2>1
<1> HIDE DEF d
<1> QED
  BY <1>2, <1>8, <1>9 DEF IsText

(* Three lines and four more.                                                *)
LEMMA ThreeAndFour ==
  ASSUME NEW L, NEW a \in Seq(L), NEW b \in Seq(L)
  PROVE  Len(a) = 3 /\ Len(b) = 4 =>
           /\ Len(a \o b) = 7
           /\ \A n \in 1..3 : (a \o b)[n] = a[n]
           /\ \A n \in 1..4 : (a \o b)[3 + n] = b[n]
<1> DEFINE c == a \o b
<1>1. /\ c \in Seq(L) /\ Len(c) = Len(a) + Len(b) /\ Len(a) \in Nat /\ Len(b) \in Nat
      /\ \A i \in 1..Len(a) : c[i] = a[i]
      /\ \A i \in 1..Len(b) : c[Len(a) + i] = b[i]
  OBVIOUS
<1> HIDE DEF c
<1>2. Len(a) = 3 /\ Len(b) = 4 =>
        /\ Len(c) = 7
        /\ \A n \in 1..3 : c[n] = a[n]
        /\ \A n \in 1..4 : c[3 + n] = b[n]
  BY <1>1
<1> QED
  BY <1>2 DEF c

(* The lib.rs of a project that has none.                                    *)
LEMMA ScaffoldIsText == \A fw : IsText(LibScaffold(fw))
<1> SUFFICES ASSUME NEW fw PROVE IsText(LibScaffold(fw))
  OBVIOUS
<1> DEFINE fn == RouterFn(fw)
           L == {Text("head"), Text("end fn"), Text(fn), Begin("module_decls"),
                 End("module_decls"), Begin("routes"), End("routes")}
           a == <<Text("head"), Begin("module_decls"), End("module_decls")>>
           b == <<Text(fn), Begin("routes"), End("routes"), Text("end fn")>>
<1>1. "module_decls" # Outside /\ "routes" # Outside
  BY DEF Outside
<1>2. /\ \A x : Text(x) = <<Text(x)[1], Text(x)[2]>> /\ Text(x)[1] = "text"
      /\ \A x : /\ Begin(x) = <<Begin(x)[1], Begin(x)[2]>> /\ Begin(x)[1] = "begin"
                /\ Begin(x)[2] = x
      /\ \A x : End(x) = <<End(x)[1], End(x)[2]>> /\ End(x)[1] = "end" /\ End(x)[2] = x
  BY DEF Text, Begin, End
<1>3. IsLines(L)
  <2> SUFFICES ASSUME NEW x \in L PROVE x = <<x[1], x[2]>> /\ (IsMarker(x) => x[2] # Outside)
    BY DEF IsLines
  <2>1. CASE x \in {Text("head"), Text("end fn"), Text(fn)}
    BY <1>2, <2>1 DEF IsMarker
  <2>2. CASE x \in {Begin("module_decls"), Begin("routes")}
    BY <1>1, <1>2, <2>2
  <2>3. CASE x \in {End("module_decls"), End("routes")}
    BY <1>1, <1>2, <2>3
  <2> QED
    BY <2>1, <2>2, <2>3
<1>4. /\ a \in Seq(L) /\ Len(a) = 3
      /\ a[1] = Text("head") /\ a[2] = Begin("module_decls") /\ a[3] = End("module_decls")
  OBVIOUS
<1>5. /\ b \in Seq(L) /\ Len(b) = 4
      /\ b[1] = Text(fn) /\ b[2] = Begin("routes") /\ b[3] = End("routes")
      /\ b[4] = Text("end fn")
  OBVIOUS
<1>6. Clean(a)
  <2> HIDE DEF a
  <2>1. a[1][1] = "text" /\ a[2][1] = "begin" /\ a[3][1] = "end"
    BY <1>2, <1>4
  <2> SUFFICES ASSUME NEW i \in 1..3, NEW j \in 1..3, NEW k \in 1..3, i < j, j < k,
                      a[i][1] = "begin", a[k] = End(a[i][2])
               PROVE  FALSE
    BY <1>4 DEF Clean
  <2>2. i = 1
    OBVIOUS
  <2> QED
    BY <2>1, <2>2
<1> DEFINE c == a \o b
<1>8. c \in Seq(L) /\ Clean(c)
  <2> HIDE DEF a, b, L
  <2>0. a \in Seq(L) /\ b \in Seq(L) /\ Len(a) = 3 /\ Len(b) = 4
    BY <1>4, <1>5
  <2>1. c \in Seq(L)
    BY <2>0
  <2>2. /\ Len(c) = 7 /\ c[1] = a[1] /\ c[2] = a[2] /\ c[3] = a[3]
        /\ c[4] = b[1] /\ c[5] = b[2] /\ c[6] = b[3] /\ c[7] = b[4]
    <3>1. Len(c) = 7 /\ \A n \in 1..3 : c[n] = a[n]
      BY <2>0, ThreeAndFour
    <3>2. \A n \in 1..4 : c[3 + n] = b[n]
      BY <2>0, ThreeAndFour
    <3>3. c[4] = b[1] /\ c[5] = b[2] /\ c[6] = b[3] /\ c[7] = b[4]
      <4>1. 3 + 1 = 4 /\ 3 + 2 = 5 /\ 3 + 3 = 6 /\ 3 + 4 = 7
        OBVIOUS
      <4> HIDE DEF c
      <4> QED
        BY <3>2, <4>1
    <3> HIDE DEF c
    <3> QED
      BY <3>1, <3>3
  <2> HIDE DEF c
  <2>3. /\ c[1][1] = "text" /\ c[2][1] = "begin" /\ c[3][1] = "end" /\ c[4][1] = "text"
        /\ c[5][1] = "begin" /\ c[6][1] = "end" /\ c[7][1] = "text"
    <3>1. a[1][1] = "text" /\ a[2][1] = "begin" /\ a[3][1] = "end"
      BY <1>2, <1>4
    <3>2. b[1][1] = "text" /\ b[2][1] = "begin" /\ b[3][1] = "end" /\ b[4][1] = "text"
      BY <1>2, <1>5
    <3> QED
      BY <2>2, <3>1, <3>2
  <2>4. c[2][2] = "module_decls" /\ c[6][2] = "routes"
    <3>1. a[2][2] = "module_decls" /\ b[3][2] = "routes"
      BY <1>2, <1>4, <1>5
    <3> QED
      BY <2>2, <3>1
  <2> SUFFICES ASSUME NEW i \in 1..7, NEW j \in 1..7, NEW k \in 1..7, i < j, j < k,
                      c[i][1] = "begin", c[k] = End(c[i][2])
               PROVE  FALSE
    BY <2>1, <2>2 DEF Clean
  <2>5. c[k][1] = "end" /\ c[k][2] = c[i][2]
    BY <1>2
  <2>6. i = 2 \/ i = 5
    BY <2>3
  <2>7. k = 3 \/ k = 6
    BY <2>3, <2>5
  <2>8. i = 2 /\ k = 6
    BY <2>6, <2>7
  <2> QED
    BY <2>4, <2>5, <2>8
<1>7. LibScaffold(fw) = a \/ LibScaffold(fw) = c
  <2>1. LibScaffold(fw) = a \o (IF fw = "none" THEN <<>> ELSE b)
    BY DEF LibScaffold
  <2>2. a \o <<>> = a
    BY <1>4
  <2> QED
    BY <2>1, <2>2
<1> HIDE DEF L, a, c
<1> QED
  BY <1>3, <1>4, <1>6, <1>7, <1>8 DEF IsText

-----------------------------------------------------------------------------
(* The writes of a generation keep what the user wrote.                      *)

(* Files by their paths.                                                     *)
IsMap(f) == f = [x \in DOMAIN f |-> f[x]]

(* A file more is a map.                                                     *)
LEMMA PutIsMap == \A f, k, v : IsMap(Put(f, k, v))
  BY DEF IsMap, Put

IsDisk(d) ==
    /\ d = [modules |-> d.modules, texts |-> d.texts, main |-> d.main, cargo |-> d.cargo,
            errors |-> d.errors]
    /\ IsMap(d.modules) /\ IsMap(d.texts)
    /\ \A p \in DOMAIN d.texts : IsText(d.texts[p])

KeepsTexts(old, r) ==
    /\ r = [disk |-> r.disk, status |-> r.status]
    /\ IsDisk(r.disk)
    /\ \A p \in DOMAIN old :
         p \in DOMAIN r.disk.texts /\ TextLines(r.disk.texts[p]) = TextLines(old[p])

(* A write of a file with the user's lines as they were.                     *)
LEMMA PutKeeps ==
  ASSUME NEW old, NEW r, KeepsTexts(old, r), NEW p, NEW text, IsText(text),
         p \in DOMAIN r.disk.texts => TextLines(text) = TextLines(r.disk.texts[p])
  PROVE  KeepsTexts(old, [r EXCEPT !.disk.texts = Put(@, p, text)])
<1> DEFINE d == r.disk
           new == Put(d.texts, p, text)
           after == [d EXCEPT !.texts = new]
           r2 == [r EXCEPT !.disk = after]
<1>1. r = [disk |-> d, status |-> r.status] /\ IsDisk(d)
  BY DEF KeepsTexts
<1>2. [r EXCEPT !.disk.texts = Put(@, p, text)] = r2
  BY <1>1
<1>3. /\ DOMAIN new = DOMAIN d.texts \cup {p} /\ new[p] = text
      /\ \A x \in DOMAIN d.texts : x # p => new[x] = d.texts[x]
      /\ IsMap(new)
  BY PutIsMap DEF Put
<1> HIDE DEF new
<1>4. /\ after = [modules |-> after.modules, texts |-> after.texts, main |-> after.main,
                  cargo |-> after.cargo, errors |-> after.errors]
      /\ after.texts = new /\ after.modules = d.modules
  BY <1>1 DEF IsDisk
<1>5. IsDisk(after)
  BY <1>1, <1>3, <1>4 DEF IsDisk
<1> HIDE DEF after
<1>6. r2 = [disk |-> r2.disk, status |-> r2.status] /\ r2.disk = after
  BY <1>1
<1>7. \A x \in DOMAIN old : x \in DOMAIN new /\ TextLines(new[x]) = TextLines(old[x])
  BY <1>3 DEF KeepsTexts
<1> HIDE DEF r2
<1>8. KeepsTexts(old, r2)
  BY <1>4, <1>5, <1>6, <1>7 DEF KeepsTexts
<1> QED
  BY <1>2, <1>8

(* The writes of the other files, and the ends.                              *)
LEMMA OthersKeep ==
  ASSUME NEW old, NEW r, KeepsTexts(old, r), NEW x
  PROVE  /\ KeepsTexts(old, [r EXCEPT !.status = x])
         /\ KeepsTexts(old, [r EXCEPT !.disk.errors = x])
         /\ KeepsTexts(old, [r EXCEPT !.disk.main = x])
         /\ KeepsTexts(old, [r EXCEPT !.disk.cargo = x])
         /\ IsMap(x) => KeepsTexts(old, [r EXCEPT !.disk.modules = x])
<1> DEFINE d == r.disk
<1>1. /\ r = [disk |-> d, status |-> r.status] /\ IsDisk(d)
      /\ d = [modules |-> d.modules, texts |-> d.texts, main |-> d.main, cargo |-> d.cargo,
              errors |-> d.errors]
  BY DEF KeepsTexts, IsDisk
<1>2. KeepsTexts(old, [r EXCEPT !.status = x])
  BY <1>1 DEF KeepsTexts
<1>3. ASSUME NEW after, after.texts = d.texts, IsMap(after.modules),
             after = [modules |-> after.modules, texts |-> after.texts, main |-> after.main,
                      cargo |-> after.cargo, errors |-> after.errors]
      PROVE  KeepsTexts(old, [r EXCEPT !.disk = after])
  <2>1. IsDisk(after)
    BY <1>1, <1>3 DEF IsDisk
  <2>2. [r EXCEPT !.disk = after] = [disk |-> after, status |-> r.status]
    BY <1>1
  <2> QED
    BY <1>3, <2>1, <2>2 DEF KeepsTexts
<1>4. KeepsTexts(old, [r EXCEPT !.disk = [d EXCEPT !.errors = x]])
  BY <1>1, <1>3 DEF IsDisk
<1>5. KeepsTexts(old, [r EXCEPT !.disk = [d EXCEPT !.main = x]])
  BY <1>1, <1>3 DEF IsDisk
<1>6. KeepsTexts(old, [r EXCEPT !.disk = [d EXCEPT !.cargo = x]])
  BY <1>1, <1>3 DEF IsDisk
<1>7. IsMap(x) => KeepsTexts(old, [r EXCEPT !.disk = [d EXCEPT !.modules = x]])
  BY <1>1, <1>3
<1>8. /\ [r EXCEPT !.disk.errors = x] = [r EXCEPT !.disk = [d EXCEPT !.errors = x]]
      /\ [r EXCEPT !.disk.main = x] = [r EXCEPT !.disk = [d EXCEPT !.main = x]]
      /\ [r EXCEPT !.disk.cargo = x] = [r EXCEPT !.disk = [d EXCEPT !.cargo = x]]
      /\ [r EXCEPT !.disk.modules = x] = [r EXCEPT !.disk = [d EXCEPT !.modules = x]]
  BY <1>1
<1> QED
  BY <1>2, <1>4, <1>5, <1>6, <1>7, <1>8

(* A name that a generation looks for is no empty name.                      *)
LEMMA IdsAreNames == "mods" # Outside /\ "module_decls" # Outside /\ "routes" # Outside
  BY DEF Outside

(* The write of lib.rs.                                                      *)
LEMMA LibKeeps ==
  ASSUME NEW old, NEW r, KeepsTexts(old, r), NEW g, IsGraph(g), NEW pk
  PROVE  KeepsTexts(old, WriteLib(r, g, pk))
<1> DEFINE base == IF Lib \in DOMAIN r.disk.texts THEN r.disk.texts[Lib]
                   ELSE LibScaffold(Framework(g))
           new  == LibRegions(g, pk)
           text == Merge(base, new)
<1>1. IsText(base) /\ (Lib \in DOMAIN r.disk.texts => base = r.disk.texts[Lib])
  BY ScaffoldIsText DEF KeepsTexts, IsDisk
<1>2. \A id \in DOMAIN new : Generated(new[id])
  BY RegionsGenerated
<1>3. WriteLib(r, g, pk) =
        CASE NeverEnds(g) -> [r EXCEPT !.status = "hung"]
          [] ~NeverEnds(g) /\ ~WellFormed(base) -> [r EXCEPT !.status = "failed"]
          [] OTHER -> [r EXCEPT !.disk.texts = Put(@, Lib, text)]
  BY DEF WriteLib
<1> HIDE DEF base, new
<1>4. CASE NeverEnds(g)
  <2>1. WriteLib(r, g, pk) = [r EXCEPT !.status = "hung"]
    BY <1>3, <1>4
  <2>2. KeepsTexts(old, [r EXCEPT !.status = "hung"])
    BY OthersKeep
  <2> QED
    BY <2>1, <2>2
<1>5. CASE ~NeverEnds(g) /\ ~WellFormed(base)
  <2>1. WriteLib(r, g, pk) = [r EXCEPT !.status = "failed"]
    BY <1>3, <1>5
  <2>2. KeepsTexts(old, [r EXCEPT !.status = "failed"])
    BY OthersKeep
  <2> QED
    BY <2>1, <2>2
<1>6. CASE ~NeverEnds(g) /\ WellFormed(base)
  <2>1. IsText(text) /\ TextLines(text) = TextLines(base)
    BY <1>1, <1>2, <1>6, MergeKeepsText
  <2>2. WriteLib(r, g, pk) = [r EXCEPT !.disk.texts = Put(@, Lib, text)]
    BY <1>3, <1>6
  <2> HIDE DEF text
  <2>3. Lib \in DOMAIN r.disk.texts => TextLines(text) = TextLines(r.disk.texts[Lib])
    BY <1>1, <2>1
  <2>4. KeepsTexts(old, [r EXCEPT !.disk.texts = Put(@, Lib, text)])
    BY <2>1, <2>3, PutKeeps
  <2> QED
    BY <2>2, <2>4
<1> QED
  BY <1>4, <1>5, <1>6

(* A file with an empty region.                                              *)
LEMMA BareIsText == \A id : id # Outside => IsText(<<Begin(id), End(id)>>)
<1> SUFFICES ASSUME NEW id, id # Outside PROVE IsText(<<Begin(id), End(id)>>)
  OBVIOUS
<1> DEFINE a == <<Begin(id), End(id)>>
           L == {Begin(id), End(id)}
<1>1. IsLines(L)
  BY DEF IsLines, Begin, End
<1>2. a \in Seq(L) /\ Len(a) = 2
  OBVIOUS
<1> HIDE DEF a
<1>3. Clean(a)
  BY <1>2 DEF Clean
<1> QED
  BY <1>1, <1>2, <1>3 DEF IsText, a

(* The write of a directory's mod.rs.                                        *)
LEMMA DirKeeps ==
  ASSUME NEW old, NEW r, KeepsTexts(old, r), NEW g, IsGraph(g), NEW d
  PROVE  KeepsTexts(old, WriteDir(r, g, d))
<1> DEFINE path == <<d>>
           base == IF path \in DOMAIN r.disk.texts THEN r.disk.texts[path]
                   ELSE <<Begin("mods"), End("mods")>>
           mods == [i \in DOMAIN ModulesIn(g, d) |-> Mod(ModulesIn(g, d)[i])]
           new  == [id \in {"mods"} |-> mods]
           text == Merge(base, new)
<1>1. IsText(base) /\ (path \in DOMAIN r.disk.texts => base = r.disk.texts[path])
  BY BareIsText, IdsAreNames DEF KeepsTexts, IsDisk
<1>2. \A id \in DOMAIN new : Generated(new[id])
  BY ModsGenerated
<1>3. WriteDir(r, g, d) =
        IF ~WellFormed(base) THEN [r EXCEPT !.status = "failed"]
        ELSE [r EXCEPT !.disk.texts = Put(@, path, text)]
  BY DEF WriteDir
<1> HIDE DEF base, new, path
<1>4. CASE ~WellFormed(base)
  <2>1. WriteDir(r, g, d) = [r EXCEPT !.status = "failed"]
    BY <1>3, <1>4
  <2>2. KeepsTexts(old, [r EXCEPT !.status = "failed"])
    BY OthersKeep
  <2> QED
    BY <2>1, <2>2
<1>5. CASE WellFormed(base)
  <2>1. IsText(text) /\ TextLines(text) = TextLines(base)
    BY <1>1, <1>2, <1>5, MergeKeepsText
  <2>2. WriteDir(r, g, d) = [r EXCEPT !.disk.texts = Put(@, path, text)]
    BY <1>3, <1>5
  <2> HIDE DEF text
  <2>3. path \in DOMAIN r.disk.texts => TextLines(text) = TextLines(r.disk.texts[path])
    BY <1>1, <2>1
  <2>4. KeepsTexts(old, [r EXCEPT !.disk.texts = Put(@, path, text)])
    BY <2>1, <2>3, PutKeeps
  <2> QED
    BY <2>2, <2>4
<1> QED
  BY <1>4, <1>5

(* What a package's file declares and is not a child is kept among what is   *)
(* generated, since nothing else is between the markers.                     *)
LEMMA PackageTextKeeps ==
  ASSUME NEW text, IsText(text), NEW ours, Generated(ours)
  PROVE  IsText(PackageText(text, ours)) /\ TextLines(PackageText(text, ours)) = TextLines(text)
<1> DEFINE body == Body(text, "module_decls")
           others == Range(text) \ (Range(ours) \cup {Blank})
           kept == Those(body, others)
           new  == [id \in {"module_decls"} |-> kept \o ours]
<1>1. CASE ~(Begin("module_decls") \in Range(text) /\ WellFormed(text))
  BY <1>1 DEF PackageText
<1>2. CASE Begin("module_decls") \in Range(text) /\ WellFormed(text)
  <2>1. PICK L : IsLines(L) /\ text \in Seq(L) /\ Clean(text)
    BY DEF IsText
  <2>2. body \in Seq(L) /\ Plain(body)
    BY <1>2, <2>1, BodyIsGenerated
  <2> HIDE DEF body, others
  <2>3. kept \in Seq(L) /\ \A i \in 1..Len(kept) : \E n \in 1..Len(body) : body[n] = kept[i]
    BY <2>2, ThoseMembers
  <2> HIDE DEF kept
  <2>4. Plain(kept)
    BY <2>2, <2>3 DEF Plain
  <2>5. Generated(kept)
    BY <2>1, <2>3, <2>4, GeneratedIn
  <2>6. Generated(kept \o ours)
    BY <2>5, GeneratedConcat
  <2>7. PackageText(text, ours) = Merge(text, new)
    BY <1>2 DEF PackageText, kept, body, others
  <2>8. \A id \in DOMAIN new : Generated(new[id])
    BY <2>6
  <2> HIDE DEF new
  <2> QED
    BY <1>2, <2>7, <2>8, MergeKeepsText
<1> QED
  BY <1>1, <1>2

(* The write of a package's mod.rs.                                          *)
LEMMA PackageKeeps ==
  ASSUME NEW old, NEW r, KeepsTexts(old, r), NEW pk, NEW p
  PROVE  KeepsTexts(old, WritePackage(r, pk, p))
<1> DEFINE ours == Declare(Children(pk, p), SortedSlugs)
           stub == Stub(ours)
           new  == IF p \in DOMAIN r.disk.texts THEN PackageText(r.disk.texts[p], ours) ELSE stub
<1>1. Generated(ours)
  BY FoldersGenerated, SortedSeqs
<1>2. WritePackage(r, pk, p) = [r EXCEPT !.disk.texts = Put(@, p, new)]
  BY DEF WritePackage
<1> HIDE DEF ours
<1>3. CASE p \in DOMAIN r.disk.texts
  <2>1. IsText(r.disk.texts[p])
    BY <1>3 DEF KeepsTexts, IsDisk
  <2>2. new = PackageText(r.disk.texts[p], ours)
    BY <1>3
  <2>3. IsText(new) /\ TextLines(new) = TextLines(r.disk.texts[p])
    BY <1>1, <2>1, <2>2, PackageTextKeeps
  <2> HIDE DEF new
  <2> QED
    BY <1>2, <2>3, PutKeeps
<1>4. CASE p \notin DOMAIN r.disk.texts
  <2>1. Text("stub")[1] = "text" /\ Text("stub") = <<Text("stub")[1], Text("stub")[2]>>
    BY DEF Text
  <2>2. IsText(stub)
    BY <1>1, <2>1, IdsAreNames, StubIsText DEF Stub
  <2>3. new = stub
    BY <1>4
  <2> HIDE DEF new, stub
  <2> QED
    BY <1>2, <1>4, <2>2, <2>3, PutKeeps
<1> QED
  BY <1>3, <1>4

(* The write of a node's module.                                             *)
LEMMA NodeKeeps ==
  ASSUME NEW old, NEW r, KeepsTexts(old, r), NEW g, NEW n
  PROVE  KeepsTexts(old, WriteNode(r, g, n))
<1> DEFINE new == Put(r.disk.modules, File(n), Exports(g, n))
<1>1. [r EXCEPT !.disk.modules = Put(@, File(n), Exports(g, n))] = [r EXCEPT !.disk.modules = new]
  BY DEF KeepsTexts, IsDisk
<1>2. KeepsTexts(old, [r EXCEPT !.disk.modules = new])
  BY OthersKeep, PutIsMap
<1>3. /\ KeepsTexts(old, [r EXCEPT !.status = "panicked"])
      /\ KeepsTexts(old, [r EXCEPT !.status = "failed"])
  BY OthersKeep
<1>4. \/ WriteNode(r, g, n) = [r EXCEPT !.status = "panicked"]
      \/ WriteNode(r, g, n) = [r EXCEPT !.status = "failed"]
      \/ WriteNode(r, g, n) = [r EXCEPT !.disk.modules = Put(@, File(n), Exports(g, n))]
      \/ WriteNode(r, g, n) = r
  BY DEF WriteNode
<1> QED
  BY <1>1, <1>2, <1>3, <1>4

(* Every write, whatever it is of.                                           *)
LEMMA WriteKeeps ==
  ASSUME NEW old, NEW r, KeepsTexts(old, r), NEW g, IsGraph(g), NEW pk, NEW s
  PROVE  KeepsTexts(old, Write(r, s, g, pk))
<1>1. \/ Write(r, s, g, pk) = r
      \/ Write(r, s, g, pk) = [r EXCEPT !.disk.errors = Framework(g)]
      \/ Write(r, s, g, pk) = WriteNode(r, g, s[2])
      \/ Write(r, s, g, pk) = [r EXCEPT !.disk.main = Main(g)]
      \/ Write(r, s, g, pk) = WriteLib(r, g, pk)
      \/ Write(r, s, g, pk) = WriteDir(r, g, s[2])
      \/ Write(r, s, g, pk) = [r EXCEPT !.disk.cargo = Cargo(g)]
      \/ Write(r, s, g, pk) = WritePackage(r, pk, s[2])
  BY DEF Write
<1>2. /\ KeepsTexts(old, [r EXCEPT !.disk.errors = Framework(g)])
      /\ KeepsTexts(old, [r EXCEPT !.disk.main = Main(g)])
      /\ KeepsTexts(old, [r EXCEPT !.disk.cargo = Cargo(g)])
  BY OthersKeep
<1>3. KeepsTexts(old, WriteNode(r, g, s[2])) /\ KeepsTexts(old, WritePackage(r, pk, s[2]))
  BY NodeKeeps, PackageKeeps
<1>4. KeepsTexts(old, WriteLib(r, g, pk)) /\ KeepsTexts(old, WriteDir(r, g, s[2]))
  BY LibKeeps, DirKeeps
<1> QED
  BY <1>1, <1>2, <1>3, <1>4
-----------------------------------------------------------------------------
(* A generation keeps what the user wrote.                                   *)

(* The writes of a generation, one after the other.                          *)
AreWrites(f, base, steps, g, pk, N) ==
    f = [n \in 0..N |-> IF n = 0 THEN base ELSE Write(f[n - 1], steps[n], g, pk)]

(* There are such ...                                                        *)
LEMMA WritesExist ==
  ASSUME NEW base, NEW steps, NEW g, NEW pk, NEW N \in Nat
  PROVE  \E f : AreWrites(f, base, steps, g, pk, N)
<1> DEFINE Do(r, n) == Write(r, steps[n], g, pk)
           Upto(f, m) == f = [n \in 0..m |-> IF n = 0 THEN base ELSE Do(f[n - 1], n)]
           T == {m \in Nat : \E f : Upto(f, m)}
<1>1. 0 \in T
  <2> DEFINE f == [n \in 0..0 |-> base]
  <2> HIDE DEF Do
  <2>1. Upto(f, 0)
    OBVIOUS
  <2> QED
    BY <2>1
<1>2. ASSUME NEW m \in Nat, m \in T PROVE m + 1 \in T
  <2>1. PICK f : Upto(f, m)
    BY <1>2
  <2> DEFINE h == [n \in 0..(m + 1) |-> IF n = m + 1 THEN Do(f[m], m + 1) ELSE f[n]]
  <2> HIDE DEF Do
  <2>2. ASSUME NEW n \in 0..(m + 1)
        PROVE  h[n] = IF n = 0 THEN base ELSE Do(h[n - 1], n)
    <3>1. CASE n = m + 1
      BY <3>1
    <3>2. CASE n \in 0..m
      BY <2>1, <3>2
    <3> QED
      BY <3>1, <3>2
  <2>3. h = [n \in 0..(m + 1) |-> IF n = 0 THEN base ELSE Do(h[n - 1], n)]
    <3>1. h = [n \in 0..(m + 1) |-> h[n]]
      OBVIOUS
    <3> HIDE DEF h
    <3> QED
      BY <2>2, <3>1
  <2> HIDE DEF h
  <2> QED
    BY <2>3
<1>3. N \in T
  <2> HIDE DEF T
  <2> QED
    BY <1>1, <1>2, NatBySets
<1> QED
  BY <1>3 DEF AreWrites

(* A generation from the files d, as the values of its writes.               *)
RunOf(d, steps, g, pk) ==
    (CHOOSE f : AreWrites(f, [disk |-> d, status |-> "running"], steps, g, pk, Len(steps)))
      [Len(steps)]

IsRun(R, d, steps, g, pk) ==
    /\ R[0] = [disk |-> d, status |-> "running"]
    /\ \A n \in 1..Len(steps) : R[n] = Write(R[n - 1], steps[n], g, pk)

(* A generation is the last of its writes ...                                *)
LEMMA RunIsRunOf == \A steps : Run(steps) = RunOf(disk, steps, graph, packages)
  BY DEF Run, RunOf, AreWrites

(* The run, as the values of its writes, one after the other.                *)
LEMMA RunsAlong ==
  ASSUME NEW d, NEW steps, Len(steps) \in Nat, NEW g, NEW pk
  PROVE  \E R : IsRun(R, d, steps, g, pk) /\ RunOf(d, steps, g, pk) = R[Len(steps)]
<1> DEFINE N == Len(steps)
           base == [disk |-> d, status |-> "running"]
           Do(r, n) == Write(r, steps[n], g, pk)
           R == CHOOSE f : AreWrites(f, base, steps, g, pk, N)
<1>1. N \in Nat
  OBVIOUS
<1>2. RunOf(d, steps, g, pk) = R[N]
  BY DEF RunOf
<1>3. AreWrites(R, base, steps, g, pk, N)
  <2> HIDE DEF base, N
  <2> QED
    BY <1>1, WritesExist
<1>4. R = [n \in 0..N |-> IF n = 0 THEN base ELSE Do(R[n - 1], n)]
  <2> HIDE DEF base, N, R
  <2> QED
    BY <1>3 DEF AreWrites
<1> HIDE DEF R, Do, base
<1>5. R[0] = base /\ \A n \in 1..N : R[n] = Do(R[n - 1], n)
  BY <1>1, <1>4
<1> QED
  BY <1>2, <1>5 DEF IsRun, Do, base

(* ... and each of them keeps what the one before kept.                      *)
LEMMA RunOfKeeps ==
  ASSUME NEW d, NEW steps, Len(steps) \in Nat, NEW g, NEW pk, IsGraph(g), IsDisk(d),
         NEW R, IsRun(R, d, steps, g, pk), NEW n \in 0..Len(steps)
  PROVE  KeepsTexts(d.texts, R[n])
<1> DEFINE N == Len(steps)
           base == [disk |-> d, status |-> "running"]
           T == {k \in Nat : k <= N => KeepsTexts(d.texts, R[k])}
<1>3. KeepsTexts(d.texts, base)
  BY DEF KeepsTexts
<1>4. ASSUME NEW r, KeepsTexts(d.texts, r), NEW s PROVE KeepsTexts(d.texts, Write(r, s, g, pk))
  BY <1>4, WriteKeeps
<1>5. 0 \in T
  BY <1>3 DEF IsRun
<1>6. ASSUME NEW k \in Nat, k \in T PROVE k + 1 \in T
  <2> SUFFICES ASSUME k + 1 <= N PROVE KeepsTexts(d.texts, R[k + 1])
    OBVIOUS
  <2>1. R[k + 1] = Write(R[k], steps[k + 1], g, pk)
    BY DEF IsRun
  <2>2. KeepsTexts(d.texts, R[k])
    BY <1>6
  <2> QED
    BY <1>4, <2>1, <2>2
<1>7. Nat \subseteq T
  <2> HIDE DEF T
  <2> QED
    BY <1>5, <1>6, NatBySets
<1> QED
  BY <1>7

(* ... and so does the run of this state.                                    *)
LEMMA RunKeeps ==
  ASSUME NEW steps, Len(steps) \in Nat, IsGraph(graph), IsDisk(disk)
  PROVE  KeepsTexts(disk.texts, Run(steps))
<1>1. PICK R : IsRun(R, disk, steps, graph, packages) /\ Run(steps) = R[Len(steps)]
  BY RunsAlong, RunIsRunOf
<1>2. Len(steps) \in 0..Len(steps)
  OBVIOUS
<1>3. KeepsTexts(disk.texts, R[Len(steps)])
  BY <1>1, <1>2, RunOfKeeps
<1> QED
  BY <1>1, <1>3
-----------------------------------------------------------------------------
(* What a session keeps, besides: a graph, folders, and files of which the   *)
(* user's lines are outside the regions.                                     *)

(* A finite set can be listed.                                               *)
LEMMA SetsAreLists ==
  ASSUME NEW S, IsFiniteSet(S)
  PROVE  SetToSeq(S) \in Seq(S)
<1>1. Cardinality(S) \in Nat /\ ExistsBijection(1..Cardinality(S), S)
  BY FS_CardinalityType
<1>2. PICK f \in [1..Cardinality(S) -> S] : IsInjective(f)
  BY <1>1, Zenon DEF ExistsBijection, Bijection, Injection, Surjection, IsInjective
<1> DEFINE F == [1..Cardinality(S) -> S]
           x == CHOOSE h \in F : IsInjective(h)
<1>3. x \in F
  <2> HIDE DEF F
  <2> QED
    BY <1>2, Zenon DEF F
<1>4. SetToSeq(S) = x
  BY Zenon DEF SetToSeq
<1> HIDE DEF x
<1> QED
  BY <1>1, <1>3, <1>4

(* The writes, part by part. *)
NodeSteps(g) == [i \in DOMAIN g.nodes |-> Step("node", g.nodes[i])]
DirSteps(g) == [i \in DOMAIN Dirs(g) |-> Step("dir", Dirs(g)[i])]
PackageSteps(pk) == [i \in DOMAIN SetToSeq(pk) |-> Step("package", SetToSeq(pk)[i])]

(* The parts of a generation are lists,                                      *)
LEMMA StepParts ==
  ASSUME NEW g, IsGraph(g), NEW pk, IsFiniteSet(pk)
  PROVE  \E X : /\ <<Step("errors", 0)>> \in Seq(X) /\ NodeSteps(g) \in Seq(X)
               /\ <<Step("main", 0), Step("lib", 0)>> \in Seq(X) /\ DirSteps(g) \in Seq(X)
               /\ <<Step("cargo", 0)>> \in Seq(X) /\ PackageSteps(pk) \in Seq(X)
<1> DEFINE N == NodesOf(g)
           X == {Step("errors", 0), Step("main", 0), Step("lib", 0), Step("cargo", 0)}
                  \cup {Step("node", n) : n \in N} \cup {Step("dir", d) : d \in SortedNames}
                  \cup {Step("package", p) : p \in pk}
           paths == SetToSeq(pk)
<1>1. g.nodes \in Seq(N) /\ Dirs(g) \in Seq(SortedNames) /\ paths \in Seq(pk)
  BY SetsAreLists, ThoseMembers, SortedSeqs DEF IsGraph, Dirs
<1>2. /\ Step("errors", 0) \in X /\ Step("main", 0) \in X /\ Step("lib", 0) \in X
      /\ Step("cargo", 0) \in X
      /\ \A n \in N : Step("node", n) \in X
      /\ \A n \in SortedNames : Step("dir", n) \in X
      /\ \A p \in pk : Step("package", p) \in X
  OBVIOUS
<1> HIDE DEF X, paths, N
<1>4. /\ <<Step("errors", 0)>> \in Seq(X) /\ <<Step("main", 0), Step("lib", 0)>> \in Seq(X)
      /\ <<Step("cargo", 0)>> \in Seq(X)
  BY <1>2
<1>5. NodeSteps(g) \in Seq(X)
  BY <1>1, <1>2 DEF NodeSteps
<1>6. DirSteps(g) \in Seq(X)
  BY <1>1, <1>2 DEF DirSteps
<1>7. PackageSteps(pk) \in Seq(X)
  BY <1>1, <1>2 DEF PackageSteps, paths
<1> QED
  BY <1>4, <1>5, <1>6, <1>7

(* ... which follow each other.                                              *)
LEMMA StepsAreTheirParts ==
  \A g, pk :
    Steps(g, pk) =
      <<Step("errors", 0)>> \o NodeSteps(g) \o <<Step("main", 0), Step("lib", 0)>>
        \o DirSteps(g) \o <<Step("cargo", 0)>> \o PackageSteps(pk)
  BY DEF Steps, NodeSteps, DirSteps, PackageSteps

(* The writes of a generation are a list.                                    *)
LEMMA StepsAreAList ==
  ASSUME NEW g, IsGraph(g), NEW pk, IsFiniteSet(pk)
  PROVE  \E X : Steps(g, pk) \in Seq(X)
<1> DEFINE a == <<Step("errors", 0)>>
           b == NodeSteps(g)
           c == <<Step("main", 0), Step("lib", 0)>>
           d == DirSteps(g)
           e == <<Step("cargo", 0)>>
           f == PackageSteps(pk)
<1>3. Steps(g, pk) = a \o b \o c \o d \o e \o f
  BY StepsAreTheirParts
<1>4. PICK X : /\ a \in Seq(X) /\ b \in Seq(X) /\ c \in Seq(X) /\ d \in Seq(X)
               /\ e \in Seq(X) /\ f \in Seq(X)
  BY StepParts
<1> HIDE DEF a, b, c, d, e, f
<1>8. a \o b \in Seq(X)
  BY <1>4
<1>9. (a \o b) \o c \in Seq(X)
  BY <1>4, <1>8
<1>10. ((a \o b) \o c) \o d \in Seq(X)
  BY <1>4, <1>9
<1>11. (((a \o b) \o c) \o d) \o e \in Seq(X)
  BY <1>4, <1>10
<1>12. ((((a \o b) \o c) \o d) \o e) \o f \in Seq(X)
  BY <1>4, <1>11
<1> QED
  BY <1>3, <1>12

(* A list of nodes and finitely many edges are a graph.                      *)
LEMMA GraphsOf ==
  ASSUME NEW X, NEW s \in Seq(X), NEW E, IsFiniteSet(E)
  PROVE  IsGraph([nodes |-> s, edges |-> E])
<1> DEFINE g == [nodes |-> s, edges |-> E]
<1>1. g.nodes = s /\ g.edges = E
  OBVIOUS
<1>2. s \in Seq(NodesOf(g))
  BY <1>1 DEF NodesOf, Range
<1> QED
  BY <1>1, <1>2 DEF IsGraph

(* The user writes at the end of a file ...                                  *)
LEMMA UserWrites ==
  ASSUME NEW file, IsText(file), NEW x
  PROVE  IsText(Append(file, Text(x)))
<1>1. PICK K : IsLines(K) /\ file \in Seq(K) /\ Clean(file)
  BY DEF IsText
<1> DEFINE t == Text(x)
           L == K \cup {t}
<1>2. t = <<t[1], t[2]>> /\ t[1] = "text"
  BY DEF Text
<1>3. IsLines(L)
  BY <1>1, <1>2 DEF IsLines, IsMarker
<1>4. K \subseteq L /\ t \in L
  OBVIOUS
<1> HIDE DEF L, t
<1>5. file \in Seq(L)
  BY <1>1, <1>4
<1>6. Clean(Append(file, t))
  BY <1>1, <1>2, <1>3, <1>4, <1>5, CleanAppend
<1>7. Append(file, t) \in Seq(L)
  BY <1>4, <1>5
<1> QED
  BY <1>3, <1>6, <1>7 DEF IsText, t

(* ... and takes a line out of it.                                           *)
LEMMA UserDeletes ==
  ASSUME NEW file, IsText(file), NEW n \in DOMAIN file
  PROVE  IsText(RemoveAt(file, n))
<1>1. PICK L : IsLines(L) /\ file \in Seq(L) /\ Clean(file)
  BY DEF IsText
<1> DEFINE N == Len(file)
           a == SubSeq(file, 1, n - 1)
           b == SubSeq(file, n + 1, N)
           c == a \o b
           At(i) == IF i < n THEN i ELSE i + 1
<1>2. N \in Nat /\ n \in 1..N
  BY <1>1
<1>3. /\ a \in Seq(L) /\ Len(a) = n - 1 /\ \A i \in 1..(n - 1) : a[i] = file[i]
      /\ b \in Seq(L) /\ Len(b) = N - n /\ \A i \in 1..(N - n) : b[i] = file[n + i]
  BY <1>1, <1>2
<1>4. RemoveAt(file, n) = c
  BY DEF RemoveAt
<1> HIDE DEF a, b, N
<1>5. /\ c \in Seq(L) /\ Len(c) = Len(a) + Len(b)
      /\ \A i \in 1..Len(a) : c[i] = a[i]
      /\ \A i \in 1..Len(b) : c[Len(a) + i] = b[i]
  BY <1>3
<1> HIDE DEF c
<1>6. Len(c) = N - 1
  BY <1>2, <1>3, <1>5
<1>7. ASSUME NEW i \in 1..Len(c) PROVE At(i) \in 1..N /\ c[i] = file[At(i)]
  <2>1. CASE i < n
    <3>1. i \in 1..Len(a) /\ i \in 1..(n - 1) /\ i \in 1..N
      BY <1>2, <1>3, <1>6, <2>1
    <3>2. c[i] = file[i]
      BY <1>3, <1>5, <3>1
    <3> QED
      BY <2>1, <3>1, <3>2
  <2>2. CASE ~(i < n)
    <3>1. i - (n - 1) \in 1..Len(b) /\ Len(a) + (i - (n - 1)) = i
      BY <1>2, <1>3, <1>6, <2>2
    <3>2. c[i] = b[i - (n - 1)]
      BY <1>5, <3>1
    <3>3. n + (i - (n - 1)) = i + 1
      BY <1>2
    <3>4. b[i - (n - 1)] = file[i + 1]
      BY <1>3, <3>1, <3>3
    <3> QED
      BY <1>2, <1>6, <2>2, <3>2, <3>4
  <2> QED
    BY <2>1, <2>2
<1>8. \A i, j \in 1..Len(c) : i < j => At(i) < At(j)
  BY <1>2, <1>6
<1>9. Clean(c)
  <2> SUFFICES ASSUME NEW i \in 1..Len(c), NEW j \in 1..Len(c), NEW k \in 1..Len(c),
                      i < j, j < k, c[i][1] = "begin", c[k] = End(c[i][2])
               PROVE  c[j][1] # "text"
    BY DEF Clean
  <2>1. /\ At(i) \in 1..N /\ At(j) \in 1..N /\ At(k) \in 1..N /\ At(i) < At(j) /\ At(j) < At(k)
        /\ c[i] = file[At(i)] /\ c[j] = file[At(j)] /\ c[k] = file[At(k)]
    BY <1>7, <1>8
  <2> HIDE DEF At
  <2>2. \A x, y, z \in 1..N : x < y /\ y < z /\ file[x][1] = "begin" /\ file[z] = End(file[x][2])
                                => file[y][1] # "text"
    BY <1>1 DEF Clean, N
  <2> QED
    BY <2>1, <2>2
<1> QED
  BY <1>1, <1>4, <1>5, <1>9 DEF IsText
-----------------------------------------------------------------------------
(* ... so that every state of a session has them.                            *)
TextInv == IsGraph(graph) /\ IsFiniteSet(packages) /\ IsDisk(disk)

(* A save of a graph.                                                        *)
LEMMA SaveKeepsText ==
    ASSUME NEW g, IsGraph(g), Save(g), TextInv
    PROVE  TextInv'
  BY DEF TextInv, Save

(* Both ends of a generation.                                                *)
LEMMA GenerationKeeps ==
    ASSUME TextInv, Generate \/ Crash
    PROVE  /\ TextInv'
           /\ \A p \in DOMAIN disk.texts :
                p \in DOMAIN disk'.texts /\ TextLines(disk'.texts[p]) = TextLines(disk.texts[p])
<1> DEFINE steps == Steps(graph, packages)
<1>1. PICK X : steps \in Seq(X)
  BY StepsAreAList DEF TextInv
<1>2. PICK some : disk' = Run(some).disk /\ Len(some) \in Nat
  <2> HIDE DEF steps
  <2>1. CASE Generate
    <3>1. disk' = Run(steps).disk
      BY <2>1 DEF Generate, steps
    <3> QED
      BY <1>1, <3>1
  <2>2. CASE Crash
    <3>1. PICK k \in 0..Len(steps) - 1 : disk' = Run(SubSeq(steps, 1, k)).disk
      BY <2>2 DEF Crash, steps
    <3>2. Len(SubSeq(steps, 1, k)) \in Nat
      BY <1>1
    <3> QED
      BY <3>1, <3>2
  <2> QED
    BY <2>1, <2>2
<1>3. KeepsTexts(disk.texts, Run(some))
  BY <1>2, RunKeeps DEF TextInv
<1>4. graph' = graph /\ packages' = packages
  BY DEF Generate, Crash
<1> HIDE DEF steps
<1>5. TextInv'
  BY <1>2, <1>3, <1>4 DEF KeepsTexts, TextInv
<1>6. \A p \in DOMAIN disk.texts :
        p \in DOMAIN disk'.texts /\ TextLines(disk'.texts[p]) = TextLines(disk.texts[p])
  BY <1>2, <1>3 DEF KeepsTexts
<1> QED
  BY <1>5, <1>6

(* An edit of lib.rs by hand.                                                *)
LEMMA HandsKeep ==
    ASSUME TextInv, HandEdit
    PROVE  TextInv'
<1> DEFINE lib == disk.texts[Lib]
<1>1. PICK new \in {Append(lib, Text("user"))}
                     \cup {RemoveAt(lib, i) : i \in {k \in DOMAIN lib : IsMarker(lib[k])}} :
        disk' = [disk EXCEPT !.texts[Lib] = new]
  BY DEF HandEdit
<1>2. Lib \in DOMAIN disk.texts /\ graph' = graph /\ packages' = packages
  BY DEF HandEdit
<1>3. IsText(lib)
  BY <1>2 DEF TextInv, IsDisk
<1> HIDE DEF lib
<1>4. IsText(new)
  BY <1>1, <1>3, UserWrites, UserDeletes
<1>5. /\ disk'.texts = [disk.texts EXCEPT ![Lib] = new] /\ IsMap(disk'.texts)
      /\ disk'.modules = disk.modules
  BY <1>1 DEF TextInv, IsDisk, IsMap
<1>6. \A p \in DOMAIN disk'.texts : IsText(disk'.texts[p])
  BY <1>2, <1>4, <1>5 DEF TextInv, IsDisk
<1>7. disk' = [modules |-> disk'.modules, texts |-> disk'.texts, main |-> disk'.main,
               cargo |-> disk'.cargo, errors |-> disk'.errors]
  BY <1>1 DEF TextInv, IsDisk
<1> QED
  BY <1>2, <1>5, <1>6, <1>7 DEF TextInv, IsDisk

(* A package that comes or goes.                                             *)
LEMMA PackagesKeep ==
    ASSUME TextInv, ChangePackages
    PROVE  TextInv'
<1>1. IsFiniteSet(packages')
  <2>1. CASE \E p \in Packages \ packages : packages' = packages \cup {p}
    BY <2>1, FS_AddElement DEF TextInv
  <2>2. CASE packages' \subseteq packages
    BY <2>2, FS_Subset DEF TextInv
  <2> QED
    BY <2>1, <2>2 DEF ChangePackages
<1> QED
  BY <1>1 DEF TextInv, ChangePackages

(* The edits of the graph make graphs.                                       *)
LEMMA EditsMakeGraphs ==
    ASSUME IsGraph(graph), AddNode \/ RemoveNode \/ Connect \/ Disconnect
    PROVE  \E g : IsGraph(g) /\ Save(g)
<1>0. /\ graph = [nodes |-> graph.nodes, edges |-> graph.edges]
      /\ graph.nodes \in Seq(NodesOf(graph)) /\ IsFiniteSet(graph.edges)
  BY DEF IsGraph
<1>9. ASSUME NEW E PROVE [graph EXCEPT !.edges = E] = [nodes |-> graph.nodes, edges |-> E]
  BY <1>0
<1>1. CASE AddNode
  <2>1. PICK n \in Palette : Save([graph EXCEPT !.nodes = Append(@, n)])
    BY <1>1 DEF AddNode
  <2>2. [graph EXCEPT !.nodes = Append(@, n)]
          = [nodes |-> Append(graph.nodes, n), edges |-> graph.edges]
    BY <1>0
  <2>3. Append(graph.nodes, n) \in Seq(NodesOf(graph) \cup {n})
    <3> DEFINE N == NodesOf(graph) \cup {n}
    <3>1. NodesOf(graph) \subseteq N /\ n \in N
      OBVIOUS
    <3> HIDE DEF N
    <3>2. graph.nodes \in Seq(N)
      BY <1>0, <3>1
    <3>3. Append(graph.nodes, n) \in Seq(N)
      BY <3>1, <3>2
    <3> QED
      BY <3>3 DEF N
  <2> QED
    BY <1>0, <2>1, <2>2, <2>3, GraphsOf
<1>2. CASE RemoveNode
  <2> DEFINE Nodes(n) == Those(graph.nodes, NodesOf(graph) \ {n})
             Edges(n) == {e \in graph.edges : n.id \notin {e.s, e.d}}
  <2>1. PICK n \in NodesOf(graph) : Save([nodes |-> Nodes(n), edges |-> Edges(n)])
    BY <1>2 DEF RemoveNode
  <2>2. Nodes(n) \in Seq(NodesOf(graph))
    BY <1>0, ThoseMembers
  <2>3. IsFiniteSet(Edges(n))
    BY <1>0, FS_Subset
  <2> HIDE DEF Nodes, Edges
  <2> QED
    BY <2>1, <2>2, <2>3, GraphsOf
<1>3. CASE Connect
  <2>1. PICK e : Save([graph EXCEPT !.edges = @ \cup {e}])
    BY <1>3 DEF Connect
  <2>2. [graph EXCEPT !.edges = @ \cup {e}]
          = [nodes |-> graph.nodes, edges |-> graph.edges \cup {e}]
    BY <1>9, Zenon
  <2>3. IsFiniteSet(graph.edges \cup {e})
    BY <1>0, FS_AddElement
  <2> QED
    BY <1>0, <2>1, <2>2, <2>3, GraphsOf
<1>4. CASE Disconnect
  <2>1. PICK e \in graph.edges : Save([graph EXCEPT !.edges = @ \ {e}])
    BY <1>4 DEF Disconnect
  <2>2. [graph EXCEPT !.edges = @ \ {e}] = [nodes |-> graph.nodes, edges |-> graph.edges \ {e}]
    BY <1>9, Zenon
  <2>3. IsFiniteSet(graph.edges \ {e})
    BY <1>0, FS_RemoveElement
  <2> QED
    BY <1>0, <2>1, <2>2, <2>3, GraphsOf
<1> QED
  BY <1>1, <1>2, <1>3, <1>4

(* The invariant of a session. *)
THEOREM SessionsKeepTexts == Spec => []TextInv
<1>1. Init => TextInv
  <2> SUFFICES ASSUME Init PROVE TextInv
    OBVIOUS
  <2>1. IsGraph(graph) /\ packages = {} /\ disk = Empty
    BY GraphsAssumption DEF Init
  <2>2. IsDisk(Empty)
    <3>1. DOMAIN Empty.texts = {} /\ IsMap(Empty.texts) /\ IsMap(Empty.modules)
      BY DEF Empty, IsMap
    <3> QED
      BY <3>1 DEF IsDisk, Empty
  <2> QED
    BY <2>1, <2>2, FS_EmptySet DEF TextInv
<1>2. TextInv /\ [Next]_vars => TextInv'
  <2> SUFFICES ASSUME TextInv, [Next]_vars PROVE TextInv'
    OBVIOUS
  <2>1. CASE AddNode \/ RemoveNode \/ Connect \/ Disconnect
    BY <2>1, EditsMakeGraphs, SaveKeepsText DEF TextInv
  <2>2. CASE ChangePackages
    BY <2>2, PackagesKeep
  <2>6. CASE ChangeMarket
    BY <2>6 DEF ChangeMarket, TextInv
  <2>3. CASE HandEdit
    BY <2>3, HandsKeep
  <2>4. CASE Generate \/ Crash
    BY <2>4, GenerationKeeps
  <2>5. CASE UNCHANGED vars
    BY <2>5 DEF vars, TextInv
  <2> QED
    BY <2>1, <2>2, <2>3, <2>4, <2>5, <2>6 DEF Next
<1> QED
  BY <1>1, <1>2, PTL DEF Spec

(* In every session: no generation, whole, failed or cut off, touches a line *)
(* of lib.rs or of a mod.rs outside the regions (regions.rs 27, merge).      *)
THEOREM UserTextIsKept == Spec => UserTextKept
<1> DEFINE Kept1 ==
      (Generate \/ Crash) =>
         \A p \in DOMAIN disk.texts :
           p \in DOMAIN disk'.texts /\ TextLines(disk'.texts[p]) = TextLines(disk.texts[p])
<1>1. TextInv /\ [Next]_vars => [Kept1]_vars
  BY GenerationKeeps
<1> QED
  BY <1>1, SessionsKeepTexts, PTL DEF Spec, UserTextKept

(* A write goes on, fails, or hangs in a walk that never ends.               *)
EndsAs(status, g) ==
    \/ status = "running" \/ status = "panicked" \/ status = "failed"
    \/ status = "hung" /\ NeverEnds(g)

(* ... after any write,                                                      *)
LEMMA WriteEnds ==
  ASSUME NEW old, NEW r, KeepsTexts(old, r), NEW s, NEW g, NEW pk, EndsAs(r.status, g)
  PROVE  EndsAs(Write(r, s, g, pk).status, g)
<1>1. \/ Write(r, s, g, pk) = r
      \/ Write(r, s, g, pk) = [r EXCEPT !.disk.errors = Framework(g)]
      \/ Write(r, s, g, pk) = WriteNode(r, g, s[2])
      \/ Write(r, s, g, pk) = [r EXCEPT !.disk.main = Main(g)]
      \/ Write(r, s, g, pk) = WriteLib(r, g, pk)
      \/ Write(r, s, g, pk) = WriteDir(r, g, s[2])
      \/ Write(r, s, g, pk) = [r EXCEPT !.disk.cargo = Cargo(g)]
      \/ Write(r, s, g, pk) = WritePackage(r, pk, s[2])
  BY DEF Write
<1>2. r = [disk |-> r.disk, status |-> r.status]
  BY DEF KeepsTexts
<1>3. ASSUME NEW x PROVE /\ [r EXCEPT !.status = x].status = x
                         /\ [r EXCEPT !.disk = x].status = r.status
  BY <1>2
<1>4. ASSUME NEW x PROVE /\ [r EXCEPT !.disk.errors = x].status = r.status
                         /\ [r EXCEPT !.disk.main = x].status = r.status
                         /\ [r EXCEPT !.disk.cargo = x].status = r.status
                         /\ [r EXCEPT !.disk.modules = x].status = r.status
                         /\ [r EXCEPT !.disk.texts = x].status = r.status
  BY <1>2
<1>5. WriteNode(r, g, s[2]).status \in {r.status, "panicked", "failed"}
  <2>1. \/ WriteNode(r, g, s[2]) = [r EXCEPT !.status = "panicked"]
        \/ WriteNode(r, g, s[2]) = [r EXCEPT !.status = "failed"]
        \/ WriteNode(r, g, s[2])
             = [r EXCEPT !.disk.modules = Put(r.disk.modules, File(s[2]), Exports(g, s[2]))]
        \/ WriteNode(r, g, s[2]) = r
    BY <1>2 DEF WriteNode
  <2> QED
    BY <1>3, <1>4, <2>1
<1>6. \/ WriteLib(r, g, pk).status \in {r.status, "panicked", "failed"}
      \/ NeverEnds(g) /\ WriteLib(r, g, pk).status = "hung"
  <2>1. \/ WriteLib(r, g, pk) = [r EXCEPT !.status = "failed"]
        \/ NeverEnds(g) /\ WriteLib(r, g, pk) = [r EXCEPT !.status = "hung"]
        \/ \E t : WriteLib(r, g, pk) = [r EXCEPT !.disk.texts = t]
    BY <1>2 DEF WriteLib
  <2> QED
    BY <1>3, <1>4, <2>1
<1>7. WriteDir(r, g, s[2]).status \in {r.status, "panicked", "failed"}
  <2>1. \/ WriteDir(r, g, s[2]) = [r EXCEPT !.status = "failed"]
        \/ \E t : WriteDir(r, g, s[2]) = [r EXCEPT !.disk.texts = t]
    BY <1>2 DEF WriteDir
  <2> QED
    BY <1>3, <1>4, <2>1
<1>8. WritePackage(r, pk, s[2]).status = r.status
  <2>1. \E t : WritePackage(r, pk, s[2]) = [r EXCEPT !.disk.texts = t]
    BY <1>2 DEF WritePackage
  <2> QED
    BY <1>4, <2>1
<1>9. \/ Write(r, s, g, pk).status \in {r.status, "panicked", "failed"}
      \/ NeverEnds(g) /\ Write(r, s, g, pk).status = "hung"
  BY <1>1, <1>4, <1>5, <1>6, <1>7, <1>8
<1> DEFINE w == Write(r, s, g, pk).status
           v == r.status
<1>10. EndsAs(v, g) /\ (w \in {v, "panicked", "failed"} \/ (NeverEnds(g) /\ w = "hung"))
  BY <1>9
<1> HIDE DEF w, v
<1>11. EndsAs(w, g)
  BY <1>10 DEF EndsAs
<1> QED
  BY <1>11 DEF w

(* ... and so after all of them.                                             *)
LEMMA RunEnds ==
  ASSUME NEW steps, Len(steps) \in Nat, IsGraph(graph), IsDisk(disk)
  PROVE  EndsAs(Run(steps).status, graph)
<1>1. PICK R : IsRun(R, disk, steps, graph, packages) /\ Run(steps) = R[Len(steps)]
  BY RunsAlong, RunIsRunOf
<1> DEFINE N == Len(steps)
           T == {n \in Nat : n <= N => EndsAs(R[n].status, graph)}
<1>2. 0 \in T
  <2>1. R[0].status = "running"
    BY <1>1 DEF IsRun
  <2>2. EndsAs("running", graph)
    BY DEF EndsAs
  <2> QED
    BY <2>1, <2>2
<1>3. ASSUME NEW n \in Nat, n \in T PROVE n + 1 \in T
  <2> SUFFICES ASSUME n + 1 <= N PROVE EndsAs(R[n + 1].status, graph)
    OBVIOUS
  <2>1. R[n + 1] = Write(R[n], steps[n + 1], graph, packages) /\ n \in 0..N
    BY <1>1 DEF IsRun
  <2>2. KeepsTexts(disk.texts, R[n])
    BY <1>1, <2>1, RunOfKeeps
  <2> QED
    BY <1>3, <2>1, <2>2, WriteEnds
<1>4. Nat \subseteq T
  <2> HIDE DEF T
  <2> QED
    BY <1>2, <1>3, NatBySets
<1> QED
  BY <1>1, <1>4
-----------------------------------------------------------------------------
(* What a task reaches, it reaches further along an edge (mark_reachable).   *)
LEMMA ReachesOn ==
    ASSUME NEW g, NEW id, NEW e \in g.edges, e.s \in Reachable(g, id)
    PROVE  e.d \in Reachable(g, id)
<1>1. e.d \in Places(g)
  BY DEF Places
<1>2. ASSUME NEW S \in SUBSET Places(g), id \in S, Closed(g, S)
      PROVE  e.d \in S
  <2>1. e.s \in S
    BY <1>2 DEF Reachable
  <2>2. QED
    BY <2>1, <1>2 DEF Closed
<1>3. QED
  BY <1>1, <1>2 DEF Reachable

(* No value is ever shared between tasks, whatever the graph: the branch of  *)
(* dataflow.rs 123-127 for it is never taken.                                *)
THEOREM NothingIsShared == \A g, v : ~IsShared(g, v)
<1> SUFFICES ASSUME NEW g, NEW v, NEW e \in Uses(g, v), NodeTasks(g, e.s) # {}
             PROVE  NodeTasks(g, e.s) \cap NodeTasks(g, e.d) # {}
  BY DEF IsShared
<1>1. e \in g.edges
  BY DEF Uses
<1>2. PICK m \in NodesOf(g) : StartsTask(m) /\ e.s \in Reachable(g, m.id)
  BY DEF NodeTasks
<1>3. e.d \in Reachable(g, m.id)
  BY <1>1, <1>2, ReachesOn
<1>4. TaskOf(m) \in NodeTasks(g, e.s) /\ TaskOf(m) \in NodeTasks(g, e.d)
  BY <1>2, <1>3 DEF NodeTasks
<1>5. QED
  BY <1>4
-----------------------------------------------------------------------------
(* No output port takes two edges, in any template of the catalogue.         *)
Single(ports) == \A p \in ports : ~p.many

(* The templates of templates/builtins/core.rs.                              *)
LEMMA CoreOutputs == \A T \in CoreCatalogue : Single(T.outs)
<1>1. Single(EntryPoint.outs) /\ Single(HttpRoute.outs) /\ Single(HttpMiddleware.outs)
  BY DEF EntryPoint, HttpRoute, HttpMiddleware, Template, Port, Single
<1>2. Single(HttpHandler.outs) /\ Single(CoreService.outs) /\ Single(CoreDto.outs)
  BY DEF HttpHandler, CoreService, CoreDto, Template, Port, Single
<1>3. Single(ObservabilityLogger.outs) /\ Single(ParserJson.outs) /\ Single(ParserXml.outs)
  BY DEF ObservabilityLogger, ParserJson, ParserXml, Template, Port, Single
<1>4. Single(ParserProtobuf.outs) /\ Single(IntegrationConsumerPlaceholder.outs) /\
     Single(IntegrationSchedulerPlaceholder.outs)
  BY DEF ParserProtobuf, IntegrationConsumerPlaceholder, IntegrationSchedulerPlaceholder, Template,
         Port, Single
<1>5. QED
  BY <1>1, <1>2, <1>3, <1>4 DEF CoreCatalogue

(* The consumers and the connectors.                                         *)
LEMMA ConnectorOutputs == \A T \in ConnectorCatalogue : Single(T.outs)
<1>1. Single(KafkaConsumer.outs) /\ Single(Scheduler.outs) /\ Single(FileTail.outs)
  BY DEF KafkaConsumer, Scheduler, FileTail, Ingest, Template, Port, Single
<1>2. Single(KafkaProducer.outs) /\ Single(Redis.outs) /\ Single(SqlConnector.outs)
  BY DEF KafkaProducer, Redis, SqlConnector, Connector, Template, Port, Single
<1>3. Single(HttpClient.outs) /\ Single(DbWriter.outs)
  BY DEF HttpClient, DbWriter, Connector, Template, Port, Single
<1>4. Single(ScyllaDb.outs) /\ Single(MongoDb.outs) /\ Single(Nats.outs) /\ Single(SurrealDb.outs)
  BY DEF ScyllaDb, MongoDb, Nats, SurrealDb, Marketplace, Template, Port, Single
<1>5. Single(ClickHouse.outs) /\ Single(S3.outs) /\ Single(WebRtc.outs) /\ Single(RabbitMq.outs)
  BY DEF ClickHouse, S3, WebRtc, RabbitMq, Marketplace, Template, Port, Single
<1>6. QED
  BY <1>1, <1>2, <1>3, <1>4, <1>5 DEF ConnectorCatalogue

(* The operators on streams.                                                 *)
LEMMA StreamOutputs == \A T \in StreamCatalogue : Single(T.outs)
<1>1. Single(StreamFilter.outs) /\ Single(StreamMap.outs) /\ Single(StreamSelect.outs)
  BY DEF StreamFilter, StreamMap, StreamSelect, Operator, Template, Port, Single
<1>2. Single(StreamUnion.outs) /\ Single(StreamJoin.outs)
  BY DEF StreamUnion, StreamJoin, Operator, Template, Port, Single
<1>3. Single(StreamWindow.outs) /\ Single(StreamPattern.outs)
  BY DEF StreamWindow, StreamPattern, Operator, Template, Port, Single
<1>4. QED
  BY <1>1, <1>2, <1>3 DEF StreamCatalogue

(* The blocks of the language.                                               *)
LEMMA LanguageOutputs == \A T \in LanguageCatalogue : Single(T.outs)
<1>1. Single(LanguageStruct.outs) /\ Single(LanguageEnum.outs) /\ Single(LanguageFn.outs)
  BY DEF LanguageStruct, LanguageEnum, LanguageFn, TypeDefinition, Template, Port, Single
<1>2. Single(LanguageIfElse.outs) /\ Single(LanguageMatch.outs) /\ Single(LanguageLoop.outs)
  BY DEF LanguageIfElse, LanguageMatch, LanguageLoop, Expression, LanguageFn, Template, Port,
         Single
<1>3. Single(LanguageClone.outs) /\ Single(LanguagePropagate.outs)
  BY DEF LanguageClone, LanguagePropagate, Expression, LanguageFn, Template, Port, Single
<1>4. Single(LanguageAwait.outs) /\ Single(LanguagePointer.outs)
  BY DEF LanguageAwait, LanguagePointer, Expression, LanguageFn, Template, Port, Single
<1>5. QED
  BY <1>1, <1>2, <1>3, <1>4 DEF LanguageCatalogue

(* The helpers of tokio.                                                     *)
LEMMA TokioOutputs == \A T \in TokioCatalogue : Single(T.outs)
<1>1. Single(TokioMpsc.outs) /\ Single(TokioBroadcast.outs) /\ Single(TokioMutex.outs) /\
     Single(TokioRwLock.outs)
  BY DEF TokioMpsc, TokioBroadcast, TokioMutex, TokioRwLock, Helper, Template, Single
<1>2. Single(TokioInterval.outs) /\ Single(TokioSemaphore.outs) /\ Single(TokioSpawn.outs) /\
     Single(TokioSpawnBlocking.outs)
  BY DEF TokioInterval, TokioSemaphore, TokioSpawn, TokioSpawnBlocking, Helper, Template, Single
<1>3. Single(TokioSelect.outs) /\ Single(TokioJoin.outs) /\ Single(TokioSleep.outs) /\
     Single(TokioNotify.outs)
  BY DEF TokioSelect, TokioJoin, TokioSleep, TokioNotify, Helper, Template, Single
<1>4. QED
  BY <1>1, <1>2, <1>3 DEF TokioCatalogue

(* The custom blocks, WebAssembly and gRPC.                                  *)
LEMMA PluginOutputs == \A T \in PluginCatalogue : Single(T.outs)
<1>1. Single(CustomBlock.outs) /\ Single(WasmRunner.outs)
  BY DEF CustomBlock, WasmRunner, Template, Port, Single
<1>2. Single(GrpcServer.outs) /\ Single(GrpcClient.outs)
  BY DEF GrpcServer, GrpcClient, Template, Port, Single
<1>3. QED
  BY <1>1, <1>2 DEF PluginCatalogue

(* ... and in any node whose template is registered (get_port_spec).         *)
LEMMA OutputsAreSingle ==
    ASSUME NEW n, n.t \in Registry
    PROVE  Single(PortSpecs(n).outs)
<1>1. \A T \in Registry : Single(T.outs)
  BY CoreOutputs, ConnectorOutputs, StreamOutputs, LanguageOutputs, TokioOutputs, PluginOutputs
  DEF Registry
<1>2. CASE n.t.id = "custom.block"
  BY <1>2 DEF PortSpecs, ParseSignature, Port, Single
<1>3. CASE n.t.id = "grpc.server"
  BY <1>3 DEF PortSpecs, ParseProtoPorts, Port, Single
<1>4. CASE n.t.id # "custom.block" /\ n.t.id # "grpc.server"
  BY <1>1, <1>4 DEF PortSpecs
<1>5. QED
  BY <1>2, <1>3, <1>4

(* A value of a graph that validates has one use.                            *)
LEMMA UsedOnce ==
    ASSUME NEW g, Savable(g), IsFiniteSet(g.edges), NEW v \in Values(g)
    PROVE  Cardinality(Uses(g, v)) \in Nat /\ Cardinality(Uses(g, v)) <= 1
<1>1. PICK e \in g.edges : v = Value(e)
  BY DEF Values
<1> DEFINE n == NodeOf(g, e.s)
<1>2. n \in NodesOf(g) /\ n.id = e.s
  BY DEF Savable, ValidateGraph, HasNode, NodeOf
<1>3. PICK p \in PortSpecs(n).outs : p.name = e.sp
  BY DEF Savable, ValidateGraph
<1>4. ~p.many
  BY <1>2, <1>3, OutputsAreSingle DEF Savable, ConfigValid, Single
<1>5. Cardinality(SourceEnds(g, n, p)) <= 1
  BY <1>2, <1>3, <1>4 DEF Savable, ValidateGraph
<1>6. Uses(g, v) = SourceEnds(g, n, p)
  BY <1>1, <1>2, <1>3 DEF Uses, Value, SourceEnds
<1>7. IsFiniteSet(Uses(g, v))
  BY FS_Subset DEF Uses
<1>8. QED
  BY <1>5, <1>6, <1>7, FS_CardinalityType

(* The value of every edge of a saved graph is moved.                        *)
LEMMA ValuesMove ==
    ASSUME NEW g, Savable(g), IsFiniteSet(g.edges), NEW v \in Values(g), NEW mut \in BOOLEAN
    PROVE  Analyze(g)[v][mut] = "Move"
<1>1. ~IsShared(g, v)
  BY NothingIsShared
<1>2. ~(Cardinality(Uses(g, v)) > 1)
  BY UsedOnce
<1>3. Analyze(g)[v][mut] = BindingMode(IsShared(g, v), mut, Cardinality(Uses(g, v)))
  BY DEF Analyze
<1>4. QED
  BY <1>1, <1>2, <1>3 DEF BindingMode
-----------------------------------------------------------------------------
(* What a session keeps of its graph: one that was saved passes the check of *)
(* PUT graph.                                                                *)
GraphInv == IsGraph(graph) /\ (saved => Savable(graph))

(* Whatever is edited, and refused, a saved graph passes the check of PUT.   *)
THEOREM SavedGraphsAreSavable == Spec => []GraphInv
<1>1. Init => GraphInv
  BY GraphsAssumption DEF Init, GraphInv
<1>2. GraphInv /\ [Next]_vars => GraphInv'
  <2> SUFFICES ASSUME GraphInv, [Next]_vars
               PROVE  GraphInv'
    OBVIOUS
  <2>1. CASE AddNode \/ RemoveNode \/ Connect \/ Disconnect
    <3>1. PICK g : IsGraph(g) /\ Save(g)
      BY <2>1, EditsMakeGraphs DEF GraphInv
    <3> QED
      BY <3>1 DEF Save, GraphInv
  <2>2. CASE ChangePackages \/ ChangeMarket \/ HandEdit \/ Generate \/ Crash
    BY <2>2 DEF ChangePackages, ChangeMarket, HandEdit, Generate, Crash, GraphInv
  <2>3. CASE UNCHANGED vars
    BY <2>3 DEF vars, GraphInv
  <2> QED
    BY <2>1, <2>2, <2>3 DEF Next
<1>3. QED
  BY <1>1, <1>2, PTL DEF Spec

(* In every session, whatever is edited, imported or generated, a value of a *)
(* saved graph is moved, never borrowed or put behind a lock.                *)
THEOREM ValuesOfSavedGraphsMove == Spec => []SavedValuesMove
<1>1. GraphInv => SavedValuesMove
  BY ValuesMove DEF GraphInv, IsGraph, SavedValuesMove
<1>2. QED
  BY <1>1, SavedGraphsAreSavable, PTL

-----------------------------------------------------------------------------
(* The walk from a route ends in every graph that can be saved.              *)

(* The walk, step by step. *)
AreWalks(f, g, base, N) == f = [n \in 0..N |-> IF n = 0 THEN base ELSE WalkStep(g, f[n - 1])]

(* There is such a walk of any length.                                       *)
LEMMA WalksExist ==
  ASSUME NEW g, NEW base, NEW N \in Nat
  PROVE  \E f : AreWalks(f, g, base, N)
<1> DEFINE Do(w) == WalkStep(g, w)
           Upto(f, m) == f = [n \in 0..m |-> IF n = 0 THEN base ELSE Do(f[n - 1])]
           T == {m \in Nat : \E f : Upto(f, m)}
<1>1. 0 \in T
  <2> DEFINE f == [n \in 0..0 |-> base]
  <2> HIDE DEF Do
  <2>1. Upto(f, 0)
    OBVIOUS
  <2> QED
    BY <2>1
<1>2. ASSUME NEW m \in Nat, m \in T PROVE m + 1 \in T
  <2>1. PICK f : Upto(f, m)
    BY <1>2
  <2> DEFINE h == [n \in 0..(m + 1) |-> IF n = m + 1 THEN Do(f[m]) ELSE f[n]]
  <2> HIDE DEF Do
  <2>2. ASSUME NEW n \in 0..(m + 1)
        PROVE  h[n] = IF n = 0 THEN base ELSE Do(h[n - 1])
    <3>1. CASE n = m + 1
      BY <3>1
    <3>2. CASE n \in 0..m
      BY <2>1, <3>2
    <3> QED
      BY <3>1, <3>2
  <2>3. h = [n \in 0..(m + 1) |-> IF n = 0 THEN base ELSE Do(h[n - 1])]
    <3>1. h = [n \in 0..(m + 1) |-> h[n]]
      OBVIOUS
    <3> HIDE DEF h
    <3> QED
      BY <2>2, <3>1
  <2> HIDE DEF h
  <2> QED
    BY <2>3
<1>3. N \in T
  <2> HIDE DEF T
  <2> QED
    BY <1>1, <1>2, NatBySets
<1> QED
  BY <1>3 DEF AreWalks

(* A middleware has one way in, and leaves by its port handler.              *)
LEMMA OneWayIn ==
  ASSUME NEW n, n.t \in Registry, n.t.id = "http.middleware"
  PROVE  PortSpecs(n).ins = {Port("request", "http.request")}
<1>1. HttpMiddleware.id = "http.middleware"
      /\ HttpMiddleware.ins = {Port("request", "http.request")}
  BY DEF HttpMiddleware, Template
<1>2. HttpMiddleware \in Registry
  BY DEF Registry, CoreCatalogue
<1>3. n.t = HttpMiddleware
  BY <1>1, <1>2, RegistryAssumption DEF UniqueIds
<1>4. PortSpecs(n) = [ins |-> n.t.ins, outs |-> n.t.outs]
  BY DEF PortSpecs
<1> QED
  BY <1>1, <1>3, <1>4

(* Two edges of a graph that validates that end in one middleware are one.   *)
LEMMA OneEdgeIn ==
  ASSUME NEW g, Savable(g), IsFiniteSet(g.edges), NEW d \in g.edges, NEW e \in g.edges,
         d.d = e.d, NodeOf(g, e.d).t.id = "http.middleware"
  PROVE  d = e
<1> DEFINE n == NodeOf(g, e.d)
           p == Port("request", "http.request")
           In == TargetEnds(g, n, p)
<1>1. n \in NodesOf(g) /\ n.id = e.d
  BY DEF Savable, ValidateGraph, HasNode, NodeOf
<1>2. n.t \in Registry
  BY <1>1 DEF Savable, ConfigValid
<1>3. PortSpecs(n).ins = {p}
  BY <1>2, OneWayIn
<1>4. p.name = "request" /\ ~p.many
  BY DEF Port
<1> HIDE DEF p
<1>5. d.dp = "request" /\ e.dp = "request"
  <2>1. \A x \in g.edges : x.d = e.d => \E q \in PortSpecs(n).ins : q.name = x.dp
    BY DEF Savable, ValidateGraph
  <2> HIDE DEF n
  <2> QED
    BY <1>3, <1>4, <2>1
<1>6. d \in In /\ e \in In
  BY <1>1, <1>4, <1>5 DEF TargetEnds
<1>7. Cardinality(In) <= 1
  BY <1>1, <1>3, <1>4 DEF Savable, ValidateGraph
<1>8. IsFiniteSet(In)
  BY FS_Subset DEF TargetEnds
<1> HIDE DEF In, n
<1>9. Cardinality({d, e}) <= 1 /\ IsFiniteSet({d, e})
  <2>1. {d, e} \subseteq In
    BY <1>6
  <2>2. IsFiniteSet({d, e}) /\ Cardinality({d, e}) <= Cardinality(In)
    BY <1>8, <2>1, FS_Subset
  <2>3. Cardinality(In) \in Nat /\ Cardinality({d, e}) \in Nat
    BY <1>8, <2>2, FS_CardinalityType
  <2> QED
    BY <1>7, <2>2, <2>3
<1>10. SUFFICES ASSUME d # e PROVE FALSE
  OBVIOUS
<1>11. Cardinality({d}) = 1 /\ IsFiniteSet({d})
  BY FS_Singleton
<1>12. Cardinality({d} \cup {e}) = Cardinality({d}) + 1
  BY <1>10, <1>11, FS_AddElement
<1>13. {d} \cup {e} = {d, e}
  OBVIOUS
<1> QED
  BY <1>9, <1>11, <1>12, <1>13

(* One step along the chain.                                                 *)
IsWalk(w) == w = [at |-> w.at, wraps |-> w.wraps, handler |-> w.handler]

(* A walk goes on from a middleware only.                                    *)
LEMMA StepsAlong ==
  ASSUME NEW g, NEW w, IsWalk(w)
  PROVE  /\ IsWalk(WalkStep(g, w))
         /\ WalkStep(g, w).at # Nowhere =>
              /\ w.at # Nowhere /\ NodeOf(g, w.at).t.id = "http.middleware"
              /\ WalkStep(g, w).at = Wired(g, w.at, "handler")
<1> DEFINE n == NodeOf(g, w.at)
<1>1. ASSUME NEW x, NEW y
      PROVE  [w EXCEPT !.at = x, !.wraps = y] = [at |-> x, wraps |-> y, handler |-> w.handler]
  <2> DEFINE v == [w EXCEPT !.at = x]
  <2>1. v = [at |-> x, wraps |-> w.wraps, handler |-> w.handler]
    BY DEF IsWalk
  <2> HIDE DEF v
  <2>2. [v EXCEPT !.wraps = y] = [at |-> x, wraps |-> y, handler |-> w.handler]
    BY <2>1
  <2>3. [w EXCEPT !.at = x, !.wraps = y] = [v EXCEPT !.wraps = y]
    BY DEF v
  <2> QED
    BY <2>2, <2>3
<1>2. ASSUME NEW x, NEW y
      PROVE  [w EXCEPT !.at = x, !.handler = y] = [at |-> x, wraps |-> w.wraps, handler |-> y]
  <2> DEFINE v == [w EXCEPT !.at = x]
  <2>1. v = [at |-> x, wraps |-> w.wraps, handler |-> w.handler]
    BY DEF IsWalk
  <2> HIDE DEF v
  <2>2. [v EXCEPT !.handler = y] = [at |-> x, wraps |-> w.wraps, handler |-> y]
    BY <2>1
  <2>3. [w EXCEPT !.at = x, !.handler = y] = [v EXCEPT !.handler = y]
    BY DEF v
  <2> QED
    BY <2>2, <2>3
<1>3. \A x : [w EXCEPT !.at = x] = [at |-> x, wraps |-> w.wraps, handler |-> w.handler]
  BY DEF IsWalk
<1>4. [w EXCEPT !.wraps = Append(@, n.name)] = [w EXCEPT !.wraps = Append(w.wraps, n.name)]
  BY DEF IsWalk
<1>5. CASE w.at = Nowhere
  BY <1>5 DEF WalkStep
<1>6. CASE w.at # Nowhere /\ n.t.id = "http.middleware"
  <2> DEFINE a == Wired(g, w.at, "handler")
             b == Append(w.wraps, n.name)
             v == [at |-> a, wraps |-> b, handler |-> w.handler]
  <2>1. WalkStep(g, w) = [w EXCEPT !.at = a, !.wraps = b]
    BY <1>6 DEF WalkStep, IsWalk
  <2> HIDE DEF a, b, n
  <2>2. WalkStep(g, w) = v
    BY <1>1, <2>1
  <2>3. v.at = a /\ IsWalk(v)
    BY DEF IsWalk
  <2> QED
    BY <1>6, <2>2, <2>3 DEF a, n
<1>7. CASE w.at # Nowhere /\ n.t.id = "http.handler"
  <2>1. WalkStep(g, w) = [w EXCEPT !.at = Nowhere, !.handler = n.name]
    BY <1>7 DEF WalkStep
  <2>2. WalkStep(g, w) = [at |-> Nowhere, wraps |-> w.wraps, handler |-> n.name]
    BY <1>2, <2>1
  <2> QED
    BY <2>2 DEF IsWalk
<1>8. CASE w.at # Nowhere /\ n.t.id # "http.middleware" /\ n.t.id # "http.handler"
  <2>1. WalkStep(g, w) = [w EXCEPT !.at = Nowhere]
    BY <1>8 DEF WalkStep
  <2>2. WalkStep(g, w) = [at |-> Nowhere, wraps |-> w.wraps, handler |-> w.handler]
    BY <1>3, <2>1
  <2> QED
    BY <2>2 DEF IsWalk
<1> QED
  BY <1>5, <1>6, <1>7, <1>8

(* An edge leads where something is wired.                                   *)
LEMMA WiredByEdge ==
  ASSUME NEW g, NEW id, NEW port, Wired(g, id, port) # Nowhere
  PROVE  \E e \in g.edges : e.s = id /\ e.sp = port /\ e.d = Wired(g, id, port)
  BY DEF Wired

(* No middleware is met twice along a chain of edges that validate, since    *)
(* each has one way in: the chain is no longer than the list of the nodes.   *)
LEMMA WalkEnds ==
  ASSUME NEW g, IsGraph(g), Savable(g), NEW route
  PROVE  Walk(g, route).at = Nowhere
<1> DEFINE N == Len(g.nodes)
           base == [at |-> Wired(g, route.id, "request"), wraps |-> <<>>, handler |-> Absent]
           Do(w) == WalkStep(g, w)
           W == CHOOSE f : f = [n \in 0..N + 1 |-> IF n = 0 THEN base ELSE Do(f[n - 1])]
           At(n) == W[n].at
<1>1. N \in Nat /\ DOMAIN g.nodes = 1..N /\ IsFiniteSet(g.edges)
  BY DEF IsGraph
<1>2. W = [n \in 0..N + 1 |-> IF n = 0 THEN base ELSE Do(W[n - 1])]
  <2>1. N + 1 \in Nat
    BY <1>1
  <2>2. \E f : AreWalks(f, g, base, N + 1)
    <3> HIDE DEF base, N, W, Do
    <3> QED
      BY <2>1, WalksExist
  <2>3. \E f : f = [n \in 0..N + 1 |-> IF n = 0 THEN base ELSE Do(f[n - 1])]
    <3> HIDE DEF base, N, W
    <3> QED
      BY <2>2 DEF AreWalks
  <2> HIDE DEF Do, base, N
  <2> QED
    BY <2>3
<1>3. Walk(g, route) = W[N + 1]
  BY DEF Walk
<1>4. IsWalk(base) /\ base.at = Wired(g, route.id, "request")
  BY DEF IsWalk
<1>5. \A w : IsWalk(w) => IsWalk(Do(w))
  BY StepsAlong
<1> HIDE DEF W, N, base
<1>6. \A n \in 0..N : W[n + 1] = Do(W[n])
  <2> HIDE DEF Do
  <2> QED
    BY <1>1, <1>2
<1>7. W[0] = base
  BY <1>1, <1>2
<1>8. \A n \in 0..N + 1 : IsWalk(W[n])
  <2> DEFINE T == {n \in Nat : n <= N + 1 => IsWalk(W[n])}
  <2> HIDE DEF Do
  <2>1. 0 \in T
    BY <1>4, <1>7
  <2>2. ASSUME NEW n \in Nat, n \in T PROVE n + 1 \in T
    BY <1>1, <1>5, <1>6, <2>2
  <2>3. Nat \subseteq T
    <3> HIDE DEF T
    <3> QED
      BY <2>1, <2>2, NatBySets
  <2> QED
    BY <1>1, <2>3
<1>9. \A n \in 0..N : At(n + 1) # Nowhere =>
        /\ At(n) # Nowhere /\ NodeOf(g, At(n)).t.id = "http.middleware"
        /\ At(n + 1) = Wired(g, At(n), "handler")
  <2> SUFFICES ASSUME NEW n \in 0..N, At(n + 1) # Nowhere
               PROVE  /\ At(n) # Nowhere /\ NodeOf(g, At(n)).t.id = "http.middleware"
                      /\ At(n + 1) = Wired(g, At(n), "handler")
    OBVIOUS
  <2>1. W[n + 1] = WalkStep(g, W[n]) /\ IsWalk(W[n])
    BY <1>1, <1>6, <1>8
  <2> QED
    BY <2>1, StepsAlong
<1> HIDE DEF Do
<1>10. SUFFICES ASSUME At(N + 1) # Nowhere PROVE FALSE
  BY <1>3
<1>11. \A n \in 0..N + 1 : At(n) # Nowhere
  <2> DEFINE T == {k \in Nat : k <= N + 1 => At(N + 1 - k) # Nowhere}
  <2>1. 0 \in T
    BY <1>1, <1>10
  <2>2. ASSUME NEW k \in Nat, k \in T PROVE k + 1 \in T
    <3> SUFFICES ASSUME k + 1 <= N + 1 PROVE At(N + 1 - (k + 1)) # Nowhere
      OBVIOUS
    <3> DEFINE n == N + 1 - (k + 1)
    <3>1. n \in 0..N /\ n + 1 = N + 1 - k
      BY <1>1
    <3>2. At(n + 1) # Nowhere
      <4>1. At(N + 1 - k) # Nowhere
        BY <1>1, <2>2
      <4> HIDE DEF n, T
      <4> QED
        BY <3>1, <4>1
    <3> HIDE DEF n
    <3>3. At(n) # Nowhere
      BY <1>9, <3>1, <3>2
    <3> QED
      BY <3>3 DEF n
  <2>3. Nat \subseteq T
    <3> HIDE DEF T
    <3> QED
      BY <2>1, <2>2, NatBySets
  <2> SUFFICES ASSUME NEW n \in 0..N + 1 PROVE At(n) # Nowhere
    OBVIOUS
  <2>4. N + 1 - n \in T /\ N + 1 - n <= N + 1 /\ N + 1 - (N + 1 - n) = n
    BY <1>1, <2>3
  <2> QED
    BY <2>4
<1>12. \A n \in 0..N : /\ NodeOf(g, At(n)).t.id = "http.middleware"
                       /\ At(n + 1) = Wired(g, At(n), "handler")
  BY <1>1, <1>9, <1>11
<1>13. \E e \in g.edges : e.s = route.id /\ e.sp = "request" /\ e.d = At(0)
  <2>1. At(0) = Wired(g, route.id, "request") /\ At(0) # Nowhere
    BY <1>1, <1>4, <1>7, <1>11
  <2> QED
    BY <2>1, WiredByEdge
<1>14. ASSUME NEW n \in 0..N
       PROVE  \E e \in g.edges : e.s = At(n) /\ e.sp = "handler" /\ e.d = At(n + 1)
  <2>1. At(n + 1) = Wired(g, At(n), "handler") /\ At(n + 1) # Nowhere
    BY <1>1, <1>11, <1>12
  <2> HIDE DEF At
  <2> QED
    BY <2>1, WiredByEdge
<1> HIDE DEF At
<1>15. \A i, j \in 0..N : i < j => At(i) # At(j)
  <2> DEFINE T == {i \in Nat : \A j \in 0..N : i < j => At(i) # At(j)}
  <2>1. 0 \in T
    <3> SUFFICES ASSUME NEW j \in 0..N, 0 < j, At(0) = At(j) PROVE FALSE
      OBVIOUS
    <3>1. PICK d \in g.edges : d.s = route.id /\ d.sp = "request" /\ d.d = At(0)
      BY <1>13
    <3>2. j - 1 \in 0..N /\ (j - 1) + 1 = j
      BY <1>1
    <3>3. PICK e \in g.edges : e.s = At(j - 1) /\ e.sp = "handler" /\ e.d = At(j)
      BY <1>14, <3>2
    <3>4. d.d = e.d /\ NodeOf(g, e.d).t.id = "http.middleware"
      BY <1>12, <3>1, <3>3
    <3>5. d = e
      BY <1>1, <3>4, OneEdgeIn
    <3> QED
      BY <3>1, <3>3, <3>5
  <2>2. ASSUME NEW i \in Nat, i \in T PROVE i + 1 \in T
    <3> SUFFICES ASSUME NEW j \in 0..N, i + 1 < j, At(i + 1) = At(j) PROVE FALSE
      OBVIOUS
    <3>1. i \in 0..N /\ j - 1 \in 0..N /\ (j - 1) + 1 = j /\ i < j - 1
      BY <1>1
    <3>2. PICK d \in g.edges : d.s = At(i) /\ d.sp = "handler" /\ d.d = At(i + 1)
      BY <1>14, <3>1
    <3>3. PICK e \in g.edges : e.s = At(j - 1) /\ e.sp = "handler" /\ e.d = At(j)
      BY <1>14, <3>1
    <3>4. d.d = e.d /\ NodeOf(g, e.d).t.id = "http.middleware"
      BY <1>12, <3>2, <3>3
    <3>5. d = e
      BY <1>1, <3>4, OneEdgeIn
    <3>6. At(i) = At(j - 1)
      BY <3>2, <3>3, <3>5
    <3> QED
      BY <2>2, <3>1, <3>6
  <2>3. Nat \subseteq T
    <3> HIDE DEF T
    <3> QED
      BY <2>1, <2>2, NatBySets
  <2> QED
    BY <1>1, <2>3
<1>16. ASSUME NEW n \in 0..N PROVE \E k \in 1..N : g.nodes[k].id = At(n)
  <2>1. PICK e \in g.edges : e.d = At(n)
    <3>1. CASE n = 0
      BY <1>13, <3>1
    <3>2. CASE n # 0
      <4>1. n - 1 \in 0..N /\ (n - 1) + 1 = n
        BY <1>1, <3>2
      <4> QED
        BY <1>14, <4>1
    <3> QED
      BY <3>1, <3>2
  <2>2. \E m \in NodesOf(g) : m.id = At(n)
    BY <2>1 DEF Savable, ValidateGraph, HasNode
  <2> QED
    BY <1>1, <2>2 DEF NodesOf
<1> DEFINE Pos(n) == CHOOSE k \in 1..N : g.nodes[k].id = At(n)
           F == [n \in 0..N |-> Pos(n)]
<1>17. \A n \in 0..N : Pos(n) \in 1..N /\ g.nodes[Pos(n)].id = At(n)
  BY <1>16
<1> HIDE DEF Pos
<1>18. F \in [0..N -> 1..N] /\ \A n \in 0..N : F[n] = Pos(n)
  BY <1>17
<1> HIDE DEF F
<1>19. PICK x, y \in 0..N : x # y /\ F[x] = F[y]
  <2>1. IsFiniteSet(0..N) /\ Cardinality(0..N) = N + 1
    BY <1>1, FS_Interval
  <2>2. IsFiniteSet(1..N) /\ Cardinality(1..N) = N
    BY <1>1, FS_Interval
  <2>3. Cardinality(1..N) < Cardinality(0..N)
    BY <1>1, <2>1, <2>2
  <2> DEFINE S1 == 0..N
             T1 == 1..N
  <2>4. /\ IsFiniteSet(S1) /\ IsFiniteSet(T1)
      /\ Cardinality(T1) < Cardinality(S1)
      /\ F \in [S1 -> T1]
    BY <1>18, <2>1, <2>2, <2>3
  <2> HIDE DEF S1, T1
  <2>5. \E x, y \in S1 : x # y /\ F[x] = F[y]
    BY <2>4, FS_PigeonHole
  <2> QED
    BY <2>5 DEF S1
<1>20. At(x) = At(y)
  BY <1>17, <1>18, <1>19
<1>21. x < y \/ y < x
  BY <1>1, <1>19
<1> QED
  BY <1>15, <1>19, <1>20, <1>21

(* Every walk of a graph that can be saved does.                             *)
LEMMA SavableEnds ==
  ASSUME NEW g, IsGraph(g), Savable(g)
  PROVE  ~NeverEnds(g)
<1>1. \A i \in DOMAIN Walks(g) : Walks(g)[i] = Walk(g, OfType(g, "http.route")[i])
  BY DEF Walks
<1> QED
  BY <1>1, WalkEnds DEF NeverEnds
(* So the generations of a saved graph do not hang.                          *)
THEOREM GenerationsEnd == Spec => []SavedGraphsEnd
<1>1. Init => SavedGraphsEnd
  BY DEF Init, SavedGraphsEnd
<1>2. TextInv /\ GraphInv /\ SavedGraphsEnd /\ [Next]_vars => SavedGraphsEnd'
  <2> SUFFICES ASSUME TextInv, GraphInv, SavedGraphsEnd, [Next]_vars, saved' PROVE last' # "hung"
    BY DEF SavedGraphsEnd
  <2>1. CASE AddNode \/ RemoveNode \/ Connect \/ Disconnect
    <3>1. PICK g : Save(g)
      BY <2>1, EditsMakeGraphs DEF GraphInv
    <3> QED
      BY <3>1 DEF Save
  <2>2. CASE ChangePackages \/ ChangeMarket \/ HandEdit \/ Crash
    BY <2>2 DEF ChangePackages, ChangeMarket, HandEdit, Crash
  <2>3. CASE Generate
    <3> DEFINE steps == Steps(graph, packages)
    <3>1. saved /\ last' = IF Run(steps).status = "running" THEN "ok" ELSE Run(steps).status
      BY <2>3 DEF Generate
    <3>2. \E X : steps \in Seq(X)
      BY StepsAreAList DEF TextInv
    <3> HIDE DEF steps
    <3>3. ~NeverEnds(graph)
      BY <3>1, SavableEnds DEF GraphInv
    <3>4. Len(steps) \in Nat
      BY <3>2
    <3>5. Run(steps).status \in {"running", "panicked", "failed"}
      BY <3>3, <3>4, RunEnds DEF TextInv, EndsAs
    <3> QED
      BY <3>1, <3>5
  <2>4. CASE UNCHANGED vars
    BY <2>4 DEF vars, SavedGraphsEnd
  <2> QED
    BY <2>1, <2>2, <2>3, <2>4 DEF Next
<1> QED
  BY <1>1, <1>2, SessionsKeepTexts, SavedGraphsAreSavable, PTL DEF Spec
-----------------------------------------------------------------------------
(* A generation, part by part.                                               *)

(* What the server holds while it writes. *)
State(m, t, a, c, e) ==
    [disk |-> [modules |-> m, texts |-> t, main |-> a, cargo |-> c, errors |-> e],
     status |-> "running"]

(* The writes lead from r to r2. *)
RunsTo(r, steps, g, pk, r2) ==
    \E R : /\ R[0] = r /\ r2 = R[Len(steps)]
           /\ \A n \in 1..Len(steps) : R[n] = Write(R[n - 1], steps[n], g, pk)

(* What is written after a is written from where a led.                      *)
LEMMA RunSplits ==
  ASSUME NEW X, NEW a \in Seq(X), NEW b \in Seq(X), NEW r, NEW g, NEW pk, NEW r2,
         RunsTo(r, a \o b, g, pk, r2)
  PROVE  \E m : RunsTo(r, a, g, pk, m) /\ RunsTo(m, b, g, pk, r2)
<1> DEFINE c == a \o b
           A == Len(a)
           B == Len(b)
<1>1. /\ Len(c) = A + B /\ A \in Nat /\ B \in Nat
      /\ \A i \in 1..A : c[i] = a[i]
      /\ \A i \in 1..B : c[A + i] = b[i]
  OBVIOUS
<1>2. PICK R : /\ R[0] = r /\ r2 = R[Len(c)]
               /\ \A n \in 1..Len(c) : R[n] = Write(R[n - 1], c[n], g, pk)
  BY DEF RunsTo
<1> HIDE DEF c
<1>3. RunsTo(r, a, g, pk, R[A])
  <2>1. \A n \in 1..A : n \in 1..Len(c) /\ c[n] = a[n]
    BY <1>1
  <2>2. \A n \in 1..A : R[n] = Write(R[n - 1], a[n], g, pk)
    BY <1>2, <2>1
  <2> QED
    BY <1>2, <2>2 DEF RunsTo
<1>4. RunsTo(R[A], b, g, pk, r2)
  <2> DEFINE Q == [n \in 0..B |-> R[A + n]]
  <2>1. Q[0] = R[A] /\ Q[B] = r2
    BY <1>1, <1>2
  <2>2. ASSUME NEW n \in 1..B PROVE Q[n] = Write(Q[n - 1], b[n], g, pk)
    <3>1. A + n \in 1..Len(c) /\ (A + n) - 1 = A + (n - 1) /\ n \in 0..B /\ n - 1 \in 0..B
      BY <1>1
    <3>2. R[A + n] = Write(R[A + (n - 1)], c[A + n], g, pk)
      BY <1>2, <3>1
    <3>3. Q[n] = R[A + n] /\ Q[n - 1] = R[A + (n - 1)]
      BY <3>1
    <3> QED
      BY <1>1, <3>2, <3>3
  <2> HIDE DEF Q
  <2> QED
    BY <2>1, <2>2 DEF RunsTo
<1> QED
  BY <1>3, <1>4

(* One write, and two.                                                       *)
LEMMA RunOne ==
  ASSUME NEW r, NEW s, NEW g, NEW pk, NEW r2, RunsTo(r, <<s>>, g, pk, r2)
  PROVE  r2 = Write(r, s, g, pk)
<1> DEFINE a == <<s>>
<1>1. Len(a) = 1 /\ a[1] = s /\ 1 \in 1..1 /\ 1 - 1 = 0
  OBVIOUS
<1> HIDE DEF a
<1>2. PICK R : /\ R[0] = r /\ r2 = R[Len(a)]
               /\ \A n \in 1..Len(a) : R[n] = Write(R[n - 1], a[n], g, pk)
  BY DEF RunsTo, a
<1>3. R[1] = Write(R[0], a[1], g, pk)
  BY <1>1, <1>2
<1> QED
  BY <1>1, <1>2, <1>3

(* Two writes.                                                               *)
LEMMA RunTwo ==
  ASSUME NEW r, NEW s, NEW u, NEW g, NEW pk, NEW r2, RunsTo(r, <<s, u>>, g, pk, r2)
  PROVE  r2 = Write(Write(r, s, g, pk), u, g, pk)
<1> DEFINE a == <<s, u>>
<1>1. Len(a) = 2 /\ a[1] = s /\ a[2] = u /\ 1 \in 1..2 /\ 2 \in 1..2 /\ 1 - 1 = 0 /\ 2 - 1 = 1
  OBVIOUS
<1> HIDE DEF a
<1>2. PICK R : /\ R[0] = r /\ r2 = R[Len(a)]
               /\ \A n \in 1..Len(a) : R[n] = Write(R[n - 1], a[n], g, pk)
  BY DEF RunsTo, a
<1>3. R[1] = Write(R[0], a[1], g, pk) /\ R[2] = Write(R[1], a[2], g, pk)
  BY <1>1, <1>2
<1> QED
  BY <1>1, <1>2, <1>3

(* Once it does not go on, nothing is written any more.                      *)
LEMMA RunStops ==
  ASSUME NEW steps, Len(steps) \in Nat, NEW r, NEW g, NEW pk, NEW r2,
         RunsTo(r, steps, g, pk, r2), r2.status = "running"
  PROVE  \E R : /\ R[0] = r /\ r2 = R[Len(steps)]
                /\ \A n \in 1..Len(steps) : R[n] = Write(R[n - 1], steps[n], g, pk)
                /\ \A n \in 0..Len(steps) : R[n].status = "running"
<1> DEFINE N == Len(steps)
<1>1. PICK R : /\ R[0] = r /\ r2 = R[N]
               /\ \A n \in 1..N : R[n] = Write(R[n - 1], steps[n], g, pk)
  BY DEF RunsTo
<1> DEFINE T == {n \in Nat : n <= N => R[N - n].status = "running"}
<1>2. 0 \in T
  BY <1>1
<1>3. ASSUME NEW n \in Nat, n \in T PROVE n + 1 \in T
  <2> SUFFICES ASSUME n + 1 <= N PROVE R[N - (n + 1)].status = "running"
    OBVIOUS
  <2>1. N - n \in 1..N /\ (N - n) - 1 = N - (n + 1) /\ R[N - n].status = "running"
    BY <1>3
  <2>2. R[N - n] = Write(R[N - (n + 1)], steps[N - n], g, pk)
    BY <1>1, <2>1
  <2>3. R[N - (n + 1)].status # "running" => R[N - n] = R[N - (n + 1)]
    BY <2>2 DEF Write
  <2> QED
    BY <2>1, <2>3
<1>4. Nat \subseteq T
  <2> HIDE DEF T
  <2> QED
    BY <1>2, <1>3, NatBySets
<1>5. \A n \in 0..N : R[n].status = "running"
  <2> SUFFICES ASSUME NEW n \in 0..N PROVE R[n].status = "running"
    OBVIOUS
  <2>1. N - n \in Nat /\ N - n <= N /\ N - (N - n) = n
    OBVIOUS
  <2>2. N - n \in T
    BY <1>4, <2>1
  <2> QED
    BY <2>1, <2>2
<1> QED
  BY <1>1, <1>5

(* What ended well was running when it began.                                *)
LEMMA RunStarted ==
  ASSUME NEW steps, Len(steps) \in Nat, NEW r, NEW g, NEW pk, NEW r2,
         RunsTo(r, steps, g, pk, r2), r2.status = "running"
  PROVE  r.status = "running"
<1>1. PICK R : R[0] = r /\ \A n \in 0..Len(steps) : R[n].status = "running"
  BY RunStops
<1> QED
  BY <1>1

-----------------------------------------------------------------------------
(* What each write does to the files.                                        *)

DirMods(g, d) == [i \in DOMAIN ModulesIn(g, d) |-> Mod(ModulesIn(g, d)[i])]
DirRegions(g, d) == [id \in {"mods"} |-> DirMods(g, d)]
Ours(pk, p) == Declare(Children(pk, p), SortedSlugs)

LibBase(t, g) == IF Lib \in DOMAIN t THEN t[Lib] ELSE LibScaffold(Framework(g))
DirBase(t, d) == IF <<d>> \in DOMAIN t THEN t[<<d>>] ELSE <<Begin("mods"), End("mods")>>
PackageFile(t, pk, p) ==
    IF p \in DOMAIN t THEN PackageText(t[p], Ours(pk, p)) ELSE Stub(Ours(pk, p))

(* The files that are generated whole.                                       *)
LEMMA WholeWrites ==
  ASSUME NEW m, NEW t, NEW a, NEW c, NEW e, NEW g, NEW pk
  PROVE  /\ Write(State(m, t, a, c, e), Step("errors", 0), g, pk)
              = State(m, t, a, c, Framework(g))
         /\ Write(State(m, t, a, c, e), Step("main", 0), g, pk) = State(m, t, Main(g), c, e)
         /\ Write(State(m, t, a, c, e), Step("cargo", 0), g, pk) = State(m, t, a, Cargo(g), e)
<1>1. /\ State(m, t, a, c, e).status = "running"
      /\ [State(m, t, a, c, e) EXCEPT !.disk.errors = Framework(g)]
           = State(m, t, a, c, Framework(g))
      /\ [State(m, t, a, c, e) EXCEPT !.disk.main = Main(g)] = State(m, t, Main(g), c, e)
      /\ [State(m, t, a, c, e) EXCEPT !.disk.cargo = Cargo(g)] = State(m, t, a, Cargo(g), e)
  BY DEF State
<1>2. \A x : Step(x, 0)[1] = x
  BY DEF Step
<1>3. Write(State(m, t, a, c, e), Step("errors", 0), g, pk)
        = [State(m, t, a, c, e) EXCEPT !.disk.errors = Framework(g)]
  BY <1>1, <1>2 DEF Write
<1>4. Write(State(m, t, a, c, e), Step("main", 0), g, pk)
        = [State(m, t, a, c, e) EXCEPT !.disk.main = Main(g)]
  BY <1>1, <1>2 DEF Write
<1>5. Write(State(m, t, a, c, e), Step("cargo", 0), g, pk)
        = [State(m, t, a, c, e) EXCEPT !.disk.cargo = Cargo(g)]
  BY <1>1, <1>2 DEF Write
<1> QED
  BY <1>1, <1>3, <1>4, <1>5

(* The state of a write that writes a module, or a text. *)
LEMMA StatePuts ==
  ASSUME NEW m, NEW t, NEW a, NEW c, NEW e, NEW k, NEW v
  PROVE  /\ [State(m, t, a, c, e) EXCEPT !.disk.modules = Put(@, k, v)]
              = State(Put(m, k, v), t, a, c, e)
         /\ [State(m, t, a, c, e) EXCEPT !.disk.texts = Put(@, k, v)]
              = State(m, Put(t, k, v), a, c, e)
         /\ [State(m, t, a, c, e) EXCEPT !.status = v].status = v
         /\ State(m, t, a, c, e).status = "running"
         /\ State(m, t, a, c, e).disk.texts = t
  BY DEF State

(* The modules once a node was written. *)
WithNode(m, g, n) == IF Emits(n) THEN Put(m, File(n), Exports(g, n)) ELSE m

(* A node adds its module, or stops the generation.                          *)
LEMMA NodeWrites ==
  ASSUME NEW m, NEW t, NEW a, NEW c, NEW e, NEW g, NEW pk, NEW n
  PROVE  /\ ~Panics(g, n) /\ ~Refused(g, n) =>
              Write(State(m, t, a, c, e), Step("node", n), g, pk)
                = State(WithNode(m, g, n), t, a, c, e)
         /\ Write(State(m, t, a, c, e), Step("node", n), g, pk).status = "running" =>
              ~Panics(g, n) /\ ~Refused(g, n)
<1> DEFINE r == State(m, t, a, c, e)
<1>1. Step("node", n)[1] = "node" /\ Step("node", n)[2] = n
  BY DEF Step
<1>2. Write(r, Step("node", n), g, pk) = WriteNode(r, g, n)
  BY <1>1, StatePuts DEF Write
<1>3. [r EXCEPT !.disk.modules = Put(@, File(n), Exports(g, n))]
        = State(Put(m, File(n), Exports(g, n)), t, a, c, e)
  BY StatePuts
<1>4. \A v : [r EXCEPT !.status = v].status = v
  BY StatePuts
<1> HIDE DEF r
<1>5. ~Panics(g, n) /\ ~Refused(g, n) /\ Emits(n) =>
        WriteNode(r, g, n) = [r EXCEPT !.disk.modules = Put(@, File(n), Exports(g, n))]
  BY DEF WriteNode
<1>6. ~Panics(g, n) /\ ~Refused(g, n) /\ ~Emits(n) => WriteNode(r, g, n) = r
  BY DEF WriteNode
<1>7. Panics(g, n) => WriteNode(r, g, n) = [r EXCEPT !.status = "panicked"]
  BY DEF WriteNode
<1>8. ~Panics(g, n) /\ Refused(g, n) => WriteNode(r, g, n) = [r EXCEPT !.status = "failed"]
  BY DEF WriteNode
<1>9. WithNode(m, g, n) = IF Emits(n) THEN Put(m, File(n), Exports(g, n)) ELSE m
  BY DEF WithNode
<1>10. "panicked" # "running" /\ "failed" # "running"
  OBVIOUS
<1>11. ~Panics(g, n) /\ ~Refused(g, n) =>
         WriteNode(r, g, n) = State(WithNode(m, g, n), t, a, c, e)
  BY <1>3, <1>5, <1>6, <1>9 DEF r
<1>12. WriteNode(r, g, n).status = "running" => ~Panics(g, n) /\ ~Refused(g, n)
  BY <1>4, <1>7, <1>8, <1>10
<1> QED
  BY <1>2, <1>11, <1>12 DEF r

(* lib.rs is merged,                                                         *)
LEMMA LibWrites ==
  ASSUME NEW m, NEW t, NEW a, NEW c, NEW e, NEW g, NEW pk,
         ~NeverEnds(g) /\ WellFormed(LibBase(t, g))
  PROVE  Write(State(m, t, a, c, e), Step("lib", 0), g, pk)
           = State(m, Put(t, Lib, Merge(LibBase(t, g), LibRegions(g, pk))), a, c, e)
<1> DEFINE r == State(m, t, a, c, e)
           new == Merge(LibBase(t, g), LibRegions(g, pk))
<1>1. Step("lib", 0)[1] = "lib"
  BY DEF Step
<1>2. Write(r, Step("lib", 0), g, pk) = WriteLib(r, g, pk)
  <2>1. r.status = "running"
    BY StatePuts
  <2> HIDE DEF r
  <2> DEFINE s == Step("lib", 0)
  <2>2. /\ s[1] # "errors" /\ s[1] # "node" /\ s[1] # "main" /\ s[1] # "cargo"
        /\ s[1] = "lib" /\ s[1] # "dir"
    BY <1>1
  <2>3. s[1] = "lib"
    BY <1>1
  <2> HIDE DEF s
  <2>4. Write(r, s, g, pk) = WriteLib(r, g, pk)
    BY <2>1, <2>2, <2>3 DEF Write
  <2> QED
    BY <2>4 DEF s
<1>3. /\ r.disk.texts = t
      /\ [r EXCEPT !.disk.texts = Put(@, Lib, new)] = State(m, Put(t, Lib, new), a, c, e)
  BY StatePuts
<1> HIDE DEF r
<1>5. WriteLib(r, g, pk) =
        CASE NeverEnds(g) -> [r EXCEPT !.status = "hung"]
          [] ~NeverEnds(g) /\ ~WellFormed(LibBase(t, g)) -> [r EXCEPT !.status = "failed"]
          [] OTHER -> [r EXCEPT !.disk.texts = Put(@, Lib, new)]
  BY <1>3 DEF WriteLib, LibBase
<1> HIDE DEF new
<1>6. ~NeverEnds(g) /\ WellFormed(LibBase(t, g)) =>
        WriteLib(r, g, pk) = [r EXCEPT !.disk.texts = Put(@, Lib, new)]
  BY <1>5
<1> QED
  BY <1>2, <1>3, <1>6 DEF r, new

(* ... if the walks end and it parses.                                       *)
LEMMA LibGoesOn ==
  ASSUME NEW m, NEW t, NEW a, NEW c, NEW e, NEW g, NEW pk
  PROVE  Write(State(m, t, a, c, e), Step("lib", 0), g, pk).status = "running" =>
           ~NeverEnds(g) /\ WellFormed(LibBase(t, g))
<1> DEFINE r == State(m, t, a, c, e)
           new == Merge(LibBase(t, g), LibRegions(g, pk))
<1>1. Step("lib", 0)[1] = "lib"
  BY DEF Step
<1>2. Write(r, Step("lib", 0), g, pk) = WriteLib(r, g, pk)
  <2>1. r.status = "running"
    BY StatePuts
  <2> HIDE DEF r
  <2> DEFINE s == Step("lib", 0)
  <2>2. /\ s[1] # "errors" /\ s[1] # "node" /\ s[1] # "main" /\ s[1] # "cargo"
        /\ s[1] = "lib" /\ s[1] # "dir"
    BY <1>1
  <2>3. s[1] = "lib"
    BY <1>1
  <2> HIDE DEF s
  <2>4. Write(r, s, g, pk) = WriteLib(r, g, pk)
    BY <2>1, <2>2, <2>3 DEF Write
  <2> QED
    BY <2>4 DEF s
<1>3. /\ r.disk.texts = t
      /\ [r EXCEPT !.disk.texts = Put(@, Lib, new)] = State(m, Put(t, Lib, new), a, c, e)
  BY StatePuts
<1>4. \A v : [r EXCEPT !.status = v].status = v
  BY StatePuts
<1> HIDE DEF r
<1>5. WriteLib(r, g, pk) =
        CASE NeverEnds(g) -> [r EXCEPT !.status = "hung"]
          [] ~NeverEnds(g) /\ ~WellFormed(LibBase(t, g)) -> [r EXCEPT !.status = "failed"]
          [] OTHER -> [r EXCEPT !.disk.texts = Put(@, Lib, new)]
  BY <1>3 DEF WriteLib, LibBase
<1> HIDE DEF new
<1>6. NeverEnds(g) => WriteLib(r, g, pk) = [r EXCEPT !.status = "hung"]
  BY <1>5
<1>7. ~NeverEnds(g) /\ ~WellFormed(LibBase(t, g)) =>
        WriteLib(r, g, pk) = [r EXCEPT !.status = "failed"]
  BY <1>5
<1>9. "hung" # "running" /\ "failed" # "running"
  OBVIOUS
<1>10. WriteLib(r, g, pk).status = "running" => ~NeverEnds(g) /\ WellFormed(LibBase(t, g))
  BY <1>4, <1>6, <1>7, <1>9
<1> QED
  BY <1>2, <1>10 DEF r

(* The mod.rs of a directory is merged,                                      *)
LEMMA DirWrites ==
  ASSUME NEW m, NEW t, NEW a, NEW c, NEW e, NEW g, NEW pk, NEW d, WellFormed(DirBase(t, d))
  PROVE  Write(State(m, t, a, c, e), Step("dir", d), g, pk)
           = State(m, Put(t, <<d>>, Merge(DirBase(t, d), DirRegions(g, d))), a, c, e)
<1> DEFINE r == State(m, t, a, c, e)
           path == <<d>>
           new == Merge(DirBase(t, d), DirRegions(g, d))
<1>1. Step("dir", d)[1] = "dir" /\ Step("dir", d)[2] = d
  BY DEF Step
<1>2. Write(r, Step("dir", d), g, pk) = WriteDir(r, g, d)
  <2>1. r.status = "running"
    BY StatePuts
  <2> HIDE DEF r
  <2> DEFINE s == Step("dir", d)
  <2>2. /\ s[1] # "errors" /\ s[1] # "node" /\ s[1] # "main" /\ s[1] # "cargo"
        /\ s[1] # "lib" /\ s[1] = "dir"
    BY <1>1
  <2>3. s[1] = "dir" /\ s[2] = d
    BY <1>1
  <2> HIDE DEF s
  <2>4. Write(r, s, g, pk) = WriteDir(r, g, d)
    BY <2>1, <2>2, <2>3 DEF Write
  <2> QED
    BY <2>4 DEF s
<1>3. /\ r.disk.texts = t
      /\ [r EXCEPT !.disk.texts = Put(@, path, new)] = State(m, Put(t, path, new), a, c, e)
  BY StatePuts
<1> HIDE DEF r
<1>5. WriteDir(r, g, d) =
        IF ~WellFormed(DirBase(t, d)) THEN [r EXCEPT !.status = "failed"]
        ELSE [r EXCEPT !.disk.texts = Put(@, path, new)]
  BY <1>3 DEF WriteDir, DirBase, DirRegions, DirMods
<1> HIDE DEF new, path
<1> QED
  BY <1>2, <1>3, <1>5 DEF r, new, path

(* ... if it parses.                                                         *)
LEMMA DirStops ==
  ASSUME NEW m, NEW t, NEW a, NEW c, NEW e, NEW g, NEW pk, NEW d
  PROVE  Write(State(m, t, a, c, e), Step("dir", d), g, pk).status = "running" =>
           WellFormed(DirBase(t, d))
<1> DEFINE r == State(m, t, a, c, e)
           path == <<d>>
           new == Merge(DirBase(t, d), DirRegions(g, d))
<1>1. Step("dir", d)[1] = "dir" /\ Step("dir", d)[2] = d
  BY DEF Step
<1>2. Write(r, Step("dir", d), g, pk) = WriteDir(r, g, d)
  <2>1. r.status = "running"
    BY StatePuts
  <2> HIDE DEF r
  <2> DEFINE s == Step("dir", d)
  <2>2. /\ s[1] # "errors" /\ s[1] # "node" /\ s[1] # "main" /\ s[1] # "cargo"
        /\ s[1] # "lib" /\ s[1] = "dir"
    BY <1>1
  <2>3. s[1] = "dir" /\ s[2] = d
    BY <1>1
  <2> HIDE DEF s
  <2>4. Write(r, s, g, pk) = WriteDir(r, g, d)
    BY <2>1, <2>2, <2>3 DEF Write
  <2> QED
    BY <2>4 DEF s
<1>3. /\ r.disk.texts = t
      /\ [r EXCEPT !.disk.texts = Put(@, path, new)] = State(m, Put(t, path, new), a, c, e)
  BY StatePuts
<1>4. \A v : [r EXCEPT !.status = v].status = v
  BY StatePuts
<1> HIDE DEF r
<1>5. WriteDir(r, g, d) =
        IF ~WellFormed(DirBase(t, d)) THEN [r EXCEPT !.status = "failed"]
        ELSE [r EXCEPT !.disk.texts = Put(@, path, new)]
  BY <1>3 DEF WriteDir, DirBase, DirRegions, DirMods
<1> HIDE DEF new, path
<1>6. "failed" # "running"
  OBVIOUS
<1>7. WriteDir(r, g, d).status = "running" => WellFormed(DirBase(t, d))
  BY <1>4, <1>5, <1>6
<1> QED
  BY <1>2, <1>7 DEF r, new, path

(* The mod.rs of a package never stops a generation.                         *)
LEMMA PackageWrites ==
  ASSUME NEW m, NEW t, NEW a, NEW c, NEW e, NEW g, NEW pk, NEW p
  PROVE  Write(State(m, t, a, c, e), Step("package", p), g, pk)
           = State(m, Put(t, p, PackageFile(t, pk, p)), a, c, e)
<1> DEFINE r == State(m, t, a, c, e)
           new == PackageFile(t, pk, p)
<1>1. Step("package", p)[1] = "package" /\ Step("package", p)[2] = p
  BY DEF Step
<1>2. Write(r, Step("package", p), g, pk) = WritePackage(r, pk, p)
  <2>1. r.status = "running"
    BY StatePuts
  <2> HIDE DEF r
  <2> DEFINE s == Step("package", p)
  <2>2. /\ s[1] # "errors" /\ s[1] # "node" /\ s[1] # "main" /\ s[1] # "cargo"
        /\ s[1] # "lib" /\ s[1] # "dir"
    BY <1>1
  <2>3. s[1] = "package" /\ s[2] = p
    BY <1>1
  <2> HIDE DEF s
  <2>4. Write(r, s, g, pk) = WritePackage(r, pk, p)
    BY <2>1, <2>2, <2>3 DEF Write
  <2> QED
    BY <2>4 DEF s
<1>3. /\ r.disk.texts = t
      /\ [r EXCEPT !.disk.texts = Put(@, p, new)] = State(m, Put(t, p, new), a, c, e)
  BY StatePuts
<1> HIDE DEF r
<1>4. WritePackage(r, pk, p) = [r EXCEPT !.disk.texts = Put(@, p, new)]
  BY <1>3 DEF WritePackage, PackageFile, Ours
<1> QED
  BY <1>2, <1>3, <1>4 DEF r, new
-----------------------------------------------------------------------------
(* The modules, once the nodes were written: those of the last node of each  *)
(* file, and what no node emits as it was.                                   *)

Fine(g, n) == ~Panics(g, n) /\ ~Refused(g, n)

IsOf(g, k, f) == Emits(g.nodes[k]) /\ File(g.nodes[k]) = f
Emitted(g, n, f) == \E k \in 1..n : IsOf(g, k, f)
LastTo(g, n, j, f) == j \in 1..n /\ IsOf(g, j, f) /\ \A k \in 1..n : IsOf(g, k, f) => k <= j

WithNodes(m, m2, g, n) ==
    /\ IsMap(m2)
    /\ \A f : f \in DOMAIN m2 <=> f \in DOMAIN m \/ Emitted(g, n, f)
    /\ \A f \in DOMAIN m : ~Emitted(g, n, f) => m2[f] = m[f]
    /\ \A f, j : LastTo(g, n, j, f) => m2[f] = Exports(g, g.nodes[j])

(* No node changes nothing.                                                  *)
LEMMA NodesFirst ==
  ASSUME NEW m, IsMap(m), NEW g
  PROVE  WithNodes(m, m, g, 0)
  BY DEF WithNodes, Emitted, LastTo

(* One node more.                                                            *)
LEMMA NodesStep ==
  ASSUME NEW m, NEW m1, NEW g, NEW n \in Nat, WithNodes(m, m1, g, n)
  PROVE  WithNodes(m, WithNode(m1, g, g.nodes[n + 1]), g, n + 1)
<1> DEFINE x == g.nodes[n + 1]
           m2 == WithNode(m1, g, x)
<1>1. \A k : k \in 1..(n + 1) <=> k \in 1..n \/ k = n + 1
  OBVIOUS
<1>2. CASE Emits(x)
  <2> DEFINE h == File(x)
             v == Exports(g, x)
  <2>1. m2 = Put(m1, h, v)
    BY <1>2 DEF WithNode
  <2>2. \A f : IsOf(g, n + 1, f) <=> f = h
    BY <1>2 DEF IsOf
  <2> HIDE DEF m2, h
  <2>3. \A f : Emitted(g, n + 1, f) <=> Emitted(g, n, f) \/ f = h
    BY <1>1, <2>2 DEF Emitted
  <2>4. /\ IsMap(m2) /\ DOMAIN m2 = DOMAIN m1 \cup {h} /\ m2[h] = v
        /\ \A f \in DOMAIN m1 : f # h => m2[f] = m1[f]
    <3>1. IsMap(m2)
      BY <2>1, PutIsMap
    <3> QED
      BY <2>1, <3>1 DEF Put
  <2> HIDE DEF v
  <2>5. \A f : f \in DOMAIN m2 <=> f \in DOMAIN m \/ Emitted(g, n + 1, f)
    BY <2>3, <2>4 DEF WithNodes
  <2>6. \A f \in DOMAIN m : ~Emitted(g, n + 1, f) => m2[f] = m[f]
    BY <2>3, <2>4 DEF WithNodes
  <2>7. ASSUME NEW f, NEW j, LastTo(g, n + 1, j, f) PROVE m2[f] = Exports(g, g.nodes[j])
    <3>1. CASE f = h
      <4>1. n + 1 <= j /\ j \in 1..(n + 1)
        BY <2>2, <2>7, <3>1 DEF LastTo
      <4>2. j = n + 1
        BY <4>1
      <4> QED
        BY <2>4, <3>1, <4>2 DEF v
    <3>2. CASE f # h
      <4>1. j \in 1..n
        BY <1>1, <2>2, <2>7, <3>2 DEF LastTo
      <4>2. LastTo(g, n, j, f)
        BY <1>1, <2>7, <4>1 DEF LastTo
      <4>3. f \in DOMAIN m1
        BY <4>2 DEF WithNodes, LastTo, Emitted
      <4> QED
        BY <2>4, <3>2, <4>2, <4>3 DEF WithNodes
    <3> QED
      BY <3>1, <3>2
  <2>8. WithNodes(m, m2, g, n + 1)
    BY <2>4, <2>5, <2>6, <2>7 DEF WithNodes
  <2> QED
    BY <2>8 DEF m2
<1>3. CASE ~Emits(x)
  <2>1. m2 = m1
    BY <1>3 DEF WithNode
  <2>2. \A f : ~IsOf(g, n + 1, f)
    BY <1>3 DEF IsOf
  <2>3. \A f : Emitted(g, n + 1, f) <=> Emitted(g, n, f)
    BY <1>1, <2>2 DEF Emitted
  <2>4. \A f, j : LastTo(g, n + 1, j, f) => LastTo(g, n, j, f)
    BY <1>1, <2>2 DEF LastTo
  <2> QED
    BY <2>1, <2>3, <2>4 DEF WithNodes
<1> QED
  BY <1>2, <1>3

(* A run along the nodes that does not stop, or that has no reason to. *)
AlongNodes(R, g, pk) ==
    \A n \in 1..Len(g.nodes) : R[n] = Write(R[n - 1], NodeSteps(g)[n], g, pk)
GoesOn(R, g) == \A n \in 1..Len(g.nodes) : R[n].status = "running" \/ Fine(g, g.nodes[n])

(* The writes of all nodes.                                                  *)
LEMMA NodesAlong ==
  ASSUME NEW m, IsMap(m), NEW t, NEW a, NEW c, NEW e, NEW g, IsGraph(g), NEW pk, NEW R,
         R[0] = State(m, t, a, c, e), AlongNodes(R, g, pk), GoesOn(R, g)
  PROVE  /\ \E m2 : /\ R[Len(g.nodes)] = State(m2, t, a, c, e)
                    /\ WithNodes(m, m2, g, Len(g.nodes))
         /\ \A n \in 1..Len(g.nodes) : Fine(g, g.nodes[n])
<1> DEFINE N == Len(g.nodes)
           Upto(n) == /\ \E m2 : R[n] = State(m2, t, a, c, e) /\ WithNodes(m, m2, g, n)
                      /\ \A k \in 1..n : Fine(g, g.nodes[k])
           T == {n \in Nat : n <= N => Upto(n)}
<1>0. N \in Nat /\ DOMAIN g.nodes = 1..N
  BY DEF IsGraph
<1>1. 0 \in T
  BY NodesFirst
<1>2. ASSUME NEW n \in Nat, n \in T PROVE n + 1 \in T
  <2> SUFFICES ASSUME n + 1 <= N PROVE Upto(n + 1)
    OBVIOUS
  <2>1. PICK m1 : R[n] = State(m1, t, a, c, e) /\ WithNodes(m, m1, g, n)
    BY <1>0, <1>2
  <2>2. \A k \in 1..n : Fine(g, g.nodes[k])
    BY <1>0, <1>2
  <2> DEFINE x == g.nodes[n + 1]
  <2>3. n + 1 \in 1..N /\ (n + 1) - 1 = n
    BY <1>0
  <2>4. NodeSteps(g)[n + 1] = Step("node", x)
    BY <1>0, <2>3 DEF NodeSteps
  <2>5. R[n + 1] = Write(State(m1, t, a, c, e), Step("node", x), g, pk)
    BY <2>1, <2>3, <2>4 DEF AlongNodes
  <2>6. R[n + 1].status = "running" \/ Fine(g, x)
    BY <2>3 DEF GoesOn
  <2> HIDE DEF x
  <2>7. Fine(g, x)
    BY <2>5, <2>6, NodeWrites DEF Fine
  <2>8. R[n + 1] = State(WithNode(m1, g, x), t, a, c, e)
    BY <2>5, <2>7, NodeWrites DEF Fine
  <2>9. WithNodes(m, WithNode(m1, g, x), g, n + 1)
    BY <2>1, NodesStep DEF x
  <2>10. \A k \in 1..(n + 1) : Fine(g, g.nodes[k])
    BY <2>2, <2>7 DEF x
  <2> QED
    BY <2>8, <2>9, <2>10
<1>3. Nat \subseteq T
  <2> HIDE DEF T
  <2> QED
    BY <1>1, <1>2, NatBySets
<1> QED
  BY <1>0, <1>3

(* Every file that is emitted has a last node.                               *)
LEMMA LastExists ==
  ASSUME NEW g, NEW n \in Nat, NEW f, Emitted(g, n, f)
  PROVE  \E j : LastTo(g, n, j, f)
<1> DEFINE I == {n - k : k \in {i \in 1..n : IsOf(g, i, f)}}
<1>1. I \in SUBSET Nat /\ I # {}
  BY DEF Emitted
<1>2. Min(I) \in I /\ \A i \in I : Min(I) <= i
  <2> HIDE DEF I
  <2> QED
    BY <1>1, LeastNat
<1>3. PICK j \in 1..n : IsOf(g, j, f) /\ Min(I) = n - j
  BY <1>2
<1>4. ASSUME NEW k \in 1..n, IsOf(g, k, f) PROVE k <= j
  <2>1. n - k \in I
    BY <1>4
  <2>2. n - j <= n - k
    BY <1>2, <1>3, <2>1
  <2> QED
    BY <2>2
<1> QED
  BY <1>3, <1>4 DEF LastTo

(* Writing the same nodes a second time changes nothing.                     *)
LEMMA NodesAgain ==
  ASSUME NEW m, NEW m1, NEW m2, NEW g, NEW n \in Nat,
         WithNodes(m, m1, g, n), WithNodes(m1, m2, g, n)
  PROVE  m2 = m1
<1>1. DOMAIN m2 = DOMAIN m1
  BY DEF WithNodes
<1>2. ASSUME NEW f \in DOMAIN m1 PROVE m2[f] = m1[f]
  <2>1. CASE Emitted(g, n, f)
    BY <2>1, LastExists DEF WithNodes
  <2>2. CASE ~Emitted(g, n, f)
    BY <2>2 DEF WithNodes
  <2> QED
    BY <2>1, <2>2
<1>3. m1 = [x \in DOMAIN m1 |-> m1[x]] /\ m2 = [x \in DOMAIN m2 |-> m2[x]]
  BY DEF WithNodes, IsMap
<1> QED
  BY <1>1, <1>2, <1>3
-----------------------------------------------------------------------------
(* The files of the directories fit, once they were written.                 *)

AreTexts(t) == IsMap(t) /\ \A p \in DOMAIN t : IsText(t[p])
DirFits(t, g, d) == <<d>> \in DOMAIN t /\ Fits(t[<<d>>], DirRegions(g, d))

(* A path of one folder tells the folder,                                    *)
LEMMA PathsOnce == \A d, d2 : <<d>> = <<d2>> => d = d2
  OBVIOUS

(* ... and is not that of lib.rs.                                            *)
LEMMA PathsAreNotLib == \A d : <<d>> # Lib
  BY DEF Lib

(* What is merged into it is generated.                                      *)
LEMMA DirRegionsGenerated ==
  ASSUME NEW g, IsGraph(g), NEW d
  PROVE  /\ DOMAIN DirRegions(g, d) = {"mods"} /\ DirRegions(g, d)["mods"] = DirMods(g, d)
         /\ \A id \in DOMAIN DirRegions(g, d) : Generated(DirRegions(g, d)[id])
<1>1. Generated(DirMods(g, d))
  BY ModsGenerated DEF DirMods
<1> QED
  BY <1>1 DEF DirRegions

(* A directory of the graph has a module, so its region is not empty.        *)
LEMMA DirRegionsFilled ==
  ASSUME NEW g, IsGraph(g), NEW d \in Range(Dirs(g))
  PROVE  Filled(DirRegions(g, d)) = DirRegions(g, d)
<1> DEFINE S == {x \in NodesOf(g) : x.t.dir = d}
           D == {x.t.dir : x \in NodesOf(g)}
           dirs == Dirs(g)
           inDir == Those(g.nodes, S)
           mods == DirMods(g, d)
           new == DirRegions(g, d)
<1>1. d \in D
  <2>1. dirs = Those(SortedDirs, D)
    BY DEF Dirs
  <2>2. d \in Range(dirs)
    OBVIOUS
  <2> HIDE DEF dirs, D
  <2>3. dirs \in Seq(SortedNames) /\ \A i \in 1..Len(dirs) : dirs[i] \in D
    BY <2>1, ThoseMembers, SortedSeqs
  <2> QED
    BY <2>2, <2>3 DEF Range
<1>2. PICK k \in 1..Len(g.nodes) : g.nodes[k] \in S
  <2>1. PICK x \in NodesOf(g) : x.t.dir = d
    BY <1>1
  <2> QED
    BY <2>1 DEF NodesOf, IsGraph
<1> HIDE DEF S
<1>3. \E i \in 1..Len(inDir) : inDir[i] = g.nodes[k]
  BY <1>2, ThoseMembers DEF IsGraph
<1>4. inDir \in Seq(NodesOf(g))
  BY ThoseMembers DEF IsGraph
<1>5. DOMAIN mods = DOMAIN inDir
  BY DEF DirMods, ModulesIn, S
<1> HIDE DEF inDir, mods
<1>6. mods # <<>>
  BY <1>3, <1>4, <1>5
<1>7. new = [id \in {"mods"} |-> mods]
  BY DEF DirRegions, mods
<1> HIDE DEF new
<1>8. Filled(new) = new
  BY <1>6, <1>7 DEF Filled
<1> QED
  BY <1>8 DEF new

(* One of them.                                                              *)
LEMMA DirMerged ==
  ASSUME NEW t, AreTexts(t), NEW g, IsGraph(g), NEW d \in Range(Dirs(g)),
         WellFormed(DirBase(t, d))
  PROVE  LET new == Merge(DirBase(t, d), DirRegions(g, d))
         IN  IsText(new) /\ Fits(new, DirRegions(g, d))
<1> DEFINE base == DirBase(t, d)
           regions == DirRegions(g, d)
<1>1. IsText(base)
  BY BareIsText, IdsAreNames DEF AreTexts, DirBase
<1>2. (\A id \in DOMAIN regions : Generated(regions[id])) /\ DOMAIN regions \subseteq MergedIds
  BY DirRegionsGenerated DEF MergedIds
<1>3. Filled(regions) = regions
  BY DirRegionsFilled
<1> HIDE DEF base, regions
<1> QED
  BY <1>1, <1>2, <1>3, MergeKeepsText, MergeFits DEF base, regions

(* The directories of a graph are a list.                                    *)
LEMMA DirsAreASeq ==
  ASSUME NEW g
  PROVE  Dirs(g) \in Seq(SortedNames)
  BY ThoseMembers, SortedSeqs DEF Dirs

(* The writes of all directories.                                            *)
LEMMA DirsAlong ==
  ASSUME NEW m, NEW t, AreTexts(t), NEW a, NEW c, NEW e, NEW g, IsGraph(g), NEW pk, NEW r2,
         RunsTo(State(m, t, a, c, e), DirSteps(g), g, pk, r2), r2.status = "running"
  PROVE  \E t2 : /\ r2 = State(m, t2, a, c, e) /\ AreTexts(t2)
                 /\ \A p \in DOMAIN t : p \in DOMAIN t2
                 /\ Lib \in DOMAIN t => t2[Lib] = t[Lib]
                 /\ \A i \in 1..Len(Dirs(g)) : DirFits(t2, g, Dirs(g)[i])
<1> DEFINE dirs == Dirs(g)
           N == Len(dirs)
           Done(t2, n) == /\ AreTexts(t2)
                          /\ \A p \in DOMAIN t : p \in DOMAIN t2
                          /\ Lib \in DOMAIN t => t2[Lib] = t[Lib]
                          /\ \A i \in 1..n : DirFits(t2, g, dirs[i])
<1>0. N \in Nat /\ DOMAIN dirs = 1..N /\ Len(DirSteps(g)) = N
  BY DirsAreASeq DEF DirSteps
<1>1. PICK R : /\ R[0] = State(m, t, a, c, e) /\ r2 = R[N]
               /\ \A n \in 1..N : R[n] = Write(R[n - 1], DirSteps(g)[n], g, pk)
               /\ \A n \in 0..N : R[n].status = "running"
  BY <1>0, RunStops
<1> DEFINE Upto(n) == \E t2 : R[n] = State(m, t2, a, c, e) /\ Done(t2, n)
           T == {n \in Nat : n <= N => Upto(n)}
<1>2. 0 \in T
  BY <1>1
<1>3. ASSUME NEW n \in Nat, n \in T PROVE n + 1 \in T
  <2> SUFFICES ASSUME n + 1 <= N PROVE Upto(n + 1)
    OBVIOUS
  <2>1. PICK t1 : R[n] = State(m, t1, a, c, e) /\ Done(t1, n)
    BY <1>0, <1>3
  <2> DEFINE d == dirs[n + 1]
             new == Merge(DirBase(t1, d), DirRegions(g, d))
             t2 == Put(t1, <<d>>, new)
  <2>2. n + 1 \in 1..N /\ (n + 1) - 1 = n /\ n + 1 \in 0..N
    BY <1>0
  <2>3. DirSteps(g)[n + 1] = Step("dir", d)
    BY <1>0, <2>2 DEF DirSteps
  <2>4. R[n + 1] = Write(State(m, t1, a, c, e), Step("dir", d), g, pk)
    BY <1>1, <2>1, <2>2, <2>3
  <2>5. R[n + 1].status = "running"
    BY <1>1, <2>2
  <2>0. d \in Range(Dirs(g))
    BY <1>0, <2>2 DEF Range
  <2> HIDE DEF dirs
  <2> HIDE DEF d
  <2>6. WellFormed(DirBase(t1, d))
    <3> DEFINE w == Write(State(m, t1, a, c, e), Step("dir", d), g, pk)
    <3>1. w.status = "running"
      BY <2>4, <2>5
    <3>2. w.status = "running" => WellFormed(DirBase(t1, d))
      BY DirStops
    <3> HIDE DEF w
    <3> QED
      BY <3>1, <3>2
  <2>7. R[n + 1] = State(m, t2, a, c, e)
    <3>1. Write(State(m, t1, a, c, e), Step("dir", d), g, pk) = State(m, t2, a, c, e)
      BY <2>6, DirWrites
    <3> QED
      BY <2>4, <3>1
  <2>8. IsText(new) /\ Fits(new, DirRegions(g, d))
    BY <2>0, <2>1, <2>6, DirMerged
  <2>9. /\ DOMAIN t2 = DOMAIN t1 \cup {<<d>>} /\ t2[<<d>>] = new /\ IsMap(t2)
        /\ \A p \in DOMAIN t1 : p # <<d>> => t2[p] = t1[p]
    <3> DEFINE q == <<d>>
    <3> HIDE DEF q, new
    <3>1. t2 = Put(t1, q, new)
      BY DEF q
    <3>2. IsMap(t2)
      BY <3>1, PutIsMap
    <3>3. DOMAIN t2 = DOMAIN t1 \cup {q} /\ t2[q] = new
          /\ \A p \in DOMAIN t1 : p # q => t2[p] = t1[p]
      BY <3>1 DEF Put
    <3> QED
      BY <3>2, <3>3 DEF q
  <2> HIDE DEF t2, new
  <2>10. AreTexts(t2)
    BY <2>1, <2>8, <2>9 DEF AreTexts
  <2>11. (\A p \in DOMAIN t : p \in DOMAIN t2) /\ (Lib \in DOMAIN t => t2[Lib] = t[Lib])
    BY <2>1, <2>9, PathsAreNotLib
  <2>12. ASSUME NEW i \in 1..(n + 1) PROVE DirFits(t2, g, dirs[i])
    <3>1. CASE dirs[i] = d
      BY <2>8, <2>9, <3>1 DEF DirFits
    <3>2. CASE dirs[i] # d
      <4>1. i # n + 1
        BY <3>2 DEF d
      <4>2. i \in 1..n
        BY <4>1
      <4>3. DirFits(t1, g, dirs[i])
        BY <2>1, <4>2
      <4>4. <<dirs[i]>> # <<d>>
        BY <3>2, PathsOnce
      <4> QED
        BY <2>9, <4>3, <4>4 DEF DirFits
    <3> QED
      BY <3>1, <3>2
  <2> QED
    BY <2>7, <2>10, <2>11, <2>12
<1>4. Nat \subseteq T
  <2> HIDE DEF T
  <2> QED
    BY <1>2, <1>3, NatBySets
<1>5. Upto(N)
  BY <1>0, <1>4
<1> QED
  BY <1>1, <1>5
-----------------------------------------------------------------------------
(* A package's file is left alone, once it was written.                      *)

(* A list whose elements are all in the set is kept.                         *)
LEMMA ThoseAll ==
  ASSUME NEW L, NEW s \in Seq(L), NEW S, \A n \in 1..Len(s) : s[n] \in S
  PROVE  Those(s, S) = s
<1> DEFINE N == Len(s)
<1>1. PICK F \in [0..N -> Seq(L)] : IsThose(F, s, S) /\ Those(s, S) = F[N]
  BY ThoseWalk
<1> DEFINE Right(n) == Len(F[n]) = n /\ \A i \in 1..n : F[n][i] = s[i]
           T == {n \in Nat : n <= N => Right(n)}
<1>2. 0 \in T
  BY <1>1 DEF IsThose
<1>3. ASSUME NEW n \in Nat, n \in T PROVE n + 1 \in T
  <2> SUFFICES ASSUME n + 1 <= N PROVE Right(n + 1)
    OBVIOUS
  <2>1. n + 1 \in 1..N /\ (n + 1) - 1 = n /\ n \in 0..N
    OBVIOUS
  <2>2. F[n + 1] = Append(F[n], s[n + 1])
    BY <1>1, <2>1 DEF IsThose
  <2>3. F[n] \in Seq(L) /\ Right(n) /\ s[n + 1] \in L
    BY <1>1, <1>3, <2>1
  <2> QED
    BY <2>2, <2>3
<1>4. Nat \subseteq T
  <2> HIDE DEF T
  <2> QED
    BY <1>2, <1>3, NatBySets
<1>5. Right(N) /\ F[N] \in Seq(L) /\ N \in Nat
  BY <1>1, <1>4
<1>6. F[N] = s
  BY <1>5
<1> QED
  BY <1>1, <1>6

(* The region of a package: what it had, and is no child, then the children. *)
PackageRegion(kept, ours) == [id \in {"module_decls"} |-> kept \o ours]

(* A file that fits its region is one that is let alone.                     *)
LEMMA PackagedFits ==
  ASSUME NEW y, NEW M, NEW kept \in Seq(M), NEW ours \in Seq(M),
         \A i \in 1..Len(kept) : kept[i] \notin Range(ours) /\ kept[i] # Blank,
         Fits(y, Filled(PackageRegion(kept, ours)))
  PROVE  PackageText(y, ours) = y
<1> DEFINE new == PackageRegion(kept, ours)
           all == kept \o ours
           full == IF all = <<>> THEN <<Blank>> ELSE all
           S == Range(y) \ (Range(ours) \cup {Blank})
<1>1. Body(y, "module_decls") = full /\ Merge(y, new) = y
  <2> DEFINE filled == Filled(new)
  <2>1. "module_decls" \in DOMAIN filled /\ filled["module_decls"] = full
    BY DEF PackageRegion, Filled
  <2>2. Merge(y, new) = y
    <3> HIDE DEF new
    <3> QED
      BY FitsStays DEF new
  <2> HIDE DEF filled, full
  <2>3. Body(y, "module_decls") = full
    BY <2>1, FitsAll DEF filled
  <2> QED
    BY <2>2, <2>3
<1>2. PICK L : y \in Seq(L)
  BY DEF Fits, Made
<1>3. \A i \in 1..Len(all) : all[i] \in Range(y)
  <2>1. CASE all = <<>>
    BY <2>1
  <2>2. CASE all # <<>>
    <3>0. Body(y, "module_decls") = all
      BY <1>1, <2>2
    <3> HIDE DEF all
    <3>1. PICK b, e \in 1..Len(y) : all = SubSeq(y, b + 1, e - 1)
      BY <1>2, <2>2, <3>0, BodyIndices
    <3>2. \A i \in 1..Len(all) : b + i \in 1..Len(y) /\ all[i] = y[b + i]
      BY <1>2, <3>1
    <3> QED
      BY <1>2, <3>2 DEF Range
  <2> QED
    BY <2>1, <2>2
<1>4. /\ Len(all) = Len(kept) + Len(ours) /\ Len(kept) \in Nat /\ Len(ours) \in Nat
      /\ \A i \in 1..Len(kept) : all[i] = kept[i]
  OBVIOUS
<1>5. \A i \in 1..Len(kept) : kept[i] \in S
  <2> HIDE DEF all
  <2> QED
    BY <1>3, <1>4
<1>6. (\A i \in 1..Len(ours) : ours[i] \notin S) /\ Blank \notin S
  BY DEF Range
<1> HIDE DEF S
<1>7. Those(all, S) = Those(kept, S)
  BY <1>6, ThoseConcatNone
<1>8. Those(kept, S) = kept
  BY <1>5, ThoseAll
<1>10. Those(full, S) = kept
  <2>1. CASE all # <<>>
    BY <1>7, <1>8, <2>1
  <2>2. CASE all = <<>>
    <3> DEFINE blank == <<Blank>>
               none == <<>>
    <3>1. kept = none
      BY <1>4, <2>2
    <3>2. blank \in Seq({Blank}) /\ Len(blank) = 1 /\ blank[1] = Blank
      OBVIOUS
    <3> HIDE DEF blank
    <3>3. /\ Those(blank, S) \in Seq({Blank})
          /\ \A i \in 1..Len(Those(blank, S)) : Those(blank, S)[i] \in S
      BY <3>2, ThoseMembers
    <3> DEFINE t == Those(blank, S)
    <3> HIDE DEF t
    <3>4. t \in Seq({Blank}) /\ \A i \in 1..Len(t) : t[i] \in S
      BY <3>3 DEF t
    <3>5. Len(t) = 0
      <4> SUFFICES ASSUME Len(t) # 0 PROVE FALSE
        OBVIOUS
      <4>1. 1 \in 1..Len(t) /\ t[1] = Blank
        BY <3>4
      <4> QED
        BY <1>6, <3>4, <4>1
    <3>6. t = none
      BY <3>4, <3>5
    <3>7. full = blank
      BY <2>2 DEF blank
    <3> HIDE DEF full
    <3> QED
      BY <3>1, <3>6, <3>7 DEF t
  <2> QED
    BY <2>1, <2>2
<1> HIDE DEF full
<1>9. PackageText(y, ours) = Merge(y, new) \/ PackageText(y, ours) = y
  <2>1. Those(Body(y, "module_decls"), Range(y) \ (Range(ours) \cup {Blank})) = kept
    BY <1>1, <1>10 DEF S
  <2>2. new = [id \in {"module_decls"} |-> kept \o ours]
    BY DEF PackageRegion
  <2> HIDE DEF new, all
  <2> QED
    BY <2>1, <2>2 DEF PackageText
<1> QED
  BY <1>1, <1>9

(* A stub is made of its children,                                           *)
LEMMA StubFits ==
  ASSUME NEW ours, Generated(ours)
  PROVE  Fits(Stub(ours), PackageRegion(<<>>, ours))
<1> DEFINE id == "module_decls"
           none == <<>>
           new == PackageRegion(none, ours)
           text == Text("stub")
           K == {text}
           Y == ToSet(ours)
<1>1. /\ ours \in Seq(Y) /\ none \in Seq(Y) /\ none \o ours = ours /\ Len(none) = 0
  BY DEF Generated
<1>2. text = <<text[1], text[2]>> /\ text[1] = "text" /\ ~IsMarker(text)
  BY DEF Text, IsMarker
<1>3. DOMAIN new = {id} /\ new[id] = ours
  BY <1>1 DEF PackageRegion
<1> HIDE DEF Y, none, new, text
<1>4. IsLines(K)
  BY <1>2 DEF IsLines
<1>5. \A x \in DOMAIN new : Generated(new[x])
  BY <1>3
<1>6. PICK L : /\ IsLines(L) /\ K \subseteq L /\ Bodies(new, L) /\ PlainBodies(new)
               /\ \A x \in MergedIds : Begin(x) \in L /\ End(x) \in L
  BY <1>4, <1>5, MergedLines
<1>7. Proper(new, L) /\ Begin(id) \in L /\ End(id) \in L /\ text \in L
  BY <1>3, <1>6, IdsAreNames DEF Proper, MergedIds
<1> DEFINE e == <<>>
           a1 == Append(e, text)
           a2 == Append(a1, Begin(id)) \o new[id]
           a3 == Append(a2, End(id))
<1>8. Made(L, e, new, Outside, {})
  BY <1>7, MadeFirst
<1> HIDE DEF e
<1>9. Made(L, a1, new, Outside, {})
  BY <1>2, <1>7, <1>8, MadeLine
<1> HIDE DEF a1
<1>10. Made(L, a2, new, id, {} \cup {id})
  <2> DEFINE s == {}
  <2>1. id \notin s /\ id \in DOMAIN new
    BY <1>3
  <2>2. Made(L, a1, new, Outside, s)
    BY <1>9
  <2> HIDE DEF s, id
  <2>3. Made(L, a2, new, id, s \cup {id})
    BY <1>7, <2>1, <2>2, MadeOpens
  <2> QED
    BY <2>3 DEF s
<1>11. Made(L, a3, new, Outside, DOMAIN new)
  <2>1. id \in DOMAIN new /\ {} \cup {id} = DOMAIN new
    BY <1>3
  <2>2. Made(L, a2, new, id, DOMAIN new)
    BY <1>10, <2>1
  <2> HIDE DEF a2, id
  <2> QED
    BY <1>7, <2>1, <2>2, MadeCloses
<1>12. Fits(a3, new)
  BY <1>6, <1>7, <1>11 DEF Fits
<1>13. a3 = Stub(ours)
  <2> DEFINE M == Y \cup {text, Begin(id), End(id)}
             b == <<text, Begin(id)>>
  <2>1. Append(a1, Begin(id)) = b
    <3>1. \A x, y : Append(<<x>>, y) = <<x, y>>
      <4> SUFFICES ASSUME NEW x, NEW y PROVE Append(<<x>>, y) = <<x, y>>
        OBVIOUS
      <4> DEFINE p == <<x>>
                 q == <<x, y>>
                 r == Append(p, y)
                 Z == {x, y}
      <4>1. p \in Seq(Z) /\ Len(p) = 1 /\ p[1] = x /\ y \in Z
        OBVIOUS
      <4>2. q \in Seq(Z) /\ Len(q) = 2 /\ q[1] = x /\ q[2] = y
        OBVIOUS
      <4> HIDE DEF p, q, Z
      <4>5. p \in Seq(Z) /\ y \in Z
        BY <4>1
      <4>6. /\ r \in Seq(Z) /\ Len(r) = Len(p) + 1 /\ r[Len(p) + 1] = y
            /\ \A i \in 1..Len(p) : r[i] = p[i]
        BY <4>5
      <4> HIDE DEF r
      <4>3. r \in Seq(Z) /\ Len(r) = 2 /\ r[1] = x /\ r[2] = y
        BY <4>1, <4>6
      <4> HIDE DEF r
      <4>4. r = q
        BY <4>2, <4>3
      <4> QED
        BY <4>4 DEF r, p, q
    <3>2. \A x : Append(<<>>, x) = <<x>>
      OBVIOUS
    <3>3. a1 = <<text>>
      BY <3>2 DEF a1, e
    <3> HIDE DEF id
    <3> QED
      BY <3>1, <3>3
  <2>2. a2 = b \o ours
    BY <1>3, <2>1
  <2>3. b \in Seq(M) /\ ours \in Seq(M) /\ End(id) \in M
    <3>1. Y \subseteq M /\ text \in M /\ Begin(id) \in M /\ End(id) \in M
      OBVIOUS
    <3> HIDE DEF M
    <3> QED
      BY <1>1, <3>1
  <2> HIDE DEF M, b
  <2>4. b \o ours \in Seq(M)
    BY <2>3
  <2> DEFINE d == b \o ours
  <2>5. Append(d, End(id)) = d \o <<End(id)>>
    <3>1. d \in Seq(M)
      BY <2>4
    <3> HIDE DEF d
    <3> QED
      BY <2>3, <3>1
  <2> QED
    BY <2>2, <2>5 DEF Stub, b, text
<1> QED
  BY <1>12, <1>13 DEF new, none

(* so that it tells them.                                                    *)
LEMMA StubBody ==
  ASSUME NEW ours, Generated(ours)
  PROVE  WellFormed(Stub(ours)) /\ Body(Stub(ours), "module_decls") = ours
<1> DEFINE new == PackageRegion(<<>>, ours)
<1>1. Fits(Stub(ours), new)
  BY StubFits
<1>2. "module_decls" \in DOMAIN new /\ new["module_decls"] = <<>> \o ours
  BY DEF PackageRegion
<1>3. <<>> \o ours = ours
  BY DEF Generated
<1> HIDE DEF new
<1> QED
  BY <1>1, <1>2, <1>3, FitsAll

(* The stub of a package without children is not one of what has a body.     *)
Childless == Stub(<<>>)
LEMMA ChildlessBody ==
    /\ WellFormed(Childless) /\ Body(Childless, "module_decls") = <<>> /\ Begin("module_decls") \in Range(Childless)
<1> DEFINE none == <<>>
<1>1. Generated(none)
  BY DEF Generated
<1> HIDE DEF none
<1>2. WellFormed(Stub(none)) /\ Body(Stub(none), "module_decls") = none
  BY <1>1, StubBody
<1>4. Begin("module_decls") \in Range(Childless)
  <2> DEFINE a == Text("stub")
             b == Begin("module_decls")
             c == End("module_decls")
             L == {a, b, c}
             two == <<a, b>>
             file == two \o <<c>>
  <2>1. two \in Seq(L) /\ Len(two) = 2 /\ two[2] = b /\ c \in L
    OBVIOUS
  <2>2. Childless = (two \o <<>>) \o <<c>>
    BY DEF Childless, Stub
  <2> HIDE DEF two, L, b, c
  <2>3. two \o <<>> = two
    BY <2>1
  <2>4. file = Append(two, c)
    BY <2>1
  <2>5. Len(file) = 3 /\ file \in Seq(L) /\ file[2] = b
    BY <2>1, <2>4, AppendLine
  <2>6. Childless = file
    BY <2>2, <2>3
  <2> HIDE DEF file
  <2>7. b \in Range(file)
    BY <2>5 DEF Range
  <2> QED
    BY <2>6, <2>7 DEF b
<1> QED
  BY <1>2, <1>4 DEF none, Childless

(* A text that was merged with the children ...                              *)
LEMMA PackageTextAgain ==
  ASSUME NEW text, IsText(text), NEW ours, Generated(ours)
  PROVE  LET new == PackageText(text, ours) IN PackageText(new, ours) = new /\ new # Childless
<1> DEFINE body == Body(text, "module_decls")
           others == Range(text) \ (Range(ours) \cup {Blank})
           kept == Those(body, others)
           regions == PackageRegion(kept, ours)
<1>1. CASE ~(Begin("module_decls") \in Range(text) /\ WellFormed(text))
  <2>1. PackageText(text, ours) = text
    BY <1>1 DEF PackageText
  <2>2. text # Childless
    BY <1>1, ChildlessBody
  <2> QED
    BY <2>1, <2>2
<1>2. CASE Begin("module_decls") \in Range(text) /\ WellFormed(text)
  <2>1. PICK L : IsLines(L) /\ text \in Seq(L) /\ Clean(text)
    BY DEF IsText
  <2>2. body \in Seq(L) /\ Plain(body)
    BY <1>2, <2>1, BodyIsGenerated
  <2> HIDE DEF body, others
  <2>3. kept \in Seq(L) /\ \A i \in 1..Len(kept) : kept[i] \in others
    BY <2>2, ThoseMembers
  <2>13. \A i \in 1..Len(kept) : \E n \in 1..Len(body) : body[n] = kept[i]
    BY <2>2, ThoseMembers
  <2> HIDE DEF kept
  <2>4. Plain(kept)
    BY <2>2, <2>3, <2>13 DEF Plain
  <2>5. Generated(kept)
    BY <2>1, <2>3, <2>4, GeneratedIn
  <2>6. Generated(kept \o ours)
    BY <2>5, GeneratedConcat
  <2>7. PackageText(text, ours) = Merge(text, regions)
    BY <1>2 DEF PackageText, PackageRegion, kept, body, others
  <2>8. (\A id \in DOMAIN regions : Generated(regions[id])) /\ DOMAIN regions \subseteq MergedIds
    BY <2>6 DEF PackageRegion, MergedIds
  <2> HIDE DEF regions
  <2>9. Fits(Merge(text, regions), Filled(regions))
    BY <1>2, <2>8, MergeFits
  <2> DEFINE M == L \cup ToSet(ours)
  <2>10. kept \in Seq(M) /\ ours \in Seq(M)
    <3>1. L \subseteq M /\ ToSet(ours) \subseteq M
      OBVIOUS
    <3> HIDE DEF M
    <3> QED
      BY <2>3, <3>1 DEF Generated
  <2>11. \A i \in 1..Len(kept) : kept[i] \notin Range(ours) /\ kept[i] # Blank
    BY <2>3 DEF others
  <2> HIDE DEF M
  <2>12. PackageText(Merge(text, regions), ours) = Merge(text, regions)
    BY <2>9, <2>10, <2>11, PackagedFits DEF regions
  <2>14. Merge(text, regions) # Childless
    <3> DEFINE full == Filled(regions)
    <3>1. "module_decls" \in DOMAIN full /\ full["module_decls"] # <<>>
      BY DEF Filled, regions, PackageRegion
    <3> HIDE DEF full
    <3>2. Body(Merge(text, regions), "module_decls") = full["module_decls"]
      BY <2>9, <3>1, FitsAll DEF full
    <3> QED
      BY <3>1, <3>2, ChildlessBody
  <2> QED
    BY <2>7, <2>12, <2>14
<1> QED
  BY <1>1, <1>2

(* ... and one that was started with them: a blank line takes the place of   *)
(* none.                                                                     *)
LEMMA StubAgain ==
  ASSUME NEW ours, Generated(ours), ours # <<>>
  PROVE  PackageText(Stub(ours), ours) = Stub(ours) /\ Stub(ours) # Childless
<1> DEFINE new == PackageRegion(<<>>, ours)
           Y == ToSet(ours)
<1>1. /\ ours \in Seq(Y) /\ <<>> \in Seq(Y) /\ <<>> \o ours = ours /\ Len(<<>>) = 0
  BY DEF Generated
<1>2. new = [id \in {"module_decls"} |-> ours]
  BY <1>1 DEF PackageRegion
<1>3. Filled(new) = new
  BY <1>2 DEF Filled
<1>4. Fits(Stub(ours), Filled(new))
  BY <1>3, StubFits
<1>5. Stub(ours) # Childless
  BY StubBody, ChildlessBody
<1>6. Fits(Stub(ours), Filled(PackageRegion(<<>>, ours)))
  BY <1>4
<1>7. \A i \in 1..Len(<<>>) : <<>>[i] \notin Range(ours) /\ <<>>[i] # Blank
  BY <1>1
<1> DEFINE none == <<>>
<1> HIDE DEF Y, new, none
<1>8. PackageText(Stub(ours), ours) = Stub(ours)
  BY <1>1, <1>6, <1>7, PackagedFits DEF none
<1> QED
  BY <1>5, <1>8

(* The list of a finite set has all its elements, each once.                 *)
LEMMA SetsAreWhole ==
  ASSUME NEW S, IsFiniteSet(S)
  PROVE  /\ \A x \in S : \E i \in DOMAIN SetToSeq(S) : SetToSeq(S)[i] = x
         /\ IsInjective(SetToSeq(S))
<1> DEFINE n == Cardinality(S)
           D == 1..n
<1>1. n \in Nat /\ ExistsBijection(D, S)
  BY FS_CardinalityType
<1>2. PICK f \in [D -> S] : IsInjective(f)
  BY <1>1, Zenon DEF ExistsBijection, Bijection, Injection, Surjection, IsInjective
<1> DEFINE F == [D -> S]
           h == CHOOSE z \in F : IsInjective(z)
<1>3. h \in F /\ IsInjective(h)
  <2> HIDE DEF F
  <2> QED
    BY <1>2, Zenon DEF F
<1>4. SetToSeq(S) = h
  BY Zenon DEF SetToSeq
<1> HIDE DEF h
<1>5. h \in Injection(D, S)
  BY <1>3 DEF Injection, IsInjective
<1>6. Cardinality(D) = n
  BY <1>1, FS_Interval
<1>7. h \in Surjection(D, S)
  <2> HIDE DEF D
  <2> QED
    BY <1>5, <1>6, FS_Injection
<1> QED
  BY <1>3, <1>4, <1>7 DEF Surjection

(* Nothing is in the empty list.                                             *)
LEMMA ThoseNone == \A S : Those(<<>>, S) = <<>>
<1> SUFFICES ASSUME NEW S PROVE Those(<<>>, S) = <<>>
  OBVIOUS
<1> DEFINE none == <<>>
           t == Those(none, S)
<1>1. none \in Seq({}) /\ Len(none) = 0
  OBVIOUS
<1> HIDE DEF none
<1>2. t \in Seq({})
  BY <1>1, ThoseMembers
<1> HIDE DEF t
<1>3. t = none
  BY <1>1, <1>2
<1> QED
  BY <1>3 DEF none, t

(* The stub without children gets a blank line in its region.                *)
LEMMA ChildlessAgain == PackageText(Childless, <<>>) = Stub(<<Blank>>)
<1> DEFINE id == "module_decls"
           none == <<>>
           blank == <<Blank>>
           old == [x \in {id} |-> none]
           new == [x \in {id} |-> blank]
           a == Text("stub")
           b == Begin(id)
           c == End(id)
           file == <<a, b, c>>
           L == {a, b, c, Blank}
<1>1. /\ a[1] = "text" /\ b[1] = "begin" /\ b[2] = id /\ c[1] = "end" /\ c[2] = id
      /\ ~IsMarker(a)
  BY DEF Text, Begin, End, IsMarker
<1>2. Childless = file /\ Stub(blank) = <<a, b, Blank, c>>
  <2>1. Stub(blank) = (<<a, b>> \o <<Blank>>) \o <<c>>
    BY DEF Stub
  <2>2. a \in L /\ b \in L /\ c \in L /\ Blank \in L
    OBVIOUS
  <2> HIDE DEF a, b, c, L
  <2>3. <<a, b>> \o <<Blank>> = <<a, b, Blank>>
    BY <2>2, ThreeLines
  <2>4. <<a, b, Blank>> \o <<c>> = <<a, b, Blank, c>>
    <3> DEFINE three == <<a, b, Blank>>
    <3>1. Append(three, c) = <<a, b, Blank, c>>
      BY <2>2, FourLines
    <3>2. three \in Seq(L)
      BY <2>2
    <3> HIDE DEF three
    <3>3. three \o <<c>> = Append(three, c)
      BY <2>2, <3>2
    <3> QED
      BY <3>1, <3>3 DEF three
  <2>5. Stub(blank) = <<a, b, Blank, c>>
    BY <2>1, <2>3, <2>4 DEF a, b, c
  <2>6. <<a, b>> \o <<>> = <<a, b>> /\ <<a, b>> \o <<c>> = <<a, b, c>>
    <3>1. <<a, b>> \o <<>> = <<a, b>>
      BY <2>2
    <3>2. <<a, b>> \o <<c>> = <<a, b, c>>
      BY <2>2, ThreeLines
    <3> QED
      BY <3>1, <3>2
  <2>7. Childless = (<<a, b>> \o <<>>) \o <<c>>
    BY DEF Childless, Stub, a, b, c
  <2> QED
    BY <2>5, <2>6, <2>7
<1>3. Merge(file, old) = MergeFilled(file, new)
  <2>1. Filled(old) = new
    BY DEF Filled
  <2> QED
    BY <2>1 DEF Merge
<1>4. RegionIds(file) = {id} /\ WellFormed(file) /\ Body(file, id) = none
      /\ Begin(id) \in Range(file)
  <2>1. Generated(none)
    BY DEF Generated
  <2>2. Fits(Stub(none), PackageRegion(none, none))
    BY <2>1, StubFits
  <2>3. DOMAIN PackageRegion(none, none) = {id}
    BY DEF PackageRegion
  <2>4. RegionIds(Stub(none)) = {id}
    BY <2>2, <2>3, FitsAll
  <2> QED
    BY <1>2, <2>4, ChildlessBody DEF Childless
<1>5. DOMAIN new = {id} /\ new[id] = blank
  OBVIOUS
<1>6. Bodies(new, L) /\ file \in Seq(L) /\ Len(file) = 3
      /\ file[1] = a /\ file[2] = b /\ file[3] = c
  BY DEF Bodies
<1>7. PackageText(file, none) = Merge(file, old)
  <2> DEFINE S == Range(file) \ (Range(none) \cup {Blank})
             kept == Those(Body(file, id), S)
  <2>1. kept = none
    <3> HIDE DEF S
    <3>1. Those(none, S) = none
      BY ThoseNone
    <3> QED
      BY <1>4, <3>1
  <2>2. none \o none = none
    OBVIOUS
  <2>3. PackageText(file, none) = Merge(file, [x \in {id} |-> kept \o none])
    BY <1>4 DEF PackageText
  <2> HIDE DEF kept
  <2> QED
    BY <2>1, <2>2, <2>3
<1>11. a \in L /\ b \in L /\ c \in L /\ Blank \in L
  OBVIOUS
<1>12. b[2] \in DOMAIN new /\ c[2] \in DOMAIN new /\ new[b[2]] = blank
  BY <1>1, <1>5
<1> HIDE DEF a, b, c, new, L, file, blank
<1>8. MergeWalk(file, new) = <<a, b, Blank, c>>
  <2>1. PICK W \in [0..Len(file) -> Merged(L)] :
          IsMerge(W, file, new) /\ MergeWalk(file, new) = W[Len(file)].out
    BY <1>6, MergeWalks
  <2>2. W[0] = [out |-> <<>>, inside |-> FALSE]
    BY <2>1 DEF IsMerge
  <2>3. /\ W[1] = MergeLine(a, W[0], new) /\ W[2] = MergeLine(b, W[1], new)
        /\ W[3] = MergeLine(c, W[2], new)
    <3>1. \A n \in 1..3 : W[n] = MergeLine(file[n], W[n - 1], new)
      BY <1>6, <2>1 DEF IsMerge
    <3>2. 1 - 1 = 0 /\ 2 - 1 = 1 /\ 3 - 1 = 2
      OBVIOUS
    <3> QED
      BY <1>6, <3>1, <3>2
  <2>4. W[1] = [out |-> <<a>>, inside |-> FALSE]
    <3> DEFINE w == [out |-> <<>>, inside |-> FALSE]
    <3>1. Append(<<>>, a) = <<a>>
      OBVIOUS
    <3>2. w.inside = FALSE /\ [w EXCEPT !.out = Append(@, a)] = [out |-> <<a>>, inside |-> FALSE]
      <4> DEFINE nil == <<>>
                 v == [out |-> nil, inside |-> FALSE]
      <4> HIDE DEF nil
      <4>1. v.inside = FALSE /\ [v EXCEPT !.out = Append(@, a)] = [out |-> Append(nil, a), inside |-> FALSE]
        OBVIOUS
      <4>2. Append(nil, a) = <<a>>
        BY <3>1 DEF nil
      <4>3. w = v
        BY DEF nil
      <4> HIDE DEF v, w
      <4> QED
        BY <4>1, <4>2, <4>3
    <3> HIDE DEF w
    <3>3. MergeLine(a, w, new) = [w EXCEPT !.out = Append(@, a)]
      BY <1>1, <3>2 DEF MergeLine, IsMarker
    <3> QED
      BY <2>2, <2>3, <3>1, <3>2, <3>3 DEF w
  <2>5. W[2] = [out |-> <<a, b, Blank>>, inside |-> TRUE]
    <3>1. \A w : MergeLine(b, w, new) = [out |-> Append(w.out, b) \o blank, inside |-> TRUE]
      <4> TAKE w
      <4>1. b[1] = "begin" /\ b[2] \in DOMAIN new /\ new[b[2]] = blank
        BY <1>1, <1>12
      <4> QED
        BY <4>1 DEF MergeLine, IsMarker
    <3>2. Append(<<a>>, b) \o blank = <<a, b, Blank>>
      <4>1. Append(<<a>>, b) = <<a, b>>
        BY <1>11, TwoLines
      <4>2. <<a, b>> \o <<Blank>> = <<a, b, Blank>>
        BY <1>11, ThreeLines
      <4> QED
        BY <4>1, <4>2 DEF blank
    <3>3. W[1].out = <<a>>
      BY <2>4
    <3> QED
      BY <2>3, <3>1, <3>2, <3>3
  <2>6. W[3].out = <<a, b, Blank, c>>
    <3>1. \A w : MergeLine(c, w, new) = [out |-> Append(w.out, c), inside |-> FALSE]
      <4> TAKE w
      <4>1. c[1] = "end" /\ c[2] \in DOMAIN new
        BY <1>1, <1>12
      <4> QED
        BY <4>1 DEF MergeLine, IsMarker
    <3>2. Append(<<a, b, Blank>>, c) = <<a, b, Blank, c>>
      BY <1>11, FourLines
    <3>3. W[2].out = <<a, b, Blank>>
      BY <2>5
    <3>4. W[3] = [out |-> Append(W[2].out, c), inside |-> FALSE]
      BY <2>3, <3>1
    <3>5. Append(W[2].out, c) = <<a, b, Blank, c>>
      BY <3>2, <3>3
    <3> DEFINE four == <<a, b, Blank, c>>
    <3> HIDE DEF four
    <3>6. W[3] = [out |-> four, inside |-> FALSE]
      BY <3>4, <3>5 DEF four
    <3>7. W[3].out = four
      BY <3>6
    <3> QED
      BY <3>7 DEF four
  <2> QED
    BY <1>6, <2>1, <2>6
<1>9. \A x, out : Added(file, new, x, out) = out
  BY <1>4, <1>5 DEF Added
<1>10. MergeFilled(file, new) = <<a, b, Blank, c>>
  BY <1>8, <1>9 DEF MergeFilled
<1> QED
  BY <1>2, <1>3, <1>7, <1>10 DEF blank

(* What is written for a package.                                            *)
LEMMA PackageFileAgain ==
  ASSUME NEW t, AreTexts(t), NEW pk, NEW p
  PROVE  LET new == PackageFile(t, pk, p)
         IN  /\ IsText(new)
             /\ new # Childless => PackageText(new, Ours(pk, p)) = new
             /\ new = Childless => Ours(pk, p) = <<>>
<1> DEFINE ours == Ours(pk, p)
           new == PackageFile(t, pk, p)
<1>1. Generated(ours)
  BY FoldersGenerated, SortedSeqs DEF Ours
<1> HIDE DEF ours
<1>2. CASE p \in DOMAIN t
  <2>1. IsText(t[p]) /\ new = PackageText(t[p], ours)
    BY <1>2 DEF AreTexts, PackageFile, ours
  <2> HIDE DEF new
  <2> QED
    BY <1>1, <2>1, PackageTextKeeps, PackageTextAgain DEF new, ours
<1>3. CASE p \notin DOMAIN t
  <2>1. new = Stub(ours)
    BY <1>3 DEF PackageFile, ours
  <2>2. Text("stub")[1] = "text" /\ Text("stub") = <<Text("stub")[1], Text("stub")[2]>>
    BY DEF Text
  <2>3. IsText(Stub(ours))
    BY <1>1, <2>2, IdsAreNames, StubIsText DEF Stub
  <2> HIDE DEF new
  <2>4. CASE ours = <<>>
    BY <2>1, <2>3, <2>4 DEF new, ours, Childless
  <2>5. CASE ours # <<>>
    BY <1>1, <2>1, <2>3, <2>5, StubAgain DEF new, ours
  <2> QED
    BY <2>4, <2>5
<1> QED
  BY <1>2, <1>3

(* It is let alone the next time, if it has a line in its region.            *)
Packaged(t, pk, p) ==
    /\ p \in DOMAIN t
    /\ t[p] # Childless => PackageText(t[p], Ours(pk, p)) = t[p]
    /\ t[p] = Childless => Ours(pk, p) = <<>>
Again(text) == IF text = Childless THEN Stub(<<Blank>>) ELSE text

(* What the next generation writes for it.                                   *)
LEMMA PackagedAgain ==
  ASSUME NEW t, NEW pk, NEW p, Packaged(t, pk, p)
  PROVE  PackageFile(t, pk, p) = Again(t[p])
<1>1. PackageFile(t, pk, p) = PackageText(t[p], Ours(pk, p))
  BY DEF Packaged, PackageFile
<1>2. CASE t[p] = Childless
  BY <1>1, <1>2, ChildlessAgain DEF Packaged, Again
<1>3. CASE t[p] # Childless
  BY <1>1, <1>3 DEF Packaged, Again
<1> QED
  BY <1>2, <1>3

Unmarked1(text) == Begin("module_decls") \notin Range(text)

(* The writes of all packages.                                               *)
LEMMA PackagesAlong ==
  ASSUME NEW m, NEW t, AreTexts(t), NEW a, NEW c, NEW e, NEW g, NEW pk, IsFiniteSet(pk), NEW r2,
         RunsTo(State(m, t, a, c, e), PackageSteps(pk), g, pk, r2)
  PROVE  \E t2 : /\ r2 = State(m, t2, a, c, e) /\ AreTexts(t2)
                 /\ \A p \in DOMAIN t : p \in DOMAIN t2
                 /\ \A p \in DOMAIN t : p \notin pk \/ Unmarked1(t[p]) => t2[p] = t[p]
                 /\ \A p \in pk : Packaged(t2, pk, p)
<1> DEFINE paths == SetToSeq(pk)
           N == Len(paths)
           Done(t2, n) ==
             /\ AreTexts(t2)
             /\ \A p \in DOMAIN t : p \in DOMAIN t2
             /\ \A p \in DOMAIN t : p \notin pk \/ Unmarked1(t[p]) => t2[p] = t[p]
             /\ \A i \in 1..n : Packaged(t2, pk, paths[i])
<1>0. paths \in Seq(pk) /\ N \in Nat /\ DOMAIN paths = 1..N /\ Len(PackageSteps(pk)) = N
  BY SetsAreLists DEF PackageSteps
<1>1. PICK R : /\ R[0] = State(m, t, a, c, e) /\ r2 = R[N]
               /\ \A n \in 1..N : R[n] = Write(R[n - 1], PackageSteps(pk)[n], g, pk)
  BY <1>0 DEF RunsTo
<1> DEFINE Upto(n) == \E t2 : R[n] = State(m, t2, a, c, e) /\ Done(t2, n)
           T == {n \in Nat : n <= N => Upto(n)}
<1>2. 0 \in T
  BY <1>1
<1>3. ASSUME NEW n \in Nat, n \in T PROVE n + 1 \in T
  <2> SUFFICES ASSUME n + 1 <= N PROVE Upto(n + 1)
    OBVIOUS
  <2>1. PICK t1 : R[n] = State(m, t1, a, c, e) /\ Done(t1, n)
    BY <1>0, <1>3
  <2> DEFINE q == paths[n + 1]
             new == PackageFile(t1, pk, q)
             t2 == Put(t1, q, new)
  <2>2. n + 1 \in 1..N /\ (n + 1) - 1 = n
    BY <1>0
  <2>3. PackageSteps(pk)[n + 1] = Step("package", q) /\ q \in pk
    BY <1>0, <2>2 DEF PackageSteps
  <2>4. R[n + 1] = Write(State(m, t1, a, c, e), Step("package", q), g, pk)
    BY <1>1, <2>1, <2>2, <2>3
  <2> HIDE DEF paths, q
  <2>5. R[n + 1] = State(m, t2, a, c, e)
    <3>1. Write(State(m, t1, a, c, e), Step("package", q), g, pk) = State(m, t2, a, c, e)
      BY PackageWrites
    <3> QED
      BY <2>4, <3>1
  <2>6. /\ IsText(new)
        /\ new # Childless => PackageText(new, Ours(pk, q)) = new
        /\ new = Childless => Ours(pk, q) = <<>>
    BY <2>1, PackageFileAgain
  <2>7. q \in DOMAIN t1 /\ Unmarked1(t1[q]) => new = t1[q]
    BY DEF PackageFile, PackageText, Unmarked1
  <2> HIDE DEF new
  <2>8. IsMap(t2)
    BY PutIsMap
  <2>9. /\ DOMAIN t2 = DOMAIN t1 \cup {q} /\ t2[q] = new
        /\ \A p \in DOMAIN t1 : p # q => t2[p] = t1[p]
    BY DEF Put
  <2> HIDE DEF t2
  <2>10. AreTexts(t2)
    BY <2>1, <2>6, <2>8, <2>9 DEF AreTexts
  <2>11. \A p \in DOMAIN t : p \in DOMAIN t2
    BY <2>1, <2>9
  <2>12. ASSUME NEW p \in DOMAIN t, p \notin pk \/ Unmarked1(t[p]) PROVE t2[p] = t[p]
    <3>1. p \in DOMAIN t1 /\ t1[p] = t[p]
      BY <2>1, <2>12
    <3>2. CASE p # q
      BY <2>9, <3>1, <3>2
    <3>3. CASE p = q
      BY <2>3, <2>7, <2>9, <2>12, <3>1, <3>3
    <3> QED
      BY <3>2, <3>3
  <2>13. ASSUME NEW i \in 1..(n + 1) PROVE Packaged(t2, pk, paths[i])
    <3>1. CASE paths[i] = q
      BY <2>6, <2>9, <3>1 DEF Packaged
    <3>2. CASE paths[i] # q
      <4>1. i # n + 1
        BY <3>2 DEF q
      <4>2. i \in 1..n
        BY <4>1
      <4>3. Packaged(t1, pk, paths[i])
        BY <2>1, <4>2
      <4> QED
        BY <2>9, <3>2, <4>3 DEF Packaged
    <3> QED
      BY <3>1, <3>2
  <2> QED
    BY <2>5, <2>10, <2>11, <2>12, <2>13
<1>4. Nat \subseteq T
  <2> HIDE DEF T
  <2> QED
    BY <1>2, <1>3, NatBySets
<1>5. PICK t2 : R[N] = State(m, t2, a, c, e) /\ Done(t2, N)
  BY <1>0, <1>4
<1>6. \A p \in pk : Packaged(t2, pk, p)
  BY <1>0, <1>5, SetsAreWhole
<1> QED
  BY <1>1, <1>5, <1>6
-----------------------------------------------------------------------------
(* What the files are, once a generation ended well.                         *)

(* They are those of the graph and the packages, and the next generation     *)
(* would make them again.                                                    *)
Settled(d, g, pk) ==
    /\ d.errors = Framework(g) /\ d.main = Main(g) /\ d.cargo = Cargo(g) /\ ~NeverEnds(g)
    /\ \A n \in 1..Len(g.nodes) : Fine(g, g.nodes[n])
    /\ \E m : WithNodes(m, d.modules, g, Len(g.nodes))
    /\ Lib \in DOMAIN d.texts /\ Fits(d.texts[Lib], LibRegions(g, pk))
    /\ \A i \in 1..Len(Dirs(g)) : DirFits(d.texts, g, Dirs(g)[i])
    /\ \A p \in pk : Packaged(d.texts, pk, p)

(* A generation as its parts. *)
InParts(r, g, pk, r1, r2, r3, r4, r5, r6) ==
    /\ RunsTo(r, <<Step("errors", 0)>>, g, pk, r1)
    /\ RunsTo(r1, NodeSteps(g), g, pk, r2)
    /\ RunsTo(r2, <<Step("main", 0), Step("lib", 0)>>, g, pk, r3)
    /\ RunsTo(r3, DirSteps(g), g, pk, r4)
    /\ RunsTo(r4, <<Step("cargo", 0)>>, g, pk, r5)
    /\ RunsTo(r5, PackageSteps(pk), g, pk, r6)

(* A generation does its parts one after the other.                          *)
LEMMA RunsInParts ==
  ASSUME NEW g, IsGraph(g), NEW pk, IsFiniteSet(pk), NEW r, NEW r6,
         RunsTo(r, Steps(g, pk), g, pk, r6)
  PROVE  \E r1, r2, r3, r4, r5 : InParts(r, g, pk, r1, r2, r3, r4, r5, r6)
<1> DEFINE a == <<Step("errors", 0)>>
           b == NodeSteps(g)
           c == <<Step("main", 0), Step("lib", 0)>>
           d == DirSteps(g)
           e == <<Step("cargo", 0)>>
           f == PackageSteps(pk)
<1>1. Steps(g, pk) = a \o b \o c \o d \o e \o f
  BY StepsAreTheirParts
<1>2. PICK X : /\ a \in Seq(X) /\ b \in Seq(X) /\ c \in Seq(X) /\ d \in Seq(X)
               /\ e \in Seq(X) /\ f \in Seq(X)
  BY StepParts
<1> DEFINE ab == a \o b
           abc == ab \o c
           abcd == abc \o d
           abcde == abcd \o e
<1> HIDE DEF a, b, c, d, e, f
<1>3. ab \in Seq(X)
  BY <1>2
<1> HIDE DEF ab
<1>4. abc \in Seq(X)
  BY <1>2, <1>3
<1> HIDE DEF abc
<1>5. abcd \in Seq(X)
  BY <1>2, <1>4
<1> HIDE DEF abcd
<1>6. abcde \in Seq(X)
  BY <1>2, <1>5
<1> HIDE DEF abcde
<1>7. RunsTo(r, abcde \o f, g, pk, r6)
  BY <1>1 DEF abcde, abcd, abc, ab
<1>8. PICK r5 : RunsTo(r, abcde, g, pk, r5) /\ RunsTo(r5, f, g, pk, r6)
  BY <1>2, <1>6, <1>7, RunSplits
<1>9. PICK r4 : RunsTo(r, abcd, g, pk, r4) /\ RunsTo(r4, e, g, pk, r5)
  BY <1>2, <1>5, <1>8, RunSplits DEF abcde
<1>10. PICK r3 : RunsTo(r, abc, g, pk, r3) /\ RunsTo(r3, d, g, pk, r4)
  BY <1>2, <1>4, <1>9, RunSplits DEF abcd
<1>11. PICK r2 : RunsTo(r, ab, g, pk, r2) /\ RunsTo(r2, c, g, pk, r3)
  BY <1>2, <1>3, <1>10, RunSplits DEF abc
<1>12. PICK r1 : RunsTo(r, a, g, pk, r1) /\ RunsTo(r1, b, g, pk, r2)
  BY <1>2, <1>11, RunSplits DEF ab
<1> QED
  BY <1>8, <1>9, <1>10, <1>11, <1>12 DEF InParts, a, b, c, d, e, f

(* The region of packages is not in a file that fits without it.             *)
LEMMA FitsUnmarked ==
  ASSUME NEW file, NEW new, Fits(file, new), "module_decls" \notin DOMAIN new
  PROVE  Unmarked1(file)
<1>1. PICK L : file \in Seq(L) /\ MarkersOf(file, DOMAIN new)
  <2>1. PICK L : Made(L, file, new, Outside, DOMAIN new)
    BY DEF Fits
  <2>2. (DOMAIN new) \cap DOMAIN new = DOMAIN new
    OBVIOUS
  <2> QED
    BY <2>1, <2>2 DEF Made
<1>2. Begin("module_decls")[1] = "begin" /\ Begin("module_decls")[2] = "module_decls"
  BY DEF Begin
<1> QED
  BY <1>1, <1>2 DEF Unmarked1, MarkersOf, IsMarker, Range

(* A file that fits without a region has no body for it.                     *)
LEMMA FitsWithout ==
  ASSUME NEW file, NEW new, Fits(file, new), NEW id, id \notin DOMAIN new
  PROVE  Body(file, id) = <<>>
<1>1. PICK L : file \in Seq(L) /\ MarkersOf(file, DOMAIN new)
  <2>1. PICK L : Made(L, file, new, Outside, DOMAIN new)
    BY DEF Fits
  <2>2. (DOMAIN new) \cap DOMAIN new = DOMAIN new
    OBVIOUS
  <2> QED
    BY <2>1, <2>2 DEF Made
<1> DEFINE b == SelectInSeq(file, LAMBDA line : line = Begin(id))
<1>2. \A i \in 1..Len(file) : file[i] # Begin(id)
  BY <1>1 DEF MarkersOf, IsMarker, Begin
<1>3. b = 0
  <2>1. {i \in 1..Len(file) : file[i] = Begin(id)} = {}
    BY <1>2
  <2> QED
    BY <2>1 DEF SelectInSeq
<1> HIDE DEF b
<1> QED
  BY <1>3 DEF Body, b

(* The regions of lib.rs.                                                    *)
LEMMA LibRegionIds ==
  \A g, pk : /\ "module_decls" \in DOMAIN LibRegions(g, pk)
             /\ DOMAIN LibRegions(g, pk) \subseteq MergedIds
             /\ LibRegions(g, pk)["module_decls"] = LibDecls(g, pk)
  BY DEF LibRegions, MergedIds

(* None of them is empty.                                                    *)
LEMMA LibRegionsFilled == \A g, pk : Filled(LibRegions(g, pk)) = LibRegions(g, pk)
<1> SUFFICES ASSUME NEW g, NEW pk PROVE Filled(LibRegions(g, pk)) = LibRegions(g, pk)
  OBVIOUS
<1> DEFINE decls == LibDecls(g, pk)
           routes == Routes(g)
           ids == {"module_decls"} \cup (IF routes = <<>> THEN {} ELSE {"routes"})
           new == LibRegions(g, pk)
<1>1. decls # <<>>
  <2> DEFINE a == <<Folder("errors"), Folder("debug")>>
             b == Declare(Range(Dirs(g)), SortedDirs)
             c == Declare(Children(pk, Lib) \ (Range(Dirs(g)) \cup Range(Given)), SortedSlugs)
             M == (ToSet(a) \cup ToSet(b)) \cup ToSet(c)
  <2>1. decls = (a \o b) \o c
    BY GivenAre DEF LibDecls, GivenDecls
  <2>2. Generated(b) /\ Generated(c)
    BY FoldersGenerated, SortedSeqs
  <2>3. a \in Seq(ToSet(a)) /\ Len(a) = 2
    BY DEF ToSet
  <2> HIDE DEF a, b, c
  <2>4. a \in Seq(M) /\ b \in Seq(M) /\ c \in Seq(M)
    BY <2>2, <2>3 DEF Generated
  <2> HIDE DEF M, decls
  <2>5. /\ a \o b \in Seq(M) /\ Len(a \o b) = Len(a) + Len(b)
        /\ Len(b) \in Nat /\ Len(c) \in Nat
    BY <2>4, ConcatLines
  <2> DEFINE ab == a \o b
  <2>6. Len(decls) = Len(ab) + Len(c)
    <3>1. ab \in Seq(M) /\ decls = ab \o c
      BY <2>1, <2>5
    <3> HIDE DEF ab
    <3> QED
      BY <2>4, <3>1, ConcatLines
  <2>7. Len(<<>>) = 0 /\ Len(decls) # 0
    BY <2>3, <2>5, <2>6
  <2> QED
    BY <2>7
<1>2. new = [id \in ids |-> IF id = "routes" THEN routes ELSE decls]
  BY DEF LibRegions
<1> HIDE DEF decls, new
<1>3. \A id \in ids : (IF id = "routes" THEN routes ELSE decls) # <<>>
  BY <1>1
<1> HIDE DEF ids, routes
<1>4. Filled(new) = new
  BY <1>2, <1>3 DEF Filled
<1> QED
  BY <1>4 DEF new

(* The merge of lib.rs.                                                      *)
LEMMA LibMerged ==
  ASSUME NEW t, AreTexts(t), NEW g, IsGraph(g), NEW pk, WellFormed(LibBase(t, g))
  PROVE  LET new == Merge(LibBase(t, g), LibRegions(g, pk))
         IN  IsText(new) /\ Fits(new, LibRegions(g, pk))
<1> DEFINE base == LibBase(t, g)
           regions == LibRegions(g, pk)
<1>1. IsText(base)
  BY ScaffoldIsText DEF AreTexts, LibBase
<1>2. (\A id \in DOMAIN regions : Generated(regions[id])) /\ DOMAIN regions \subseteq MergedIds
  BY RegionsGenerated, LibRegionIds
<1>3. Filled(regions) = regions
  BY LibRegionsFilled
<1> HIDE DEF base, regions
<1> QED
  BY <1>1, <1>2, <1>3, MergeKeepsText, MergeFits DEF base, regions

(* The start of a generation, as a state.                                    *)
LEMMA DisksAreStates ==
  ASSUME NEW d, IsDisk(d)
  PROVE  [disk |-> d, status |-> "running"] = State(d.modules, d.texts, d.main, d.cargo, d.errors)
  BY DEF IsDisk, State

(* The fields of a state.                                                    *)
LEMMA StateFields ==
  \A m, t, a, c, e :
    LET r == State(m, t, a, c, e)
    IN  /\ r.disk.modules = m /\ r.disk.texts = t /\ r.disk.main = a /\ r.disk.cargo = c
        /\ r.disk.errors = e /\ r.status = "running"
  BY DEF State

(* Both facts of a lib.rs that was written.                                  *)
LEMMA LibStops ==
  ASSUME NEW m, NEW t, NEW a, NEW c, NEW e, NEW g, NEW pk, NEW r,
         r = Write(State(m, t, a, c, e), Step("lib", 0), g, pk), r.status = "running"
  PROVE  /\ ~NeverEnds(g) /\ WellFormed(LibBase(t, g))
         /\ r = State(m, Put(t, Lib, Merge(LibBase(t, g), LibRegions(g, pk))), a, c, e)
<1>1. ~NeverEnds(g) /\ WellFormed(LibBase(t, g))
  BY LibGoesOn
<1> QED
  BY <1>1, LibWrites

(* What ended well is settled.                                               *)
LEMMA GenerationSettles ==
  ASSUME NEW d, IsDisk(d), NEW g, IsGraph(g), NEW pk, IsFiniteSet(pk), Lib \notin pk, NEW r6,
         RunsTo([disk |-> d, status |-> "running"], Steps(g, pk), g, pk, r6),
         r6.status = "running"
  PROVE  /\ Settled(r6.disk, g, pk)
         /\ r6.disk.texts[Lib] = Merge(LibBase(d.texts, g), LibRegions(g, pk))
<1> DEFINE m0 == d.modules
           t0 == d.texts
           a0 == d.main
           c0 == d.cargo
           e0 == d.errors
           r0 == [disk |-> d, status |-> "running"]
           fw == Framework(g)
           a1 == Main(g)
           c1 == Cargo(g)
           text == Merge(LibBase(t0, g), LibRegions(g, pk))
           t1 == Put(t0, Lib, text)
<1>1. r0 = State(m0, t0, a0, c0, e0) /\ AreTexts(t0) /\ IsMap(m0)
  BY DisksAreStates DEF IsDisk, AreTexts
<1>2. PICK r1, r2, r3, r4, r5 : InParts(r0, g, pk, r1, r2, r3, r4, r5, r6)
  BY RunsInParts
<1> HIDE DEF m0, t0, a0, c0, e0, r0, fw, a1, c1, text
<1>3. /\ Len(NodeSteps(g)) = Len(g.nodes) /\ Len(g.nodes) \in Nat
      /\ Len(DirSteps(g)) \in Nat /\ Len(PackageSteps(pk)) \in Nat
      /\ Len(<<Step("main", 0), Step("lib", 0)>>) \in Nat /\ Len(<<Step("cargo", 0)>>) \in Nat
  BY DirsAreASeq, SetsAreLists DEF NodeSteps, DirSteps, PackageSteps, IsGraph
<1>4. /\ r5.status = "running" /\ r4.status = "running" /\ r3.status = "running"
      /\ r2.status = "running"
  <2>1. r5.status = "running"
    BY <1>2, <1>3, RunStarted DEF InParts
  <2>2. r4.status = "running"
    BY <1>2, <1>3, <2>1, RunStarted DEF InParts
  <2>3. r3.status = "running"
    BY <1>2, <1>3, <2>2, RunStarted DEF InParts
  <2>4. r2.status = "running"
    BY <1>2, <1>3, <2>3, RunStarted DEF InParts
  <2> QED
    BY <2>1, <2>2, <2>3, <2>4
<1>5. r1 = State(m0, t0, a0, c0, fw)
  <2>1. r1 = Write(r0, Step("errors", 0), g, pk)
    BY <1>2, RunOne DEF InParts
  <2> QED
    BY <1>1, <2>1, WholeWrites DEF fw
<1>6. PICK m1 : /\ r2 = State(m1, t0, a0, c0, fw) /\ WithNodes(m0, m1, g, Len(g.nodes))
                /\ \A n \in 1..Len(g.nodes) : Fine(g, g.nodes[n])
  <2>1. PICK R : /\ R[0] = r1 /\ r2 = R[Len(g.nodes)]
                 /\ \A n \in 1..Len(g.nodes) : R[n] = Write(R[n - 1], NodeSteps(g)[n], g, pk)
                 /\ \A n \in 0..Len(g.nodes) : R[n].status = "running"
    <3>1. RunsTo(r1, NodeSteps(g), g, pk, r2)
      BY <1>2 DEF InParts
    <3> QED
      BY <1>3, <1>4, <3>1, RunStops
  <2>2. GoesOn(R, g)
    BY <1>3, <2>1 DEF GoesOn
  <2>3. R[0] = State(m0, t0, a0, c0, fw)
    BY <1>5, <2>1
  <2>4. AlongNodes(R, g, pk)
    BY <2>1 DEF AlongNodes
  <2>5. \E m2 : /\ R[Len(g.nodes)] = State(m2, t0, a0, c0, fw)
                /\ WithNodes(m0, m2, g, Len(g.nodes))
    BY <1>1, <2>2, <2>3, <2>4, NodesAlong
  <2>6. \A n \in 1..Len(g.nodes) : Fine(g, g.nodes[n])
    BY <1>1, <2>2, <2>3, <2>4, NodesAlong
  <2> QED
    BY <2>1, <2>5, <2>6
<1>8. /\ r3 = State(m1, t1, a1, c0, fw) /\ ~NeverEnds(g) /\ WellFormed(LibBase(t0, g))
  <2>1. r3 = Write(Write(r2, Step("main", 0), g, pk), Step("lib", 0), g, pk)
    BY <1>2, RunTwo DEF InParts
  <2>2. Write(r2, Step("main", 0), g, pk) = State(m1, t0, a1, c0, fw)
    BY <1>6, WholeWrites DEF a1
  <2>3. r3 = Write(State(m1, t0, a1, c0, fw), Step("lib", 0), g, pk)
    BY <2>1, <2>2
  <2> QED
    BY <1>4, <2>3, LibStops DEF text
<1>9. IsText(text) /\ Fits(text, LibRegions(g, pk))
  BY <1>1, <1>8, LibMerged DEF text
<1>10. /\ AreTexts(t1) /\ Lib \in DOMAIN t1 /\ t1[Lib] = text
  <2>1. IsMap(t1)
    BY PutIsMap
  <2>2. DOMAIN t1 = DOMAIN t0 \cup {Lib} /\ t1[Lib] = text
        /\ \A p \in DOMAIN t0 : p # Lib => t1[p] = t0[p]
    BY DEF Put
  <2> HIDE DEF t1
  <2> QED
    BY <1>1, <1>9, <2>1, <2>2 DEF AreTexts
<1> HIDE DEF t1
<1>11. PICK t2 : /\ r4 = State(m1, t2, a1, c0, fw) /\ AreTexts(t2)
                 /\ \A p \in DOMAIN t1 : p \in DOMAIN t2
                 /\ Lib \in DOMAIN t1 => t2[Lib] = t1[Lib]
                 /\ \A i \in 1..Len(Dirs(g)) : DirFits(t2, g, Dirs(g)[i])
  <2>1. RunsTo(State(m1, t1, a1, c0, fw), DirSteps(g), g, pk, r4)
    BY <1>2, <1>8 DEF InParts
  <2>2. AreTexts(t1) /\ r4.status = "running"
    BY <1>4, <1>10
  <2> QED
    BY <2>1, <2>2, DirsAlong
<1>12. r5 = State(m1, t2, a1, c1, fw)
  <2>1. r5 = Write(r4, Step("cargo", 0), g, pk)
    BY <1>2, RunOne DEF InParts
  <2> QED
    BY <1>11, <2>1, WholeWrites DEF c1
<1>13. PICK t3 : /\ r6 = State(m1, t3, a1, c1, fw) /\ AreTexts(t3)
                 /\ \A p \in DOMAIN t2 : p \in DOMAIN t3
                 /\ \A p \in DOMAIN t2 : p \notin pk \/ Unmarked1(t2[p]) => t3[p] = t2[p]
                 /\ \A p \in pk : Packaged(t3, pk, p)
  <2>1. RunsTo(State(m1, t2, a1, c1, fw), PackageSteps(pk), g, pk, r6)
    BY <1>2, <1>12 DEF InParts
  <2>2. AreTexts(t2) /\ IsFiniteSet(pk)
    BY <1>11
  <2> QED
    BY <2>1, <2>2, PackagesAlong
<1>14. Lib \in DOMAIN t3 /\ Fits(t3[Lib], LibRegions(g, pk))
  BY <1>9, <1>10, <1>11, <1>13
<1>15. \A i \in 1..Len(Dirs(g)) : DirFits(t3, g, Dirs(g)[i])
  <2> SUFFICES ASSUME NEW i \in 1..Len(Dirs(g)) PROVE DirFits(t3, g, Dirs(g)[i])
    OBVIOUS
  <2> DEFINE x == Dirs(g)[i]
             p == <<x>>
  <2>1. DirFits(t2, g, x)
    BY <1>11
  <2> HIDE DEF x
  <2>2. p \in DOMAIN t2 /\ Fits(t2[p], DirRegions(g, x))
    BY <2>1 DEF DirFits
  <2>3. "module_decls" \notin DOMAIN DirRegions(g, x)
    BY DEF DirRegions
  <2> HIDE DEF p
  <2>4. Unmarked1(t2[p])
    BY <2>2, <2>3, FitsUnmarked
  <2>5. p \in DOMAIN t3 /\ t3[p] = t2[p]
    BY <1>13, <2>2, <2>4
  <2> QED
    BY <2>2, <2>5 DEF DirFits, x, p
<1>16. /\ r6.disk.modules = m1 /\ r6.disk.texts = t3 /\ r6.disk.main = a1 /\ r6.disk.cargo = c1
       /\ r6.disk.errors = fw
  BY <1>13, StateFields
<1>17. Settled(r6.disk, g, pk)
  BY <1>6, <1>8, <1>13, <1>14, <1>15, <1>16 DEF Settled, fw, a1, c1
<1>18. r6.disk.texts[Lib] = text
  BY <1>10, <1>11, <1>13, <1>16
<1> QED
  BY <1>17, <1>18 DEF text, t0
-----------------------------------------------------------------------------
(* A generation of what was generated changes nothing.                       *)

(* A file that is written as it is changes nothing.                          *)
LEMMA PutSame ==
  ASSUME NEW f, IsMap(f), NEW k \in DOMAIN f
  PROVE  Put(f, k, f[k]) = f
<1> DEFINE h == Put(f, k, f[k])
<1>1. DOMAIN h = DOMAIN f /\ \A x \in DOMAIN f : h[x] = f[x]
  BY DEF Put
<1>2. h = [x \in DOMAIN h |-> h[x]] /\ f = [x \in DOMAIN f |-> f[x]]
  BY PutIsMap DEF IsMap
<1> HIDE DEF h
<1>3. h = f
  BY <1>1, <1>2
<1> QED
  BY <1>3 DEF h

Idle(r, steps, g, pk) == \A n \in 1..Len(steps) : Write(r, steps[n], g, pk) = r

(* Steps that change nothing, each, change nothing.                          *)
LEMMA IdleStays ==
  ASSUME NEW steps, Len(steps) \in Nat, NEW r, NEW g, NEW pk, Idle(r, steps, g, pk), NEW r2,
         RunsTo(r, steps, g, pk, r2)
  PROVE  r2 = r
<1> DEFINE N == Len(steps)
<1>1. PICK R : /\ R[0] = r /\ r2 = R[N]
               /\ \A n \in 1..N : R[n] = Write(R[n - 1], steps[n], g, pk)
  BY DEF RunsTo
<1> DEFINE T == {n \in Nat : n <= N => R[n] = r}
<1>2. 0 \in T
  BY <1>1
<1>3. ASSUME NEW n \in Nat, n \in T PROVE n + 1 \in T
  <2> SUFFICES ASSUME n + 1 <= N PROVE R[n + 1] = r
    OBVIOUS
  <2>1. n + 1 \in 1..N /\ (n + 1) - 1 = n /\ R[n] = r
    BY <1>3
  <2>2. Write(r, steps[n + 1], g, pk) = r
    BY <2>1 DEF Idle
  <2> QED
    BY <1>1, <2>1, <2>2
<1>4. Nat \subseteq T
  <2> HIDE DEF T
  <2> QED
    BY <1>2, <1>3, NatBySets
<1> QED
  BY <1>1, <1>4

(* The writes of directories that fit,                                       *)
LEMMA DirsIdle ==
  ASSUME NEW m, NEW t, AreTexts(t), NEW a, NEW c, NEW e, NEW g, IsGraph(g), NEW pk,
         \A i \in 1..Len(Dirs(g)) : DirFits(t, g, Dirs(g)[i])
  PROVE  Idle(State(m, t, a, c, e), DirSteps(g), g, pk)
<1> DEFINE r == State(m, t, a, c, e)
<1>1. Dirs(g) \in Seq(SortedNames) /\ Len(DirSteps(g)) = Len(Dirs(g))
  BY DirsAreASeq DEF DirSteps
<1>2. ASSUME NEW n \in 1..Len(Dirs(g)) PROVE Write(r, DirSteps(g)[n], g, pk) = r
  <2> DEFINE d == Dirs(g)[n]
             p == <<d>>
  <2>1. DirSteps(g)[n] = Step("dir", d)
    BY <1>1 DEF DirSteps
  <2>2. p \in DOMAIN t /\ Fits(t[p], DirRegions(g, d))
    BY DEF DirFits
  <2>0. d \in Range(Dirs(g))
    BY <1>1 DEF Range
  <2> HIDE DEF d
  <2>3. DirBase(t, d) = t[p]
    BY <2>2 DEF DirBase
  <2> DEFINE x == t[p]
             q == DirRegions(g, d)
  <2>4. WellFormed(x) /\ Merge(x, q) = x
    <3>2. Filled(q) = q
      BY <2>0, DirRegionsFilled
    <3> HIDE DEF x, q, p
    <3>1. Fits(x, q)
      BY <2>2 DEF x, q
    <3> QED
      BY <3>1, <3>2, FitsStays
  <2>5. WellFormed(DirBase(t, d)) /\ Merge(DirBase(t, d), DirRegions(g, d)) = x
    BY <2>3, <2>4
  <2>6. Write(r, Step("dir", d), g, pk) = State(m, Put(t, p, x), a, c, e)
    BY <2>5, DirWrites
  <2> HIDE DEF p
  <2>7. Put(t, p, x) = t
    BY <2>2, PutSame DEF AreTexts
  <2> QED
    BY <2>1, <2>6, <2>7
<1> QED
  BY <1>1, <1>2 DEF Idle

(* ... and those of packages, which are let alone but for the blank lines.   *)
Later(t, pk) == [p \in DOMAIN t |-> IF p \in pk THEN Again(t[p]) ELSE t[p]]
LEMMA PackagesIdle ==
  ASSUME NEW m, NEW t, AreTexts(t), NEW a, NEW c, NEW e, NEW g, NEW pk, IsFiniteSet(pk),
         \A p \in pk : Packaged(t, pk, p), NEW r2,
         RunsTo(State(m, t, a, c, e), PackageSteps(pk), g, pk, r2)
  PROVE  r2 = State(m, Later(t, pk), a, c, e)
<1> DEFINE paths == SetToSeq(pk)
           N == Len(paths)
           seen(n) == {paths[i] : i \in 1..n}
<1>0. paths \in Seq(pk) /\ N \in Nat /\ DOMAIN paths = 1..N /\ Len(PackageSteps(pk)) = N
  BY SetsAreLists DEF PackageSteps
<1>1. PICK R : /\ R[0] = State(m, t, a, c, e) /\ r2 = R[N]
               /\ \A n \in 1..N : R[n] = Write(R[n - 1], PackageSteps(pk)[n], g, pk)
  BY <1>0 DEF RunsTo
<1> DEFINE Upto(n) == R[n] = State(m, Later(t, seen(n)), a, c, e)
           T == {n \in Nat : n <= N => Upto(n)}
<1>2. 0 \in T
  <2>1. seen(0) = {}
    OBVIOUS
  <2> HIDE DEF seen
  <2>2. Later(t, {}) = t
    BY DEF Later, AreTexts, IsMap
  <2> QED
    BY <1>1, <2>1, <2>2
<1>3. ASSUME NEW n \in Nat, n \in T PROVE n + 1 \in T
  <2> SUFFICES ASSUME n + 1 <= N PROVE Upto(n + 1)
    OBVIOUS
  <2>1. n + 1 \in 1..N /\ (n + 1) - 1 = n /\ Upto(n)
    BY <1>0, <1>3
  <2> DEFINE q == paths[n + 1]
             t1 == Later(t, seen(n))
  <2>2. PackageSteps(pk)[n + 1] = Step("package", q) /\ q \in pk
    BY <1>0, <2>1 DEF PackageSteps
  <2>3. R[n + 1] = State(m, Put(t1, q, PackageFile(t1, pk, q)), a, c, e)
    <3>1. R[n + 1] = Write(State(m, t1, a, c, e), Step("package", q), g, pk)
      BY <1>1, <2>1, <2>2
    <3> HIDE DEF q, t1
    <3> QED
      BY <3>1, PackageWrites
  <2>4. q \notin seen(n)
    <3>1. \A i \in 1..n : i \in DOMAIN paths /\ n + 1 \in DOMAIN paths /\ i # n + 1
      BY <1>0, <2>1
    <3>2. IsInjective(paths)
      BY SetsAreWhole
    <3> HIDE DEF paths
    <3> QED
      BY <3>1, <3>2 DEF IsInjective
  <2>5. seen(n + 1) = seen(n) \cup {q}
    <3>1. 1..(n + 1) = (1..n) \cup {n + 1}
      OBVIOUS
    <3> HIDE DEF paths
    <3> QED
      BY <3>1
  <2> HIDE DEF paths, q, seen
  <2>6. q \in DOMAIN t
    BY <2>2 DEF Packaged
  <2>7. DOMAIN t1 = DOMAIN t /\ t1[q] = t[q]
    BY <2>4, <2>6 DEF Later
  <2>8. Packaged(t, pk, q)
    BY <2>2
  <2>9. Packaged(t1, pk, q)
    <3> HIDE DEF t1
    <3> QED
      BY <2>7, <2>8 DEF Packaged
  <2>10. PackageFile(t1, pk, q) = Again(t[q])
    <3> HIDE DEF t1
    <3> QED
      BY <2>7, <2>9, PackagedAgain
  <2> DEFINE h == Put(t1, q, Again(t[q]))
             k == Later(t, seen(n + 1))
  <2>11. DOMAIN h = DOMAIN t /\ DOMAIN k = DOMAIN t
    BY <2>6, <2>7 DEF Put, Later
  <2>12. ASSUME NEW p \in DOMAIN t PROVE h[p] = k[p]
    <3>1. CASE p = q
      BY <2>5, <2>6, <3>1 DEF Put, Later
    <3>2. CASE p # q
      <4>1. h[p] = t1[p]
        BY <2>7, <3>2 DEF Put
      <4>2. p \in seen(n + 1) <=> p \in seen(n)
        BY <2>5, <3>2
      <4> QED
        BY <4>1, <4>2 DEF Later
    <3> QED
      BY <3>1, <3>2
  <2>13. IsMap(h) /\ IsMap(k)
    <3>1. IsMap(h)
      BY PutIsMap
    <3>2. IsMap(k)
      BY DEF IsMap, Later
    <3> QED
      BY <3>1, <3>2
  <2> HIDE DEF h, k
  <2>14. h = k
    BY <2>11, <2>12, <2>13 DEF IsMap
  <2> QED
    BY <2>3, <2>10, <2>14 DEF h, k
<1>4. Nat \subseteq T
  <2> HIDE DEF T
  <2> QED
    BY <1>2, <1>3, NatBySets
<1>5. Upto(N)
  BY <1>0, <1>4
<1>6. seen(N) = pk
  <2>1. \A x \in pk : \E i \in DOMAIN paths : paths[i] = x
    BY SetsAreWhole
  <2> HIDE DEF paths
  <2> QED
    BY <1>0, <2>1
<1> HIDE DEF seen
<1> QED
  BY <1>1, <1>5, <1>6

(* A generation over settled files.                                          *)
LEMMA SettledIsIdle ==
  ASSUME NEW d, IsDisk(d), NEW g, IsGraph(g), NEW pk, IsFiniteSet(pk), Settled(d, g, pk), NEW r6,
         RunsTo([disk |-> d, status |-> "running"], Steps(g, pk), g, pk, r6)
  PROVE  r6 = [disk |-> [d EXCEPT !.texts = Later(@, pk)], status |-> "running"]
<1> DEFINE m0 == d.modules
           t0 == d.texts
           a0 == d.main
           c0 == d.cargo
           e0 == d.errors
           r0 == [disk |-> d, status |-> "running"]
<1>1. r0 = State(m0, t0, a0, c0, e0) /\ AreTexts(t0) /\ IsMap(m0)
  BY DisksAreStates DEF IsDisk, AreTexts
<1>2. PICK r1, r2, r3, r4, r5 : InParts(r0, g, pk, r1, r2, r3, r4, r5, r6)
  BY RunsInParts
<1>3. /\ e0 = Framework(g) /\ a0 = Main(g) /\ c0 = Cargo(g) /\ ~NeverEnds(g)
      /\ \A n \in 1..Len(g.nodes) : Fine(g, g.nodes[n])
      /\ \E m : WithNodes(m, m0, g, Len(g.nodes))
      /\ Lib \in DOMAIN t0 /\ Fits(t0[Lib], LibRegions(g, pk))
  BY DEF Settled
<1>4. \A i \in 1..Len(Dirs(g)) : DirFits(t0, g, Dirs(g)[i])
  BY DEF Settled
<1>5. \A p \in pk : Packaged(t0, pk, p)
  BY DEF Settled
<1> HIDE DEF m0, t0, a0, c0, e0, r0
<1>6. /\ Len(NodeSteps(g)) = Len(g.nodes) /\ Len(g.nodes) \in Nat
      /\ Len(DirSteps(g)) \in Nat /\ Len(PackageSteps(pk)) \in Nat
  BY DirsAreASeq, SetsAreLists DEF NodeSteps, DirSteps, PackageSteps, IsGraph
<1>7. r1 = r0
  <2>1. r1 = Write(r0, Step("errors", 0), g, pk)
    BY <1>2, RunOne DEF InParts
  <2>2. r1 = State(m0, t0, a0, c0, Framework(g))
    BY <1>1, <2>1, WholeWrites
  <2> QED
    BY <1>1, <1>3, <2>2
<1>8. r2 = r0
  <2>1. RunsTo(r0, NodeSteps(g), g, pk, r2)
    BY <1>2, <1>7 DEF InParts
  <2>2. PICK R : /\ R[0] = r0 /\ r2 = R[Len(g.nodes)]
                 /\ \A n \in 1..Len(g.nodes) : R[n] = Write(R[n - 1], NodeSteps(g)[n], g, pk)
    BY <1>6, <2>1 DEF RunsTo
  <2>3. GoesOn(R, g)
    BY <1>3 DEF GoesOn
  <2>4. AlongNodes(R, g, pk)
    BY <2>2 DEF AlongNodes
  <2>5. R[0] = State(m0, t0, a0, c0, e0)
    BY <1>1, <2>2
  <2>6. \E m1 : /\ R[Len(g.nodes)] = State(m1, t0, a0, c0, e0)
                /\ WithNodes(m0, m1, g, Len(g.nodes))
    BY <1>1, <2>3, <2>4, <2>5, NodesAlong
  <2>7. PICK m1 : r2 = State(m1, t0, a0, c0, e0) /\ WithNodes(m0, m1, g, Len(g.nodes))
    BY <2>2, <2>6
  <2>8. m1 = m0
    BY <1>3, <1>6, <2>7, NodesAgain
  <2> QED
    BY <1>1, <2>7, <2>8
<1>9. r3 = r0
  <2> DEFINE x == t0[Lib]
             q == LibRegions(g, pk)
  <2>1. r3 = Write(Write(r0, Step("main", 0), g, pk), Step("lib", 0), g, pk)
    BY <1>2, <1>8, RunTwo DEF InParts
  <2>2. Write(State(m0, t0, a0, c0, e0), Step("main", 0), g, pk) = State(m0, t0, Main(g), c0, e0)
    BY WholeWrites
  <2>3. r3 = Write(State(m0, t0, a0, c0, e0), Step("lib", 0), g, pk)
    BY <1>1, <1>3, <2>1, <2>2
  <2>4. LibBase(t0, g) = x
    BY <1>3 DEF LibBase
  <2>5. WellFormed(x) /\ Merge(x, q) = x
    <3>1. Fits(x, q) /\ Filled(q) = q
      BY <1>3, LibRegionsFilled
    <3> HIDE DEF x, q
    <3> QED
      BY <3>1, FitsStays
  <2>6. /\ ~NeverEnds(g) /\ WellFormed(LibBase(t0, g))
        /\ Merge(LibBase(t0, g), LibRegions(g, pk)) = x
    BY <1>3, <2>4, <2>5
  <2>7. r3 = State(m0, Put(t0, Lib, x), a0, c0, e0)
    BY <2>3, <2>6, LibWrites
  <2>8. Put(t0, Lib, x) = t0
    BY <1>1, <1>3, PutSame DEF AreTexts
  <2> QED
    BY <1>1, <2>7, <2>8
<1>10. r4 = r0
  <2>1. Idle(State(m0, t0, a0, c0, e0), DirSteps(g), g, pk)
    BY <1>1, <1>4, DirsIdle
  <2>2. Idle(r0, DirSteps(g), g, pk) /\ RunsTo(r0, DirSteps(g), g, pk, r4)
    BY <1>1, <1>2, <1>9, <2>1 DEF InParts
  <2> QED
    BY <1>6, <2>2, IdleStays
<1>11. r5 = r0
  <2>1. r5 = Write(r0, Step("cargo", 0), g, pk)
    BY <1>2, <1>10, RunOne DEF InParts
  <2>2. r5 = State(m0, t0, a0, Cargo(g), e0)
    BY <1>1, <2>1, WholeWrites
  <2> QED
    BY <1>1, <1>3, <2>2
<1>12. r6 = State(m0, Later(t0, pk), a0, c0, e0)
  <2>1. RunsTo(State(m0, t0, a0, c0, e0), PackageSteps(pk), g, pk, r6)
    BY <1>1, <1>2, <1>11 DEF InParts
  <2> QED
    BY <1>1, <1>5, <2>1, PackagesIdle
<1>13. State(m0, Later(t0, pk), a0, c0, e0)
         = [disk |-> [d EXCEPT !.texts = Later(@, pk)], status |-> "running"]
  <2> DEFINE t == Later(t0, pk)
  <2>1. [d EXCEPT !.texts = t] = [modules |-> m0, texts |-> t, main |-> a0, cargo |-> c0, errors |-> e0]
    BY DEF IsDisk, m0, a0, c0, e0
  <2>2. [d EXCEPT !.texts = Later(@, pk)] = [d EXCEPT !.texts = t]
    BY DEF t0
  <2> HIDE DEF t
  <2> QED
    BY <2>1, <2>2 DEF State, t
<1> QED
  BY <1>12, <1>13
-----------------------------------------------------------------------------
(* In every session: what a generation that ended well left is settled, and  *)
(* stays so until something is edited.                                       *)
Registered(g) == \A n \in NodesOf(g) : n.t \in Registry
SettledInv ==
    /\ Registered(graph) /\ packages \subseteq Packages
    /\ last = "ok" => Settled(disk, graph, packages)

(* The path of lib.rs is not that of a package.                              *)
LEMMA LibIsNoPackage == Lib \notin Packages
  BY PackagesAssumption DEF Lib

(* A generation is a run of its steps.                                       *)
LEMMA GenerationRuns ==
  ASSUME TextInv
  PROVE  LET steps == Steps(graph, packages)
         IN  /\ RunsTo([disk |-> disk, status |-> "running"], steps, graph, packages, Run(steps))
             /\ Run(steps) = [disk |-> Run(steps).disk, status |-> Run(steps).status]
<1> DEFINE steps == Steps(graph, packages)
<1>1. PICK X : steps \in Seq(X)
  BY StepsAreAList DEF TextInv
<1> HIDE DEF steps
<1>2. Len(steps) \in Nat
  BY <1>1
<1>3. PICK R : IsRun(R, disk, steps, graph, packages) /\ Run(steps) = R[Len(steps)]
  BY <1>2, RunsAlong, RunIsRunOf
<1>4. RunsTo([disk |-> disk, status |-> "running"], steps, graph, packages, Run(steps))
  BY <1>3 DEF IsRun, RunsTo
<1>5. KeepsTexts(disk.texts, Run(steps))
  BY <1>2, RunKeeps DEF TextInv
<1>6. Run(steps) = [disk |-> Run(steps).disk, status |-> Run(steps).status]
  BY <1>5 DEF KeepsTexts
<1> QED
  BY <1>4, <1>6 DEF steps

(* The generation of a session that ends well leaves what is settled, and in *)
(* lib.rs what was merged.                                                   *)
LEMMA GenerationLeaves ==
  ASSUME TextInv, SettledInv, Generate, last' = "ok"
  PROVE  /\ Settled(disk', graph, packages)
         /\ disk'.texts[Lib] = Merge(LibBase(disk.texts, graph), LibRegions(graph, packages))
<1> DEFINE r == Run(Steps(graph, packages))
<1>1. disk' = r.disk /\ last' = IF r.status = "running" THEN "ok" ELSE r.status
  BY DEF Generate
<1>2. RunsTo([disk |-> disk, status |-> "running"], Steps(graph, packages), graph, packages, r)
  BY GenerationRuns
<1> HIDE DEF r
<1>3. Lib \notin packages
  BY LibIsNoPackage DEF SettledInv
<1>4. EndsAs(r.status, graph)
  <2>1. \E X : Steps(graph, packages) \in Seq(X)
    BY StepsAreAList DEF TextInv
  <2>2. Len(Steps(graph, packages)) \in Nat
    BY <2>1
  <2> QED
    BY <2>2, RunEnds DEF TextInv, r
<1>5. r.status = "running"
  BY <1>1, <1>4 DEF EndsAs
<1>6. IsDisk(disk) /\ IsGraph(graph) /\ IsFiniteSet(packages)
  BY DEF TextInv
<1> QED
  BY <1>1, <1>2, <1>3, <1>5, <1>6, GenerationSettles

(* So it keeps the invariant. *)
LEMMA GenerateSettles ==
  ASSUME TextInv, SettledInv, Generate
  PROVE  SettledInv'
<1>1. graph' = graph /\ packages' = packages /\ market' = market
  BY DEF Generate
<1>2. last' = "ok" => Settled(disk', graph, packages)
  BY GenerationLeaves
<1>3. Settled(disk', graph, packages) => Settled(disk, graph, packages)'
  BY <1>1 DEF Settled, Cargo, MarketCrates
<1> QED
  BY <1>1, <1>2, <1>3 DEF SettledInv, Registered

(* What a generation that ended well has left is settled, in every session. *)
THEOREM GenerationsSettle == Spec => []SettledInv
<1>1. Init => SettledInv
  <2> SUFFICES ASSUME Init PROVE SettledInv
    OBVIOUS
  <2>1. Registered(graph)
    BY GraphsAssumption DEF Init, Registered, Savable, ConfigValid
  <2> QED
    BY <2>1 DEF Init, SettledInv
<1>2. TextInv /\ SettledInv /\ [Next]_vars => SettledInv'
  <2> SUFFICES ASSUME TextInv, SettledInv, [Next]_vars PROVE SettledInv'
    OBVIOUS
  <2>1. CASE AddNode \/ RemoveNode \/ Connect \/ Disconnect
    <3>1. PICK g : Save(g)
      BY <2>1, EditsMakeGraphs DEF TextInv
    <3>2. Registered(graph')
      BY <3>1 DEF Save, Registered, Savable, ConfigValid
    <3> QED
      BY <3>1, <3>2 DEF Save, SettledInv
  <2>2. CASE ChangePackages \/ ChangeMarket
    BY <2>2 DEF ChangePackages, ChangeMarket, SettledInv
  <2>3. CASE HandEdit \/ Crash
    BY <2>3 DEF HandEdit, Crash, SettledInv
  <2>4. CASE Generate
    BY <2>4, GenerateSettles
  <2>5. CASE UNCHANGED vars
    BY <2>5 DEF vars, SettledInv, Settled, Cargo, MarketCrates
  <2> QED
    BY <2>1, <2>2, <2>3, <2>4, <2>5 DEF Next
<1> QED
  BY <1>1, <1>2, SessionsKeepTexts, PTL DEF Spec

(* A second generation changes nothing, whatever the session was, and        *)
(* whatever crashes and edits by hand came before the first, but for the     *)
(* blank line in the mod.rs of a package that was started without children.  *)
THEOREM RegenerationChangesNothing == Spec => RegenerationIsIdle
<1>1. TextInv /\ SettledInv /\ [Next]_vars =>
        [Generate /\ last = "ok" => disk' = [disk EXCEPT !.texts = Spaced(@)]]_vars
  <2> SUFFICES ASSUME TextInv, SettledInv, Generate, last = "ok"
               PROVE  disk' = [disk EXCEPT !.texts = Spaced(@)]
    OBVIOUS
  <2> DEFINE r == Run(Steps(graph, packages))
  <2>1. disk' = r.disk
    BY DEF Generate
  <2>2. RunsTo([disk |-> disk, status |-> "running"], Steps(graph, packages), graph, packages, r)
    BY GenerationRuns
  <2> HIDE DEF r
  <2>3. Settled(disk, graph, packages)
    BY DEF SettledInv
  <2>4. r = [disk |-> [disk EXCEPT !.texts = Later(@, packages)], status |-> "running"]
    BY <2>2, <2>3, SettledIsIdle DEF TextInv
  <2>5. \A t : Later(t, packages) = Spaced(t)
    <3> SUFFICES ASSUME NEW t PROVE Later(t, packages) = Spaced(t)
      OBVIOUS
    <3>1. \A p \in DOMAIN t :
            (IF p \in packages THEN Again(t[p]) ELSE t[p])
              = IF p \in packages /\ t[p] = Stub(<<>>) THEN Stub(<<Blank>>) ELSE t[p]
      BY DEF Again, Childless
    <3> QED
      BY <3>1 DEF Later, Spaced
  <2>6. [disk EXCEPT !.texts = Later(@, packages)] = [disk EXCEPT !.texts = Spaced(@)]
    BY <2>5
  <2> QED
    BY <2>1, <2>4, <2>6
<1> QED
  BY <1>1, SessionsKeepTexts, GenerationsSettle, PTL DEF Spec, RegenerationIsIdle
-----------------------------------------------------------------------------
(* The routes stay where they are: a merge keeps the order of what it keeps. *)

(* What is out is only added to. *)
StartsAs(t, s) == Len(s) <= Len(t) /\ \A i \in 1..Len(s) : t[i] = s[i]

(* The next one of t, after s, is the line. *)
GoesOnWith(t, s, line) == Len(s) + 1 <= Len(t) /\ t[Len(s) + 1] = line

(* A line of the user, outside the regions, or the begin of a region that is *)
(* still generated. *)
Stays(line, o, new) ==
    \/ line[1] = "text" /\ o = Outside
    \/ line[1] = "begin" /\ line[2] \in DOMAIN new

(* What starts as what starts as s does so too.                              *)
LEMMA StartsOn ==
  ASSUME NEW L, NEW s \in Seq(L), NEW t \in Seq(L), NEW u \in Seq(L), StartsAs(t, s), StartsAs(u, t)
  PROVE  StartsAs(u, s)
  BY DEF StartsAs

(* One line of a merge adds to what is out, and a line that stays, itself.   *)
LEMMA MergesAdd ==
  ASSUME NEW L, NEW line \in L, NEW new, Bodies(new, L), NEW o, NEW s \in Seq(L), NEW t,
         Merges(line, o, new, s, t)
  PROVE  StartsAs(t, s) /\ (Stays(line, o, new) => GoesOnWith(t, s, line))
<1>1. /\ Append(s, line) \in Seq(L) /\ Len(Append(s, line)) = Len(s) + 1 /\ Len(s) \in Nat
      /\ Append(s, line)[Len(s) + 1] = line /\ \A i \in 1..Len(s) : Append(s, line)[i] = s[i]
  OBVIOUS
<1> DEFINE a == Append(s, line)
<1>2. StartsAs(a, s) /\ GoesOnWith(a, s, line)
  BY <1>1 DEF StartsAs, GoesOnWith
<1>3. CASE line[1] = "begin" /\ line[2] \in DOMAIN new
  <2> DEFINE b == new[line[2]]
  <2>1. t = a \o b
    BY <1>3 DEF Merges, IsMarker
  <2>2. b \in Seq(L) /\ a \in Seq(L)
    BY <1>1, <1>3 DEF Bodies
  <2>3. Len(a) = Len(s) + 1 /\ a[Len(s) + 1] = line /\ \A i \in 1..Len(s) : a[i] = s[i]
    BY <1>1
  <2> HIDE DEF a, b
  <2>4. Len(t) = Len(a) + Len(b) /\ Len(b) \in Nat /\ \A i \in 1..Len(a) : t[i] = a[i]
    BY <2>1, <2>2
  <2> QED
    BY <1>1, <2>3, <2>4 DEF StartsAs, GoesOnWith
<1>4. CASE line[1] = "end" /\ line[2] \in DOMAIN new
  <2>1. t = a
    BY <1>4 DEF Merges
  <2> QED
    BY <1>2, <2>1
<1>5. CASE ~IsMarker(line) /\ o = Outside
  <2>1. t = a
    BY <1>5 DEF Merges, IsMarker
  <2> QED
    BY <1>2, <2>1
<1>6. CASE \/ IsMarker(line) /\ line[2] \notin DOMAIN new
           \/ ~IsMarker(line) /\ o # Outside
  <2>1. t = s
    BY <1>6 DEF Merges, IsMarker
  <2>2. ~Stays(line, o, new)
    BY <1>6 DEF Stays, IsMarker
  <2> QED
    BY <1>1, <2>1, <2>2 DEF StartsAs
<1> QED
  BY <1>3, <1>4, <1>5, <1>6 DEF IsMarker

(* Along the lines of a file that parses, merge and parse agree on what is   *)
(* inside.                                                                   *)
LEMMA MergesAlong ==
  ASSUME NEW L, IsLines(L), NEW file \in Seq(L), NEW new, Bodies(new, L),
         NEW open, NEW seen, Good(open, seen, file),
         NEW W \in [0..Len(file) -> Merged(L)], IsMerge(W, file, new)
  PROVE  \A n \in 1..Len(file) : Merges(file[n], open[n - 1], new, W[n - 1].out, W[n].out)
<1> DEFINE N == Len(file)
           Same(n) == IsInside(W[n]) <=> open[n] # Outside
           T == {n \in Nat : n <= N => Same(n)}
<1>1. N \in Nat
  OBVIOUS
<1>2. 0 \in T
  <2>1. ~IsInside(W[0]) /\ open[0] = Outside
    BY DEF IsMerge, IsInside, Good
  <2> QED
    BY <2>1
<1>3. ASSUME NEW n \in Nat, n + 1 <= N, Same(n)
      PROVE  Same(n + 1) /\ Merges(file[n + 1], open[n], new, W[n].out, W[n + 1].out)
  <2>1. n \in 0..N /\ n + 1 \in 0..N /\ n + 1 \in 1..N /\ (n + 1) - 1 = n
    BY <1>1, <1>3
  <2>2. file[n + 1] \in L /\ W[n] \in Merged(L) /\ W[n + 1] \in Merged(L)
    BY <2>1
  <2>3. Follows(file[n + 1], open[n], seen[n], open[n + 1], seen[n + 1])
    BY <2>1 DEF Good
  <2>4. W[n + 1] = MergeLine(file[n + 1], W[n], new)
    BY <2>1 DEF IsMerge
  <2> QED
    BY <1>3, <2>2, <2>3, <2>4, MergesLine
<1>4. ASSUME NEW n \in Nat, n \in T PROVE n + 1 \in T
  <2> SUFFICES ASSUME n + 1 <= N PROVE Same(n + 1)
    OBVIOUS
  <2>1. Same(n)
    BY <1>1, <1>4
  <2> HIDE DEF Same, T
  <2> QED
    BY <1>3, <2>1
<1>5. Nat \subseteq T
  <2> HIDE DEF T
  <2> QED
    BY <1>2, <1>4, NatBySets
<1> SUFFICES ASSUME NEW n \in 1..N
             PROVE  Merges(file[n], open[n - 1], new, W[n - 1].out, W[n].out)
  OBVIOUS
<1>6. n - 1 \in Nat /\ (n - 1) + 1 = n /\ n - 1 <= N /\ n <= N
  BY <1>1
<1>7. Same(n - 1)
  BY <1>5, <1>6
<1> DEFINE m == n - 1
<1>8. m \in Nat /\ m + 1 = n /\ m + 1 <= N /\ Same(m)
  BY <1>6, <1>7
<1> HIDE DEF m, Same
<1>9. Merges(file[m + 1], open[m], new, W[m].out, W[m + 1].out)
  BY <1>3, <1>8
<1> QED
  BY <1>8, <1>9 DEF m

(* What is out after n lines, later lines add to.                            *)
LEMMA WalkAdds ==
  ASSUME NEW L, NEW N \in Nat, NEW out \in [0..N -> Seq(L)],
         \A n \in 1..N : StartsAs(out[n], out[n - 1]),
         NEW a \in 0..N, NEW b \in a..N
  PROVE  StartsAs(out[b], out[a])
<1> DEFINE T == {n \in Nat : a + n <= N => StartsAs(out[a + n], out[a])}
<1>1. 0 \in T
  <2>1. out[a] \in Seq(L) /\ a + 0 = a
    OBVIOUS
  <2> QED
    BY <2>1 DEF StartsAs
<1>2. ASSUME NEW n \in Nat, n \in T PROVE n + 1 \in T
  <2> SUFFICES ASSUME a + (n + 1) <= N PROVE StartsAs(out[a + (n + 1)], out[a])
    OBVIOUS
  <2>1. a + (n + 1) \in 1..N /\ (a + (n + 1)) - 1 = a + n /\ a + n \in 0..N
        /\ a + (n + 1) \in 0..N
    OBVIOUS
  <2>2. StartsAs(out[a + n], out[a]) /\ StartsAs(out[a + (n + 1)], out[a + n])
    BY <1>2, <2>1
  <2>3. out[a] \in Seq(L) /\ out[a + n] \in Seq(L) /\ out[a + (n + 1)] \in Seq(L)
    BY <2>1
  <2> QED
    BY <2>2, <2>3, StartsOn
<1>3. Nat \subseteq T
  <2> HIDE DEF T
  <2> QED
    BY <1>1, <1>2, NatBySets
<1>4. b - a \in Nat /\ a + (b - a) = b /\ b <= N
  OBVIOUS
<1> QED
  BY <1>3, <1>4

(* Three lines of a file, in this order. *)
InOrder(t, x, y, z) ==
    \E i, j, k \in DOMAIN t : i < j /\ j < k /\ t[i] = x /\ t[j] = y /\ t[k] = z

(* What a walk adds after each of three lines comes after it. *)
LEMMA InThatOrder ==
  ASSUME NEW L, NEW a1 \in Seq(L), NEW a2 \in Seq(L), NEW b1 \in Seq(L), NEW b2 \in Seq(L),
         NEW c1 \in Seq(L), NEW c2 \in Seq(L), NEW t \in Seq(L), NEW x, NEW y, NEW z,
         GoesOnWith(a2, a1, x), GoesOnWith(b2, b1, y), GoesOnWith(c2, c1, z),
         StartsAs(b1, a2), StartsAs(c1, b2), StartsAs(t, a2), StartsAs(t, b2), StartsAs(t, c2)
  PROVE  InOrder(t, x, y, z)
<1> DEFINE i == Len(a1) + 1
           j == Len(b1) + 1
           k == Len(c1) + 1
<1>1. /\ Len(a1) \in Nat /\ Len(a2) \in Nat /\ Len(b1) \in Nat /\ Len(b2) \in Nat
      /\ Len(c1) \in Nat /\ Len(c2) \in Nat /\ Len(t) \in Nat /\ DOMAIN t = 1..Len(t)
  OBVIOUS
<1>2. i <= Len(a2) /\ j <= Len(b2) /\ k <= Len(c2) /\ a2[i] = x /\ b2[j] = y /\ c2[k] = z
  BY DEF GoesOnWith
<1>3. Len(a2) <= Len(b1) /\ Len(b2) <= Len(c1)
  BY DEF StartsAs
<1>4. /\ Len(a2) <= Len(t) /\ \A n \in 1..Len(a2) : t[n] = a2[n]
      /\ Len(b2) <= Len(t) /\ \A n \in 1..Len(b2) : t[n] = b2[n]
      /\ Len(c2) <= Len(t) /\ \A n \in 1..Len(c2) : t[n] = c2[n]
  BY DEF StartsAs
<1>5. i \in 1..Len(a2) /\ j \in 1..Len(b2) /\ k \in 1..Len(c2) /\ i < j /\ j < k
  BY <1>1, <1>2, <1>3
<1>6. i \in DOMAIN t /\ j \in DOMAIN t /\ k \in DOMAIN t
  BY <1>1, <1>4, <1>5
<1> HIDE DEF i, j, k
<1>7. t[i] = x /\ t[j] = y /\ t[k] = z
  BY <1>2, <1>4, <1>5
<1> QED
  BY <1>5, <1>6, <1>7 DEF InOrder

(* There is a function of that name with the region in it. *)
Around(text, fn, id) ==
    \E i, j, k \in DOMAIN text :
      i < j /\ j < k /\ text[i] = Text(fn) /\ text[j] = Begin(id) /\ text[k] = Text("end fn")

(* The walk of a merge leaves it so, if the region is still generated.       *)
LEMMA WalkKeepsAround ==
  ASSUME NEW L, IsLines(L), NEW file \in Seq(L), NEW new, Bodies(new, L),
         WellFormed(file), Clean(file), NEW fn, NEW id \in DOMAIN new, Around(file, fn, id)
  PROVE  MergeWalk(file, new) \in Seq(L) /\ Around(MergeWalk(file, new), fn, id)
<1> DEFINE N == Len(file)
<1>1. PICK open \in [0..N -> Ids(L)], seen \in [0..N -> SUBSET Ids(L)] : Good(open, seen, file)
  BY GoodParse
<1>2. PICK W \in [0..N -> Merged(L)] :
        IsMerge(W, file, new) /\ MergeWalk(file, new) = W[N].out
  BY MergeWalks
<1>3. \A n \in 1..N : Merges(file[n], open[n - 1], new, W[n - 1].out, W[n].out)
  BY <1>1, <1>2, MergesAlong
<1> DEFINE out == [n \in 0..N |-> W[n].out]
<1>4. N \in Nat /\ out \in [0..N -> Seq(L)]
  BY DEF Merged
<1>5. \A n \in 1..N : /\ StartsAs(out[n], out[n - 1])
                      /\ Stays(file[n], open[n - 1], new) => GoesOnWith(out[n], out[n - 1], file[n])
  <2> SUFFICES ASSUME NEW n \in 1..N
               PROVE  /\ StartsAs(out[n], out[n - 1])
                      /\ Stays(file[n], open[n - 1], new) => GoesOnWith(out[n], out[n - 1], file[n])
    OBVIOUS
  <2>1. n \in 0..N /\ n - 1 \in 0..N /\ file[n] \in L
    BY <1>4
  <2>2. out[n] = W[n].out /\ out[n - 1] = W[n - 1].out /\ out[n - 1] \in Seq(L)
    BY <1>4, <2>1
  <2> HIDE DEF out
  <2>3. Merges(file[n], open[n - 1], new, out[n - 1], out[n])
    BY <1>3, <2>2
  <2> QED
    BY <2>1, <2>2, <2>3, MergesAdd
<1>6. PICK i, j, k \in DOMAIN file :
        i < j /\ j < k /\ file[i] = Text(fn) /\ file[j] = Begin(id) /\ file[k] = Text("end fn")
  BY DEF Around
<1>7. i \in 1..N /\ j \in 1..N /\ k \in 1..N
  OBVIOUS
<1>8. /\ Stays(file[i], open[i - 1], new) /\ Stays(file[j], open[j - 1], new)
      /\ Stays(file[k], open[k - 1], new)
  <2>1. /\ Text(fn)[1] = "text" /\ Text("end fn")[1] = "text"
        /\ Begin(id)[1] = "begin" /\ Begin(id)[2] = id
    BY DEF Text, Begin
  <2>4. file[i][1] = "text" /\ file[k][1] = "text" /\ file[j][1] = "begin" /\ file[j][2] = id
    BY <1>6, <2>1, Zenon
  <2>2. open[i - 1] = Outside /\ open[k - 1] = Outside
    BY <1>1, <1>7, <2>4, TextIsOutside
  <2> QED
    BY <2>4, <2>2 DEF Stays
<1>9. /\ i \in 0..N /\ j \in 0..N /\ k \in 0..N /\ i - 1 \in 0..N /\ j - 1 \in i..N
      /\ j - 1 \in 0..N /\ k - 1 \in j..N /\ k - 1 \in 0..N /\ N \in i..N /\ N \in j..N /\ N \in k..N
      /\ N \in 0..N
  <2>1. i < j /\ j < k
    BY <1>6
  <2> HIDE DEF N, out
  <2> QED
    BY <1>4, <1>7, <2>1
<1>10. /\ StartsAs(out[j - 1], out[i]) /\ StartsAs(out[k - 1], out[j])
       /\ StartsAs(out[N], out[i]) /\ StartsAs(out[N], out[j]) /\ StartsAs(out[N], out[k])
  <2> HIDE DEF out, N
  <2>1. \A n \in 1..N : StartsAs(out[n], out[n - 1])
    BY <1>5
  <2> QED
    BY <1>4, <1>9, <2>1, WalkAdds
<1>11. /\ GoesOnWith(out[i], out[i - 1], file[i]) /\ GoesOnWith(out[j], out[j - 1], file[j])
       /\ GoesOnWith(out[k], out[k - 1], file[k])
  BY <1>5, <1>7, <1>8
<1>12. /\ out[i - 1] \in Seq(L) /\ out[i] \in Seq(L) /\ out[j - 1] \in Seq(L) /\ out[j] \in Seq(L)
       /\ out[k - 1] \in Seq(L) /\ out[k] \in Seq(L) /\ out[N] \in Seq(L)
  <2> HIDE DEF out, N
  <2> QED
    BY <1>4, <1>9
<1>13. out[N] = MergeWalk(file, new)
  BY <1>2, <1>9
<1> HIDE DEF out, N
<1>14. InOrder(out[N], file[i], file[j], file[k])
  <2> DEFINE a1 == out[i - 1]
             a2 == out[i]
             b1 == out[j - 1]
             b2 == out[j]
             c1 == out[k - 1]
             c2 == out[k]
             t  == out[N]
             x  == file[i]
             y  == file[j]
             z  == file[k]
  <2>1. GoesOnWith(a2, a1, x) /\ GoesOnWith(b2, b1, y) /\ GoesOnWith(c2, c1, z)
    BY <1>11
  <2>2. StartsAs(b1, a2) /\ StartsAs(c1, b2) /\ StartsAs(t, a2) /\ StartsAs(t, b2) /\ StartsAs(t, c2)
    BY <1>10
  <2>3. /\ a1 \in Seq(L) /\ a2 \in Seq(L) /\ b1 \in Seq(L) /\ b2 \in Seq(L)
        /\ c1 \in Seq(L) /\ c2 \in Seq(L) /\ t \in Seq(L)
    BY <1>12
  <2> HIDE DEF a1, a2, b1, b2, c1, c2, t, x, y, z
  <2>4. InOrder(t, x, y, z)
    BY <2>1, <2>2, <2>3, InThatOrder
  <2> QED
    BY <2>4 DEF t, x, y, z
<1>15. Around(out[N], fn, id)
  BY <1>6, <1>14 DEF Around, InOrder
<1> QED
  BY <1>12, <1>13, <1>15

(* So does what is added.                                                    *)
LEMMA AddedKeepsAround ==
  ASSUME NEW L, NEW out \in Seq(L), NEW new, Bodies(new, L), NEW file, NEW id2,
         Begin(id2) \in L, End(id2) \in L, NEW fn, NEW id, Around(out, fn, id)
  PROVE  Added(file, new, id2, out) \in Seq(L) /\ Around(Added(file, new, id2, out), fn, id)
<1>1. CASE ~(id2 \in DOMAIN new \ RegionIds(file))
  BY <1>1 DEF Added
<1>2. CASE id2 \in DOMAIN new \ RegionIds(file)
  <2> DEFINE b == new[id2]
             x == <<Begin(id2)>>
             y == <<End(id2)>>
             all == out \o x \o b \o y
  <2>1. b \in Seq(L) /\ x \in Seq(L) /\ y \in Seq(L)
    BY <1>2 DEF Bodies
  <2>2. Added(file, new, id2, out) = all
    BY <1>2 DEF Added
  <2> HIDE DEF x, y, b
  <2>3. all \in Seq(L) /\ Len(out) <= Len(all) /\ \A n \in 1..Len(out) : all[n] = out[n]
    BY <2>1
  <2> HIDE DEF all
  <2>4. DOMAIN out \subseteq DOMAIN all /\ \A n \in DOMAIN out : all[n] = out[n]
    BY <2>3
  <2>5. PICK i, j, k \in DOMAIN out :
          i < j /\ j < k /\ out[i] = Text(fn) /\ out[j] = Begin(id) /\ out[k] = Text("end fn")
    BY DEF Around
  <2>6. Around(all, fn, id)
    BY <2>4, <2>5 DEF Around
  <2> QED
    BY <2>2, <2>3, <2>6
<1> QED
  BY <1>1, <1>2

(* A merge leaves the region of a function that has it in there,             *)
LEMMA FilledKeepsAround ==
  ASSUME NEW file, IsText(file), WellFormed(file),
         NEW new, \A id \in DOMAIN new : Generated(new[id]),
         NEW fn, NEW id \in DOMAIN new, Around(file, fn, id)
  PROVE  Around(MergeFilled(file, new), fn, id)
<1>1. PICK K : IsLines(K) /\ file \in Seq(K) /\ Clean(file)
  BY DEF IsText
<1>2. PICK L : /\ IsLines(L) /\ K \subseteq L /\ Bodies(new, L) /\ PlainBodies(new)
               /\ \A x \in MergedIds : Begin(x) \in L /\ End(x) \in L
  BY <1>1, MergedLines
<1>3. file \in Seq(L)
  BY <1>1, <1>2
<1>4. /\ Begin("mods") \in L /\ End("mods") \in L
      /\ Begin("module_decls") \in L /\ End("module_decls") \in L
      /\ Begin("routes") \in L /\ End("routes") \in L
  BY <1>2 DEF MergedIds
<1> DEFINE m0 == MergeWalk(file, new)
           m1 == Added(file, new, "mods", m0)
           m2 == Added(file, new, "module_decls", m1)
           m3 == Added(file, new, "routes", m2)
<1>5. m0 \in Seq(L) /\ Around(m0, fn, id)
  BY <1>1, <1>2, <1>3, WalkKeepsAround
<1> HIDE DEF m0
<1>6. m1 \in Seq(L) /\ Around(m1, fn, id)
  BY <1>2, <1>4, <1>5, AddedKeepsAround
<1> HIDE DEF m1
<1>7. m2 \in Seq(L) /\ Around(m2, fn, id)
  BY <1>2, <1>4, <1>6, AddedKeepsAround
<1> HIDE DEF m2
<1>8. Around(m3, fn, id)
  BY <1>2, <1>4, <1>7, AddedKeepsAround
<1> QED
  BY <1>8 DEF MergeFilled, m0, m1, m2

(* ... with blank lines or without.                                          *)
LEMMA MergeKeepsAround ==
  ASSUME NEW file, IsText(file), WellFormed(file),
         NEW new, \A id \in DOMAIN new : Generated(new[id]),
         NEW fn, NEW id \in DOMAIN new, Around(file, fn, id)
  PROVE  Around(Merge(file, new), fn, id)
<1> DEFINE full == Filled(new)
<1>1. (\A x \in DOMAIN full : Generated(full[x])) /\ id \in DOMAIN full
  BY FilledGenerated
<1> HIDE DEF full
<1>2. Around(MergeFilled(file, full), fn, id)
  BY <1>1, FilledKeepsAround
<1> QED
  BY <1>2 DEF Merge, full

(* What is merged into lib.rs has the routes, when there are any. *)
LEMMA RoutesAreMerged ==
  ASSUME NEW g, NEW pk, Routes(g) # <<>>
  PROVE  "routes" \in DOMAIN LibRegions(g, pk) /\ LibRegions(g, pk)["routes"] = Routes(g)
  BY DEF LibRegions

(* The routes that are in the function main.rs calls stay there: a           *)
(* generation with routes of the same framework replaces them where they     *)
(* are, whatever the user wrote around them.                                 *)
THEOREM MountedRoutesStay == Spec => RoutesStayMounted
<1>1. TextInv /\ SettledInv /\ [Next]_vars =>
        [Generate /\ last' = "ok" /\ Lib \in DOMAIN disk.texts /\ WellFormed(disk.texts[Lib])
           /\ Mounted(disk.texts[Lib], Framework(graph), Body(disk.texts[Lib], "routes"))
           /\ Routes(graph) # <<>>
         => Mounted(disk'.texts[Lib], Framework(graph), Routes(graph))]_vars
  <2> DEFINE fw == Framework(graph)
             lib == disk.texts[Lib]
             new == LibRegions(graph, packages)
  <2> SUFFICES ASSUME TextInv, SettledInv, Generate, last' = "ok", Lib \in DOMAIN disk.texts,
                      WellFormed(lib), Mounted(lib, fw, Body(lib, "routes")), Routes(graph) # <<>>
               PROVE  Mounted(disk'.texts[Lib], fw, Routes(graph))
    OBVIOUS
  <2>1. Settled(disk', graph, packages) /\ disk'.texts[Lib] = Merge(lib, new)
    BY GenerationLeaves DEF LibBase
  <2>2. "routes" \in DOMAIN new /\ new["routes"] = Routes(graph)
    BY RoutesAreMerged
  <2>3. IsText(lib) /\ \A id \in DOMAIN new : Generated(new[id])
    BY RegionsGenerated DEF TextInv, IsDisk
  <2>4. Around(lib, RouterFn(fw), "routes")
    BY DEF Mounted, Around
  <2>5. Fits(disk'.texts[Lib], new)
    BY <2>1 DEF Settled
  <2> HIDE DEF fw, lib, new
  <2>6. Around(Merge(lib, new), RouterFn(fw), "routes")
    BY <2>2, <2>3, <2>4, MergeKeepsAround
  <2>7. Body(Merge(lib, new), "routes") = Routes(graph)
    BY <2>1, <2>2, <2>5, FitsAll
  <2> QED
    BY <2>1, <2>6, <2>7 DEF Mounted, Around
<1> QED
  BY <1>1, SessionsKeepTexts, GenerationsSettle, PTL DEF Spec, RoutesStayMounted
-----------------------------------------------------------------------------
(* What the settled files say: that they are the output of the graph.        *)

(* The last element of Those is the last one that is in the set.             *)
LEMMA ThoseLast ==
  ASSUME NEW L, NEW s \in Seq(L), NEW S, NEW j \in 1..Len(s), s[j] \in S,
         \A k \in 1..Len(s) : s[k] \in S => k <= j
  PROVE  Those(s, S)[Len(Those(s, S))] = s[j]
<1>1. PICK F \in [0..Len(s) -> Seq(L)] : IsThose(F, s, S) /\ Those(s, S) = F[Len(s)]
  BY ThoseWalk
<1> DEFINE T == {n \in Nat : j <= n /\ n <= Len(s) => F[n] = F[j]}
<1>2. 0 \in T
  OBVIOUS
<1>3. ASSUME NEW n \in Nat, n \in T PROVE n + 1 \in T
  <2> SUFFICES ASSUME j <= n + 1, n + 1 <= Len(s) PROVE F[n + 1] = F[j]
    OBVIOUS
  <2>1. CASE n + 1 = j
    BY <2>1
  <2>2. CASE j <= n
    <3>1. n + 1 \in 1..Len(s) /\ (n + 1) - 1 = n /\ ~(n + 1 <= j)
      BY <2>2
    <3>2. s[n + 1] \notin S
      BY <3>1
    <3> QED
      BY <1>1, <1>3, <2>2, <3>1, <3>2 DEF IsThose
  <2> QED
    BY <2>1, <2>2
<1>4. Nat \subseteq T
  <2> HIDE DEF T
  <2> QED
    BY <1>2, <1>3, NatBySets
<1>5. Those(s, S) = F[j]
  BY <1>1, <1>4
<1>6. F[j] = Append(F[j - 1], s[j]) /\ F[j - 1] \in Seq(L)
  <2>1. F[j] = Append(F[j - 1], s[j])
    BY <1>1 DEF IsThose
  <2>2. j - 1 \in 0..Len(s)
    OBVIOUS
  <2> QED
    BY <1>1, <2>1, <2>2
<1> DEFINE a == F[j - 1]
<1>7. a \in Seq(L) /\ s[j] \in L
  BY <1>6
<1> HIDE DEF a
<1>8. Append(a, s[j])[Len(Append(a, s[j]))] = s[j]
  BY <1>7
<1> QED
  BY <1>5, <1>6, <1>8 DEF a

(* Its elements are those of s that are in the set.                          *)
LEMMA ThoseRange ==
  ASSUME NEW L, NEW s \in Seq(L), NEW S
  PROVE  Range(Those(s, S)) = Range(s) \cap S
<1> DEFINE t == Those(s, S)
<1>1. t \in Seq(L)
  BY ThoseMembers
<1>2. \A i \in 1..Len(t) : t[i] \in S /\ \E n \in 1..Len(s) : s[n] = t[i]
  BY ThoseMembers
<1>3. \A n \in 1..Len(s) : s[n] \in S => \E i \in 1..Len(t) : t[i] = s[n]
  BY ThoseMembers
<1> HIDE DEF t
<1>4. DOMAIN t = 1..Len(t) /\ DOMAIN s = 1..Len(s)
  BY <1>1
<1>5. Range(t) \subseteq Range(s) \cap S
  BY <1>2, <1>4 DEF Range
<1>6. Range(s) \cap S \subseteq Range(t)
  BY <1>3, <1>4 DEF Range
<1> QED
  BY <1>5, <1>6 DEF t

(* The elements of two lists.                                                *)
LEMMA ConcatRange ==
  ASSUME NEW X, NEW s \in Seq(X), NEW t \in Seq(X)
  PROVE  Range(s \o t) = Range(s) \cup Range(t)
<1> DEFINE st == s \o t
<1>1. /\ DOMAIN st = 1..(Len(s) + Len(t)) /\ DOMAIN s = 1..Len(s) /\ DOMAIN t = 1..Len(t)
      /\ Len(s) \in Nat /\ Len(t) \in Nat
      /\ \A i \in 1..Len(s) : st[i] = s[i]
      /\ \A i \in 1..Len(t) : st[Len(s) + i] = t[i]
  OBVIOUS
<1> HIDE DEF st
<1>2. Range(s) \subseteq Range(st)
  <2>1. \A i \in DOMAIN s : i \in DOMAIN st /\ st[i] = s[i]
    BY <1>1
  <2> QED
    BY <2>1 DEF Range
<1>3. Range(t) \subseteq Range(st)
  <2>1. \A i \in DOMAIN t : Len(s) + i \in DOMAIN st /\ st[Len(s) + i] = t[i]
    BY <1>1
  <2> QED
    BY <2>1 DEF Range
<1>4. Range(st) \subseteq Range(s) \cup Range(t)
  <2>1. ASSUME NEW i \in DOMAIN st PROVE st[i] \in Range(s) \cup Range(t)
    <3>1. CASE i <= Len(s)
      <4>1. i \in DOMAIN s /\ st[i] = s[i]
        BY <1>1, <3>1
      <4> QED
        BY <4>1 DEF Range
    <3>2. CASE ~(i <= Len(s))
      <4> DEFINE k == i - Len(s)
      <4>1. k \in DOMAIN t /\ Len(s) + k = i
        BY <1>1, <3>2
      <4> HIDE DEF k
      <4>2. st[i] = t[k]
        BY <1>1, <4>1
      <4> QED
        BY <4>1, <4>2 DEF Range
    <3> QED
      BY <3>1, <3>2
  <2> QED
    BY <2>1 DEF Range
<1> QED
  BY <1>2, <1>3, <1>4 DEF st

(* The declarations of a list of names.                                      *)
LEMMA DeclaredFolders ==
  ASSUME NEW names, NEW X, NEW sorted \in Seq(X)
  PROVE  Range(Declare(names, sorted)) = {Folder(x) : x \in Range(sorted) \cap names}
<1> DEFINE here == Those(sorted, names)
           D == Declare(names, sorted)
<1>1. Range(here) = Range(sorted) \cap names
  BY ThoseRange
<1>2. D = [i \in DOMAIN here |-> Folder(here[i])]
  BY DEF Declare
<1> HIDE DEF here, D
<1>3. DOMAIN D = DOMAIN here /\ \A i \in DOMAIN here : D[i] = Folder(here[i])
  BY <1>2
<1>4. Range(D) = {Folder(x) : x \in Range(here)}
  BY <1>3 DEF Range
<1> QED
  BY <1>1, <1>4 DEF D

(* The packages below the root, by their slugs.                              *)
LEMMA ChildrenHaveSlugs ==
  ASSUME NEW pk, pk \subseteq Packages
  PROVE  Children(pk, Lib) \subseteq Range(SortedSlugs)
<1> SUFFICES ASSUME NEW q \in pk, Len(q) = Len(Lib) + 1 PROVE q[Len(q)] \in Range(SortedSlugs)
  BY DEF Children
<1>1. q \in Seq(Range(SortedSlugs))
  BY PackagesAssumption
<1>2. Len(q) \in 1..Len(q)
  BY <1>1 DEF Lib
<1> QED
  BY <1>1, <1>2

(* The directories of a graph.                                               *)
LEMMA DirsRange ==
  ASSUME NEW g
  PROVE  Range(Dirs(g)) = Range(SortedDirs) \cap {n.t.dir : n \in NodesOf(g)}
  BY SortedSeqs, ThoseRange DEF Dirs

(* The declarations are a list.                                              *)
LEMMA DeclareIsASeq ==
  ASSUME NEW names, NEW X, NEW sorted \in Seq(X)
  PROVE  Declare(names, sorted) \in Seq({Folder(x) : x \in X})
<1> DEFINE here == Those(sorted, names)
<1>1. here \in Seq(X)
  BY ThoseMembers
<1> HIDE DEF here
<1>2. [i \in DOMAIN here |-> Folder(here[i])] \in Seq({Folder(x) : x \in X})
  BY <1>1
<1> QED
  BY <1>2 DEF Declare, here

(* Each of them is declared, and the two modules every project has.          *)
LEMMA LibDeclares ==
  ASSUME NEW g, NEW pk, pk \subseteq Packages
  PROVE  Range(LibDecls(g, pk)) =
           {Folder(x) : x \in Range(Given) \cup Range(Dirs(g)) \cup Children(pk, Lib)}
<1> DEFINE A == Range(Given)
           B == Range(Dirs(g))
           C == Children(pk, Lib)
           a == GivenDecls
           b == Declare(B, SortedDirs)
           c == Declare(C \ (B \cup A), SortedSlugs)
           Z == {Folder(x) : x \in SortedNames \cup A}
<1>1. Range(a) = {Folder(x) : x \in A} /\ a \in Seq(Z)
  <2>1. DOMAIN a = DOMAIN Given /\ \A i \in DOMAIN Given : a[i] = Folder(Given[i])
    BY DEF GivenDecls
  <2>2. a \in Seq({Folder("errors"), Folder("debug")})
    BY GivenAre
  <2>3. {Folder("errors"), Folder("debug")} \subseteq Z
    BY GivenAre
  <2> HIDE DEF a, Z
  <2>4. Range(a) = {Folder(x) : x \in A}
    BY <2>1 DEF Range
  <2> QED
    BY <2>2, <2>3, <2>4
<1>2. Range(b) = {Folder(x) : x \in B}
  <2>1. B \subseteq Range(SortedDirs)
    BY DirsRange
  <2> HIDE DEF B
  <2>2. Range(SortedDirs) \cap B = B
    BY <2>1
  <2> QED
    BY <2>2, DeclaredFolders, SortedSeqs
<1>3. Range(c) = {Folder(x) : x \in C \ (B \cup A)}
  <2>1. C \subseteq Range(SortedSlugs)
    BY ChildrenHaveSlugs
  <2> HIDE DEF A, B, C
  <2>2. Range(SortedSlugs) \cap (C \ (B \cup A)) = C \ (B \cup A)
    BY <2>1
  <2> QED
    BY <2>2, DeclaredFolders, SortedSeqs
<1>4. b \in Seq(Z) /\ c \in Seq(Z)
  <2>1. {Folder(x) : x \in SortedNames} \subseteq Z
    OBVIOUS
  <2>2. b \in Seq({Folder(x) : x \in SortedNames}) /\ c \in Seq({Folder(x) : x \in SortedNames})
    BY DeclareIsASeq, SortedSeqs
  <2> HIDE DEF b, c, Z
  <2> QED
    BY <2>1, <2>2
<1>5. LibDecls(g, pk) = (a \o b) \o c
  BY DEF LibDecls, GivenDecls
<1> HIDE DEF a, b, c, Z
<1>6. Range((a \o b) \o c) = (Range(a) \cup Range(b)) \cup Range(c)
  <2>1. a \o b \in Seq(Z)
    BY <1>1, <1>4
  <2>2. Range(a \o b) = Range(a) \cup Range(b)
    BY <1>1, <1>4, ConcatRange
  <2> DEFINE ab == a \o b
  <2> HIDE DEF ab
  <2>3. Range(ab \o c) = Range(ab) \cup Range(c)
    BY <1>4, <2>1, ConcatRange DEF ab
  <2> QED
    BY <2>2, <2>3 DEF ab
<1> HIDE DEF A, B, C
<1>7. {Folder(x) : x \in A} \cup {Folder(x) : x \in B} \cup {Folder(x) : x \in C \ (B \cup A)}
        = {Folder(x) : x \in A \cup B \cup C}
  OBVIOUS
<1>8. Range(LibDecls(g, pk)) = {Folder(x) : x \in A \cup B \cup C}
  BY <1>1, <1>2, <1>3, <1>5, <1>6, <1>7
<1> QED
  BY <1>8 DEF A, B, C

-----------------------------------------------------------------------------
(* What a template emits goes to a directory that main.rs and lib.rs know.   *)
Among(d) == d = "" \/ d \in Range(SortedDirs)

(* Each of the directories is one.                                           *)
LEMMA AmongDirs ==
    /\ Among("") /\ Among("consumers") /\ Among("dto") /\ Among("functions") /\ Among("grpc")
    /\ Among("handlers") /\ Among("integrations") /\ Among("loggers") /\ Among("marketplace")
    /\ Among("middlewares") /\ Among("parsers") /\ Among("runtime") /\ Among("schedulers")
    /\ Among("services") /\ Among("src/functions") /\ Among("streams") /\ Among("types")
<1> DEFINE s == SortedDirs
<1>1. /\ s[1] = "consumers" /\ s[2] = "dto" /\ s[3] = "functions" /\ s[4] = "grpc"
      /\ s[5] = "handlers" /\ s[6] = "integrations" /\ s[7] = "loggers" /\ s[8] = "marketplace"
      /\ s[9] = "middlewares" /\ s[10] = "parsers" /\ s[11] = "runtime" /\ s[12] = "schedulers"
      /\ s[13] = "services" /\ s[14] = "src/functions" /\ s[15] = "streams" /\ s[16] = "types"
      /\ DOMAIN s = 1..16
  BY DEF SortedDirs
<1> HIDE DEF s
<1>2. \A i \in 1..16 : s[i] \in Range(s)
  BY <1>1 DEF Range
<1> QED
  BY <1>1, <1>2 DEF Among, s

(* The templates of templates/builtins/core.rs.                              *)
LEMMA CoreDirs == \A T \in CoreCatalogue : Among(T.dir)
<1>1. Among(EntryPoint.dir) /\ Among(HttpRoute.dir) /\ Among(HttpMiddleware.dir)
  BY AmongDirs DEF EntryPoint, HttpRoute, HttpMiddleware, Template
<1>2. Among(HttpHandler.dir) /\ Among(CoreService.dir) /\ Among(CoreDto.dir)
  BY AmongDirs DEF HttpHandler, CoreService, CoreDto, Template
<1>3. Among(ObservabilityLogger.dir) /\ Among(ParserJson.dir) /\ Among(ParserXml.dir)
  BY AmongDirs DEF ObservabilityLogger, ParserJson, ParserXml, Template
<1>4. Among(ParserProtobuf.dir) /\ Among(IntegrationConsumerPlaceholder.dir) /\
     Among(IntegrationSchedulerPlaceholder.dir)
  BY AmongDirs DEF ParserProtobuf, IntegrationConsumerPlaceholder,
         IntegrationSchedulerPlaceholder, Template
<1>5. QED
  BY <1>1, <1>2, <1>3, <1>4 DEF CoreCatalogue

(* The consumers and the connectors.                                         *)
LEMMA ConnectorDirs == \A T \in ConnectorCatalogue : Among(T.dir)
<1>1. Among(KafkaConsumer.dir) /\ Among(Scheduler.dir) /\ Among(FileTail.dir)
  BY AmongDirs DEF KafkaConsumer, Scheduler, FileTail, Ingest, Template
<1>2. Among(KafkaProducer.dir) /\ Among(Redis.dir) /\ Among(SqlConnector.dir)
  BY AmongDirs DEF KafkaProducer, Redis, SqlConnector, Connector, Template
<1>3. Among(HttpClient.dir) /\ Among(DbWriter.dir)
  BY AmongDirs DEF HttpClient, DbWriter, Connector, Template
<1>4. Among(ScyllaDb.dir) /\ Among(MongoDb.dir) /\ Among(Nats.dir) /\ Among(SurrealDb.dir)
  BY AmongDirs DEF ScyllaDb, MongoDb, Nats, SurrealDb, Marketplace, Template
<1>5. Among(ClickHouse.dir) /\ Among(S3.dir) /\ Among(WebRtc.dir) /\ Among(RabbitMq.dir)
  BY AmongDirs DEF ClickHouse, S3, WebRtc, RabbitMq, Marketplace, Template
<1>6. QED
  BY <1>1, <1>2, <1>3, <1>4, <1>5 DEF ConnectorCatalogue

(* The operators on streams.                                                 *)
LEMMA StreamDirs == \A T \in StreamCatalogue : Among(T.dir)
<1>1. Among(StreamFilter.dir) /\ Among(StreamMap.dir) /\ Among(StreamSelect.dir)
  BY AmongDirs DEF StreamFilter, StreamMap, StreamSelect, Operator, Template
<1>2. Among(StreamUnion.dir) /\ Among(StreamJoin.dir)
  BY AmongDirs DEF StreamUnion, StreamJoin, Operator, Template
<1>3. Among(StreamWindow.dir) /\ Among(StreamPattern.dir)
  BY AmongDirs DEF StreamWindow, StreamPattern, Operator, Template
<1>4. QED
  BY <1>1, <1>2, <1>3 DEF StreamCatalogue

(* The blocks of the language.                                               *)
LEMMA LanguageDirs == \A T \in LanguageCatalogue : Among(T.dir)
<1>1. Among(LanguageStruct.dir) /\ Among(LanguageEnum.dir) /\ Among(LanguageFn.dir)
  BY AmongDirs DEF LanguageStruct, LanguageEnum, LanguageFn, TypeDefinition, Template
<1>2. Among(LanguageIfElse.dir) /\ Among(LanguageMatch.dir) /\ Among(LanguageLoop.dir)
  BY AmongDirs DEF LanguageIfElse, LanguageMatch, LanguageLoop, Expression, LanguageFn, Template
<1>3. Among(LanguageClone.dir) /\ Among(LanguagePropagate.dir)
  BY AmongDirs DEF LanguageClone, LanguagePropagate, Expression, LanguageFn, Template
<1>4. Among(LanguageAwait.dir) /\ Among(LanguagePointer.dir)
  BY AmongDirs DEF LanguageAwait, LanguagePointer, Expression, LanguageFn, Template
<1>5. QED
  BY <1>1, <1>2, <1>3, <1>4 DEF LanguageCatalogue

(* The helpers of tokio.                                                     *)
LEMMA TokioDirs == \A T \in TokioCatalogue : Among(T.dir)
<1>1. Among(TokioMpsc.dir) /\ Among(TokioBroadcast.dir) /\ Among(TokioMutex.dir) /\
     Among(TokioRwLock.dir)
  BY AmongDirs DEF TokioMpsc, TokioBroadcast, TokioMutex, TokioRwLock, Helper, Template
<1>2. Among(TokioInterval.dir) /\ Among(TokioSemaphore.dir) /\ Among(TokioSpawn.dir) /\
     Among(TokioSpawnBlocking.dir)
  BY AmongDirs DEF TokioInterval, TokioSemaphore, TokioSpawn, TokioSpawnBlocking, Helper, Template
<1>3. Among(TokioSelect.dir) /\ Among(TokioJoin.dir) /\ Among(TokioSleep.dir) /\
     Among(TokioNotify.dir)
  BY AmongDirs DEF TokioSelect, TokioJoin, TokioSleep, TokioNotify, Helper, Template
<1>4. QED
  BY <1>1, <1>2, <1>3 DEF TokioCatalogue

(* The custom blocks, WebAssembly and gRPC.                                  *)
LEMMA PluginDirs == \A T \in PluginCatalogue : Among(T.dir)
<1>1. Among(CustomBlock.dir) /\ Among(WasmRunner.dir)
  BY AmongDirs DEF CustomBlock, WasmRunner, Template
<1>2. Among(GrpcServer.dir) /\ Among(GrpcClient.dir)
  BY AmongDirs DEF GrpcServer, GrpcClient, Template
<1>3. QED
  BY <1>1, <1>2 DEF PluginCatalogue

(* So the directory of a node that emits is one of the graph's.              *)
LEMMA EmittersHaveDirs ==
  ASSUME NEW g, Registered(g), NEW n \in NodesOf(g), Emits(n)
  PROVE  n.t.dir \in Range(Dirs(g))
<1>1. \A T \in Registry : Among(T.dir)
  BY CoreDirs, ConnectorDirs, StreamDirs, LanguageDirs, TokioDirs, PluginDirs DEF Registry
<1>2. Among(n.t.dir)
  BY <1>1 DEF Registered
<1>3. n.t.dir \in Range(SortedDirs)
  BY <1>2 DEF Among, Emits
<1> QED
  BY <1>3, DirsRange

(* main.rs starts the emitters that run forever.                             *)
LEMMA SpawnsRange ==
  ASSUME NEW g, IsGraph(g)
  PROVE  Range(Spawns(g)) = {File(n) : n \in {m \in NodesOf(g) : Emits(m) /\ RunsForever(m.t)}}
<1> DEFINE S == {m \in NodesOf(g) : Emits(m) /\ RunsForever(m.t)}
           runners == Those(g.nodes, S)
           D == Spawns(g)
<1>1. Range(g.nodes) = NodesOf(g)
  BY DEF Range, NodesOf
<1>2. Range(runners) = Range(g.nodes) \cap S
  <2> HIDE DEF S
  <2> QED
    BY ThoseRange DEF IsGraph
<1>3. Range(runners) = S
  BY <1>1, <1>2
<1>4. D = [i \in DOMAIN runners |-> File(runners[i])]
  BY DEF Spawns
<1> HIDE DEF S, runners, D
<1>5. DOMAIN D = DOMAIN runners /\ \A i \in DOMAIN runners : D[i] = File(runners[i])
  BY <1>4
<1>6. Range(D) = {File(n) : n \in Range(runners)}
  BY <1>5 DEF Range
<1> QED
  BY <1>3, <1>6 DEF D, S

(* A file is what the last of its nodes exports.                             *)
LEMMA LastExports ==
  ASSUME NEW g, IsGraph(g), NEW m, NEW m2, WithNodes(m, m2, g, Len(g.nodes)),
         NEW n \in NodesOf(g), Emits(n)
  PROVE  m2[File(n)] = Exports(g, LastWith(g, File(n)))
<1> DEFINE f == File(n)
           s == g.nodes
           S == {x \in NodesOf(g) : Emits(x) /\ File(x) = f}
<1>1. /\ s \in Seq(NodesOf(g)) /\ Len(s) \in Nat /\ DOMAIN s = 1..Len(s)
      /\ \A k \in 1..Len(s) : s[k] \in NodesOf(g)
  BY DEF IsGraph
<1>2. PICK i \in 1..Len(s) : n = s[i]
  BY <1>1 DEF NodesOf
<1>3. Emitted(g, Len(s), f)
  BY <1>2 DEF Emitted, IsOf
<1> HIDE DEF f
<1>4. PICK j : LastTo(g, Len(s), j, f)
  BY <1>1, <1>3, LastExists
<1>5. m2[f] = Exports(g, s[j])
  BY <1>4 DEF WithNodes
<1>6. \A k \in 1..Len(s) : s[k] \in S <=> IsOf(g, k, f)
  BY <1>1 DEF IsOf
<1>7. j \in 1..Len(s) /\ s[j] \in S /\ \A k \in 1..Len(s) : s[k] \in S => k <= j
  BY <1>4, <1>6 DEF LastTo
<1> DEFINE here == Those(s, S)
<1>8. LastWith(g, f) = here[Len(here)]
  BY DEF LastWith
<1>9. here[Len(here)] = s[j]
  <2> HIDE DEF S, s
  <2> QED
    BY <1>1, <1>7, ThoseLast
<1> QED
  BY <1>5, <1>8, <1>9 DEF f

(* The mod.rs of a directory declares the module of each of its nodes.       *)
LEMMA DirDeclares ==
  ASSUME NEW g, IsGraph(g), NEW n \in NodesOf(g)
  PROVE  Mod(ModuleName(n)) \in Range(DirMods(g, n.t.dir))
<1> DEFINE d == n.t.dir
           S == {x \in NodesOf(g) : x.t.dir = d}
           inDir == Those(g.nodes, S)
<1>1. Range(g.nodes) = NodesOf(g)
  BY DEF Range, NodesOf
<1>2. n \in S
  OBVIOUS
<1>3. Range(inDir) = Range(g.nodes) \cap S
  <2> HIDE DEF S
  <2> QED
    BY ThoseRange DEF IsGraph
<1>4. PICK i \in DOMAIN inDir : n = inDir[i]
  <2> HIDE DEF inDir, S
  <2>1. n \in Range(inDir)
    BY <1>1, <1>2, <1>3
  <2> QED
    BY <2>1 DEF Range
<1> DEFINE names == ModulesIn(g, d)
<1>5. names = [k \in DOMAIN inDir |-> ModuleName(inDir[k])]
  BY DEF ModulesIn
<1>6. DirMods(g, d) = [k \in DOMAIN names |-> Mod(names[k])]
  BY DEF DirMods
<1> HIDE DEF inDir, names
<1>7. i \in DOMAIN names /\ names[i] = ModuleName(n)
  BY <1>4, <1>5
<1> DEFINE mods == DirMods(g, d)
<1> HIDE DEF mods, d
<1>8. i \in DOMAIN mods /\ mods[i] = Mod(ModuleName(n))
  BY <1>6, <1>7 DEF mods
<1> QED
  BY <1>8 DEF Range, mods, d

(* Settled files are current.                                                *)
LEMMA SettledIsCurrent ==
  ASSUME IsGraph(graph), Registered(graph), packages \subseteq Packages,
         Settled(disk, graph, packages)
  PROVE  OutputIsCurrent
<1> DEFINE g == graph
           lib == disk.texts[Lib]
<1>1. disk.main.entry = Framework(g) /\ disk.errors = Framework(g)
  BY DEF Settled, Main
<1>2. Range(disk.main.spawns)
        = {File(n) : n \in {m \in NodesOf(g) : Emits(m) /\ RunsForever(m.t)}}
  <2>1. disk.main.spawns = Spawns(g)
    BY DEF Settled, Main
  <2> QED
    BY <2>1, SpawnsRange
<1>3. ASSUME NEW n \in NodesOf(g), Emits(n)
      PROVE  disk.modules[File(n)] = Exports(g, LastWith(g, File(n)))
  <2>1. PICK m : WithNodes(m, disk.modules, g, Len(g.nodes))
    BY DEF Settled
  <2> QED
    BY <1>3, <2>1, LastExports
<1>4. Range(Body(lib, "module_decls"))
        = {Folder(x) : x \in Range(Given) \cup Range(Dirs(g)) \cup Children(packages, Lib)}
  <2> DEFINE new == LibRegions(g, packages)
  <2>1. Fits(lib, new)
    BY DEF Settled
  <2>2. "module_decls" \in DOMAIN new /\ new["module_decls"] = LibDecls(g, packages)
    BY LibRegionIds
  <2> HIDE DEF lib, new
  <2>3. Body(lib, "module_decls") = LibDecls(g, packages)
    BY <2>1, <2>2, FitsAll
  <2> QED
    BY <2>3, LibDeclares
<1>5. ASSUME NEW n \in NodesOf(g), Emits(n)
      PROVE  Mod(ModuleName(n)) \in Range(Body(disk.texts[<<n.t.dir>>], "mods"))
  <2> DEFINE d == n.t.dir
             dirs == Dirs(g)
             file == disk.texts[<<d>>]
             new == DirRegions(g, d)
  <2>1. d \in Range(dirs)
    BY <1>5, EmittersHaveDirs
  <2>2. dirs \in Seq(SortedNames)
    BY DirsAreASeq
  <2>3. \A i \in 1..Len(dirs) : DirFits(disk.texts, g, dirs[i])
    BY DEF Settled
  <2> HIDE DEF dirs
  <2>4. DirFits(disk.texts, g, d)
    BY <2>1, <2>2, <2>3 DEF Range
  <2>5. Fits(file, new)
    BY <2>4 DEF DirFits
  <2>6. "mods" \in DOMAIN new /\ new["mods"] = DirMods(g, d)
    BY DirRegionsGenerated
  <2> HIDE DEF file, new
  <2>7. Body(file, "mods") = DirMods(g, d)
    BY <2>5, <2>6, FitsAll
  <2> QED
    BY <2>7, DirDeclares DEF file
<1>6. disk.cargo = Cargo(g)
  BY DEF Settled
<1>7. Body(lib, "routes") = Routes(g)
  <2> DEFINE new == LibRegions(g, packages)
             routes == Routes(g)
  <2>1. Fits(lib, new)
    BY DEF Settled
  <2>2. CASE routes # <<>>
    <3>1. "routes" \in DOMAIN new /\ new["routes"] = routes
      BY <2>2, RoutesAreMerged
    <3> HIDE DEF lib, new, routes
    <3> QED
      BY <2>1, <3>1, FitsAll DEF routes
  <2>3. CASE routes = <<>>
    <3>1. "routes" \notin DOMAIN new
      BY <2>3 DEF LibRegions
    <3> HIDE DEF lib, new, routes
    <3> QED
      BY <2>1, <2>3, <3>1, FitsWithout DEF routes
  <2> QED
    BY <2>2, <2>3
<1> QED
  BY <1>1, <1>2, <1>3, <1>4, <1>5, <1>6, <1>7 DEF OutputIsCurrent

(* After a generation that ended well, the output is that of the graph and   *)
(* the packages, whatever the ones before left behind.                       *)
THEOREM OutputStaysCurrent == Spec => []OutputIsCurrent
<1>1. TextInv /\ SettledInv => OutputIsCurrent
  <2> SUFFICES ASSUME TextInv, SettledInv PROVE OutputIsCurrent
    OBVIOUS
  <2>1. CASE last = "ok"
    BY <2>1, SettledIsCurrent DEF TextInv, SettledInv
  <2>2. CASE last # "ok"
    BY <2>2 DEF OutputIsCurrent
  <2> QED
    BY <2>1, <2>2
<1> QED
  BY <1>1, SessionsKeepTexts, GenerationsSettle, PTL
-----------------------------------------------------------------------------
(* What the regions declare is there, once.                                  *)

(* Those is a part of the list, in its order: h is where its elements were.  *)
PartOf(t, s, h) ==
    /\ h \in [1..Len(t) -> 1..Len(s)]
    /\ \A i \in 1..Len(t) : t[i] = s[h[i]]
    /\ \A i, j \in 1..Len(t) : i < j => h[i] < h[j]

(* Those is a part of the list, in its order,                                *)
LEMMA ThosePart ==
  ASSUME NEW L, NEW s \in Seq(L), NEW S
  PROVE  \E h : PartOf(Those(s, S), s, h)
<1>1. PICK F \in [0..Len(s) -> Seq(L)] : IsThose(F, s, S) /\ Those(s, S) = F[Len(s)]
  BY ThoseWalk
<1> DEFINE Right(n) == \E h : /\ h \in [1..Len(F[n]) -> 1..n]
                              /\ \A i \in 1..Len(F[n]) : F[n][i] = s[h[i]]
                              /\ \A i, j \in 1..Len(F[n]) : i < j => h[i] < h[j]
           T == {n \in Nat : n <= Len(s) => Right(n)}
<1>2. 0 \in T
  <2>1. Len(F[0]) = 0
    BY <1>1 DEF IsThose
  <2> DEFINE h == [i \in 1..0 |-> 1]
  <2>2. h \in [1..Len(F[0]) -> 1..0]
    BY <2>1
  <2>3. 1..Len(F[0]) = {}
    BY <2>1
  <2> HIDE DEF h
  <2>4. Right(0)
    BY <2>2, <2>3
  <2> QED
    BY <2>4
<1>3. ASSUME NEW n \in Nat, n \in T PROVE n + 1 \in T
  <2> SUFFICES ASSUME n + 1 <= Len(s) PROVE Right(n + 1)
    OBVIOUS
  <2>1. n + 1 \in 1..Len(s) /\ (n + 1) - 1 = n /\ n \in 0..Len(s) /\ n + 1 \in 0..Len(s)
    OBVIOUS
  <2>2. F[n + 1] = IF s[n + 1] \in S THEN Append(F[n], s[n + 1]) ELSE F[n]
    BY <1>1, <2>1 DEF IsThose
  <2> DEFINE a == F[n]
             b == F[n + 1]
             N == Len(a)
  <2>3. PICK h : /\ h \in [1..N -> 1..n]
                 /\ \A i \in 1..N : a[i] = s[h[i]]
                 /\ \A i, j \in 1..N : i < j => h[i] < h[j]
    BY <1>3, <2>1
  <2>4. a \in Seq(L) /\ s[n + 1] \in L
    BY <1>1, <2>1
  <2>5. b = IF s[n + 1] \in S THEN Append(a, s[n + 1]) ELSE a
    BY <2>2
  <2> HIDE DEF a, b
  <2>6. CASE s[n + 1] \in S
    <3> DEFINE g == [i \in 1..(N + 1) |-> IF i = N + 1 THEN n + 1 ELSE h[i]]
    <3>1. /\ N \in Nat /\ Len(b) = N + 1 /\ b[N + 1] = s[n + 1]
          /\ \A i \in 1..N : b[i] = a[i]
      BY <2>4, <2>5, <2>6
    <3>2. \A i \in 1..N : h[i] \in 1..n /\ i \in 1..(N + 1) /\ i # N + 1
      BY <2>3, <3>1
    <3>3. g \in [1..(N + 1) -> 1..(n + 1)]
      BY <3>2
    <3>4. g[N + 1] = n + 1 /\ \A i \in 1..N : g[i] = h[i]
      BY <3>1, <3>2
    <3> HIDE DEF g
    <3>5. \A i \in 1..(N + 1) : i = N + 1 \/ i \in 1..N
      BY <3>1
    <3>6. \A i \in 1..(N + 1) : b[i] = s[g[i]]
      BY <2>3, <3>1, <3>4, <3>5
    <3>7. ASSUME NEW i \in 1..(N + 1), NEW j \in 1..(N + 1), i < j PROVE g[i] < g[j]
      <4>1. i \in 1..N
        BY <3>1, <3>7
      <4>2. CASE j = N + 1
        BY <3>2, <3>4, <4>1, <4>2
      <4>3. CASE j \in 1..N
        BY <2>3, <3>4, <3>7, <4>1, <4>3
      <4> QED
        BY <3>5, <4>2, <4>3
    <3> QED
      BY <3>1, <3>3, <3>6, <3>7 DEF b
  <2>7. CASE s[n + 1] \notin S
    <3>1. b = a
      BY <2>5, <2>7
    <3>2. h \in [1..N -> 1..(n + 1)]
      BY <2>3
    <3> QED
      BY <2>3, <3>1, <3>2 DEF b
  <2> QED
    BY <2>6, <2>7
<1>4. Nat \subseteq T
  <2> HIDE DEF T
  <2> QED
    BY <1>2, <1>3, NatBySets
<1>5. Len(s) \in Nat
  OBVIOUS
<1>6. Right(Len(s))
  <2> HIDE DEF Right
  <2>1. Len(s) \in T /\ Len(s) <= Len(s)
    BY <1>4, <1>5
  <2> QED
    BY <2>1
<1> QED
  BY <1>1, <1>6 DEF PartOf

(* ... so what is once in a list is once in Those of it.                     *)
LEMMA ThoseOnce ==
  ASSUME NEW L, NEW s \in Seq(L), NEW S, IsInjective(s)
  PROVE  IsInjective(Those(s, S))
<1> DEFINE t == Those(s, S)
<1>1. PICK h : PartOf(t, s, h)
  BY ThosePart
<1>2. t \in Seq(L)
  BY ThoseMembers
<1> HIDE DEF t
<1>3. DOMAIN t = 1..Len(t) /\ DOMAIN s = 1..Len(s) /\ Len(t) \in Nat
  BY <1>2
<1>4. ASSUME NEW i \in 1..Len(t), NEW j \in 1..Len(t), t[i] = t[j] PROVE i = j
  <2>1. h[i] \in 1..Len(s) /\ h[j] \in 1..Len(s) /\ s[h[i]] = s[h[j]]
    BY <1>1, <1>4 DEF PartOf
  <2>2. h[i] = h[j]
    BY <1>3, <2>1 DEF IsInjective
  <2>3. ~(h[i] < h[j]) /\ ~(h[j] < h[i])
    BY <2>1, <2>2
  <2>4. ~(i < j) /\ ~(j < i)
    BY <1>1, <2>3 DEF PartOf
  <2> QED
    BY <2>4
<1>5. IsInjective(t)
  BY <1>3, <1>4 DEF IsInjective
<1> QED
  BY <1>5 DEF t

(* Two lists with nothing in common.                                         *)
LEMMA ConcatOnce ==
  ASSUME NEW X, NEW s \in Seq(X), NEW t \in Seq(X), IsInjective(s), IsInjective(t),
         \A x \in Range(s) : x \notin Range(t)
  PROVE  IsInjective(s \o t)
<1> DEFINE st == s \o t
<1>1. /\ DOMAIN st = 1..(Len(s) + Len(t)) /\ DOMAIN s = 1..Len(s) /\ DOMAIN t = 1..Len(t)
      /\ Len(s) \in Nat /\ Len(t) \in Nat
      /\ \A i \in 1..Len(s) : st[i] = s[i]
      /\ \A i \in 1..Len(t) : st[Len(s) + i] = t[i]
  OBVIOUS
<1> HIDE DEF st
<1>2. ASSUME NEW i \in DOMAIN st
      PROVE  \/ i \in DOMAIN s /\ st[i] = s[i]
             \/ \E k \in DOMAIN t : i = Len(s) + k /\ st[i] = t[k]
  <2>1. CASE i <= Len(s)
    BY <1>1, <2>1
  <2>2. CASE ~(i <= Len(s))
    <3> DEFINE k == i - Len(s)
    <3>1. k \in DOMAIN t /\ i = Len(s) + k
      BY <1>1, <2>2
    <3> HIDE DEF k
    <3> QED
      BY <1>1, <3>1
  <2> QED
    BY <2>1, <2>2
<1>3. \A i \in DOMAIN s : s[i] \in Range(s)
  BY DEF Range
<1>4. \A i \in DOMAIN t : t[i] \in Range(t)
  BY DEF Range
<1>5. ASSUME NEW i \in DOMAIN st, NEW j \in DOMAIN st, st[i] = st[j] PROVE i = j
  <2>1. CASE i \in DOMAIN s /\ st[i] = s[i]
    <3>1. j \in DOMAIN s /\ st[j] = s[j]
      BY <1>2, <1>3, <1>4, <1>5, <2>1
    <3> QED
      BY <1>5, <2>1, <3>1 DEF IsInjective
  <2>2. CASE \E k \in DOMAIN t : i = Len(s) + k /\ st[i] = t[k]
    <3>1. PICK k \in DOMAIN t : i = Len(s) + k /\ st[i] = t[k]
      BY <2>2
    <3>2. PICK l \in DOMAIN t : j = Len(s) + l /\ st[j] = t[l]
      BY <1>2, <1>3, <1>4, <1>5, <3>1
    <3>3. k = l
      BY <1>5, <3>1, <3>2 DEF IsInjective
    <3> QED
      BY <3>1, <3>2, <3>3
  <2> QED
    BY <1>2, <2>1, <2>2
<1>6. IsInjective(st)
  BY <1>5 DEF IsInjective
<1> QED
  BY <1>6 DEF st

(* Declarations tell names.                                                  *)
LEMMA FolderOnce == \A x, y : Folder(x) = Folder(y) => x = y
<1> SUFFICES ASSUME NEW x, NEW y, Folder(x) = Folder(y) PROVE x = y
  OBVIOUS
<1>1. \A a, b : Mod(a) = Mod(b) => a = b
  BY DEF Mod
<1> DEFINE none == ""
<1>2. Folder(x) = Mod(<<none, x>>) /\ Folder(y) = Mod(<<none, y>>)
  BY DEF Folder
<1> HIDE DEF none
<1>3. <<none, x>> = <<none, y>>
  BY <1>1, <1>2
<1> QED
  BY <1>3

(* Names that are told apart are declared once each.                         *)
LEMMA DeclareOnce ==
  ASSUME NEW names, NEW X, NEW sorted \in Seq(X), IsInjective(sorted)
  PROVE  IsInjective(Declare(names, sorted))
<1> DEFINE here == Those(sorted, names)
           D == Declare(names, sorted)
<1>1. IsInjective(here)
  BY ThoseOnce
<1>2. D = [i \in DOMAIN here |-> Folder(here[i])]
  BY DEF Declare
<1> HIDE DEF here, D
<1>3. DOMAIN D = DOMAIN here /\ \A i \in DOMAIN here : D[i] = Folder(here[i])
  BY <1>2
<1>4. IsInjective(D)
  BY <1>1, <1>3, FolderOnce DEF IsInjective
<1> QED
  BY <1>4 DEF D

(* The directories are sixteen, and none is a given file.                    *)
LEMMA SortedDirsOnce == IsInjective(SortedDirs) /\ Range(SortedDirs) \cap Range(Given) = {}
<1> DEFINE s == SortedDirs
<1>1. /\ s[1] = "consumers" /\ s[2] = "dto" /\ s[3] = "functions" /\ s[4] = "grpc"
      /\ s[5] = "handlers" /\ s[6] = "integrations" /\ s[7] = "loggers" /\ s[8] = "marketplace"
      /\ s[9] = "middlewares" /\ s[10] = "parsers" /\ s[11] = "runtime" /\ s[12] = "schedulers"
      /\ s[13] = "services" /\ s[14] = "src/functions" /\ s[15] = "streams" /\ s[16] = "types"
      /\ DOMAIN s = 1..16
  BY DEF SortedDirs
<1> HIDE DEF s
<1>2. \A i, j \in 1..16 : s[i] = s[j] => i = j
  BY <1>1
<1>3. \A i \in 1..16 : s[i] \notin {"errors", "debug"}
  BY <1>1
<1>4. IsInjective(s)
  BY <1>1, <1>2 DEF IsInjective
<1>5. Range(s) \cap Range(Given) = {}
  BY <1>1, <1>3, GivenAre DEF Range
<1> QED
  BY <1>4, <1>5 DEF s

(* The two given names are declared once each.                               *)
LEMMA GivenOnce ==
  IsInjective(GivenDecls) /\ Range(GivenDecls) = {Folder(x) : x \in Range(Given)}
<1>1. DOMAIN Given = {1, 2} /\ Given[1] # Given[2]
  BY DEF Given
<1>2. DOMAIN GivenDecls = DOMAIN Given /\ \A i \in DOMAIN Given : GivenDecls[i] = Folder(Given[i])
  BY DEF GivenDecls
<1>3. IsInjective(GivenDecls)
  BY <1>1, <1>2, FolderOnce DEF IsInjective
<1>4. Range(GivenDecls) = {Folder(x) : x \in Range(Given)}
  BY <1>2 DEF Range
<1> QED
  BY <1>3, <1>4

(* The packages below a package, by their slugs.                             *)
LEMMA ChildrenOf ==
  ASSUME NEW pk, pk \subseteq Packages, NEW p, p = Lib \/ p \in pk, NEW x \in Children(pk, p)
  PROVE  x \in Range(SortedSlugs) /\ Append(p, x) \in pk
<1> DEFINE N == Range(SortedSlugs)
<1>1. PICK q \in pk : Len(q) = Len(p) + 1 /\ SubSeq(q, 1, Len(p)) = p /\ x = q[Len(q)]
  BY DEF Children
<1>2. q \in Seq(N) /\ p \in Seq(N)
  <2>1. q \in Seq(N)
    BY PackagesAssumption
  <2>2. CASE p = Lib
    BY <2>1, <2>2 DEF Lib
  <2>3. CASE p \in pk
    BY <2>1, <2>3, PackagesAssumption
  <2> QED
    BY <2>1, <2>2, <2>3
<1> HIDE DEF N
<1>3. Len(p) \in Nat /\ Len(q) \in 1..Len(q) /\ x \in N
  BY <1>1, <1>2
<1> DEFINE r == Append(p, x)
<1>4. /\ r \in Seq(N) /\ Len(r) = Len(q) /\ r[Len(q)] = q[Len(q)]
      /\ \A i \in 1..Len(p) : r[i] = p[i]
  BY <1>1, <1>2, <1>3
<1>5. \A i \in 1..Len(p) : p[i] = q[i]
  <2>1. \A i \in 1..Len(p) : SubSeq(q, 1, Len(p))[i] = q[i]
    BY <1>1, <1>2, <1>3
  <2> QED
    BY <1>1, <2>1
<1> HIDE DEF r
<1>6. \A i \in 1..Len(q) : i = Len(q) \/ i \in 1..Len(p)
  BY <1>1, <1>3
<1>7. r = q
  <2>1. \A i \in 1..Len(q) : r[i] = q[i]
    BY <1>4, <1>5, <1>6
  <2> QED
    BY <1>2, <1>4, <2>1
<1> QED
  BY <1>3, <1>7 DEF r, N

(* No name is declared twice in lib.rs, by slug, directory or given name.    *)
LEMMA LibDeclsOnce == \A g, pk : IsInjective(LibDecls(g, pk))
<1> SUFFICES ASSUME NEW g, NEW pk PROVE IsInjective(LibDecls(g, pk))
  OBVIOUS
<1> DEFINE A == Range(Given)
           B == Range(Dirs(g))
           C == Children(pk, Lib) \ (B \cup A)
           Z == {Folder(x) : x \in SortedNames \cup A}
           a == GivenDecls
           b == Declare(B, SortedDirs)
           c == Declare(C, SortedSlugs)
<1>1. Range(a) = {Folder(x) : x \in A} /\ IsInjective(a) /\ a \in Seq(Z)
  <2>1. a \in Seq({Folder("errors"), Folder("debug")})
    BY GivenAre
  <2>2. {Folder("errors"), Folder("debug")} \subseteq Z
    BY GivenAre
  <2> HIDE DEF a, Z
  <2>3. a \in Seq(Z)
    BY <2>1, <2>2
  <2> QED
    BY <2>3, GivenOnce DEF a
<1>2. Range(b) = {Folder(x) : x \in Range(SortedDirs) \cap B} /\ IsInjective(b)
  BY DeclaredFolders, DeclareOnce, SortedSeqs, SortedDirsOnce
<1>3. Range(c) = {Folder(x) : x \in Range(SortedSlugs) \cap C} /\ IsInjective(c)
  <2> HIDE DEF C
  <2> QED
    BY DeclaredFolders, DeclareOnce, SortedSeqs, PackagesAssumption
<1>4. b \in Seq(Z) /\ c \in Seq(Z)
  <2>1. {Folder(x) : x \in SortedNames} \subseteq Z
    OBVIOUS
  <2>2. b \in Seq({Folder(x) : x \in SortedNames}) /\ c \in Seq({Folder(x) : x \in SortedNames})
    BY DeclareIsASeq, SortedSeqs
  <2> HIDE DEF b, c, Z
  <2> QED
    BY <2>1, <2>2
<1>5. LibDecls(g, pk) = (a \o b) \o c
  BY DEF LibDecls, GivenDecls
<1>6. B \cap A = {} /\ C \cap A = {} /\ C \cap B = {}
  BY DirsRange, SortedDirsOnce
<1> HIDE DEF A, B, C, Z, a, b, c
<1>7. \A x \in Range(a) : x \notin Range(b)
  BY <1>1, <1>2, <1>6, FolderOnce
<1> DEFINE ab == a \o b
<1>8. ab \in Seq(Z) /\ IsInjective(ab) /\ Range(ab) = Range(a) \cup Range(b)
  <2>1. ab \in Seq(Z)
    BY <1>1, <1>4
  <2>2. IsInjective(ab)
    BY <1>1, <1>2, <1>4, <1>7, ConcatOnce
  <2>3. Range(ab) = Range(a) \cup Range(b)
    BY <1>1, <1>4, ConcatRange
  <2> QED
    BY <2>1, <2>2, <2>3
<1> HIDE DEF ab
<1>9. \A x \in Range(ab) : x \notin Range(c)
  BY <1>1, <1>2, <1>3, <1>6, <1>8, FolderOnce
<1>10. IsInjective(ab \o c)
  BY <1>3, <1>4, <1>8, <1>9, ConcatOnce
<1> QED
  BY <1>5, <1>10 DEF ab

(* The name a declaration has.                                               *)
LEMMA FolderNames == \A x : Folder(x)[2][2] = x
<1> SUFFICES ASSUME NEW x PROVE Folder(x)[2][2] = x
  OBVIOUS
<1>1. \A y : Mod(y)[2] = y
  BY DEF Mod
<1> DEFINE none == ""
<1>2. Folder(x) = Mod(<<none, x>>)
  BY DEF Folder
<1> HIDE DEF none
<1>3. Folder(x)[2] = <<none, x>>
  BY <1>1, <1>2
<1> QED
  BY <1>3

(* What a settled lib.rs declares is there.                                  *)
LEMMA LibIsResolved ==
  ASSUME Settled(disk, graph, packages), packages \subseteq Packages
  PROVE  LibResolves
<1> DEFINE lib == disk.texts[Lib]
           new == LibRegions(graph, packages)
           decls == Body(lib, "module_decls")
<1>1. decls = LibDecls(graph, packages)
  <2>1. Fits(lib, new)
    BY DEF Settled
  <2>2. "module_decls" \in DOMAIN new /\ new["module_decls"] = LibDecls(graph, packages)
    BY LibRegionIds
  <2> HIDE DEF lib, new
  <2> QED
    BY <2>1, <2>2, FitsAll DEF lib
<1>2. IsInjective(decls)
  BY <1>1, LibDeclsOnce
<1>3. Range(decls) = {Folder(x) : x \in Range(Given) \cup Range(Dirs(graph))
                                          \cup Children(packages, Lib)}
  BY <1>1, LibDeclares
<1>4. \A x : Append(Lib, x) = <<x>>
  BY DEF Lib
<1>5. ASSUME NEW x \in Range(Given) \cup Range(Dirs(graph)) \cup Children(packages, Lib)
      PROVE  Resolves(Lib, Folder(x))
  <2>1. CASE x \in Range(Given)
    BY <2>1, FolderNames DEF Resolves
  <2>2. CASE x \in Range(Dirs(graph))
    <3> DEFINE dirs == Dirs(graph)
    <3>1. dirs \in Seq(SortedNames) /\ \A i \in 1..Len(dirs) : DirFits(disk.texts, graph, dirs[i])
      BY DirsAreASeq DEF Settled
    <3>2. x \in Range(dirs)
      BY <2>2
    <3> HIDE DEF dirs
    <3>3. DirFits(disk.texts, graph, x)
      BY <3>1, <3>2 DEF Range
    <3> QED
      BY <1>4, <3>3, FolderNames DEF DirFits, Resolves
  <2>3. CASE x \in Children(packages, Lib)
    <3>1. Append(Lib, x) \in packages
      BY <2>3, ChildrenOf
    <3>2. Packaged(disk.texts, packages, Append(Lib, x))
      BY <3>1 DEF Settled
    <3> QED
      BY <3>2, FolderNames DEF Packaged, Resolves
  <2> QED
    BY <2>1, <2>2, <2>3
<1> HIDE DEF lib, new, decls
<1>6. \A i \in DOMAIN decls : decls[i] \in Range(decls)
  BY DEF Range
<1>7. \A i \in DOMAIN decls : Resolves(Lib, decls[i])
  BY <1>3, <1>5, <1>6
<1> QED
  BY <1>2, <1>7 DEF LibResolves, decls, lib

(* A directory of the graph has a name.                                      *)
LEMMA DirsEmit ==
  ASSUME NEW g, NEW n, n.t.dir \in Range(Dirs(g))
  PROVE  Emits(n)
<1> DEFINE s == SortedDirs
<1>1. /\ s[1] = "consumers" /\ s[2] = "dto" /\ s[3] = "functions" /\ s[4] = "grpc"
      /\ s[5] = "handlers" /\ s[6] = "integrations" /\ s[7] = "loggers" /\ s[8] = "marketplace"
      /\ s[9] = "middlewares" /\ s[10] = "parsers" /\ s[11] = "runtime" /\ s[12] = "schedulers"
      /\ s[13] = "services" /\ s[14] = "src/functions" /\ s[15] = "streams" /\ s[16] = "types"
      /\ DOMAIN s = 1..16
  BY DEF SortedDirs
<1>2. n.t.dir \in Range(s)
  BY DirsRange
<1> HIDE DEF s
<1> DEFINE none == ""
<1>3. /\ "consumers" # none /\ "dto" # none /\ "functions" # none /\ "grpc" # none
      /\ "handlers" # none /\ "integrations" # none /\ "loggers" # none
      /\ "marketplace" # none /\ "middlewares" # none /\ "parsers" # none
      /\ "runtime" # none /\ "schedulers" # none /\ "services" # none
      /\ "src/functions" # none /\ "streams" # none /\ "types" # none
  OBVIOUS
<1> HIDE DEF none
<1>4. \A i \in 1..16 : s[i] # none
  BY <1>1, <1>3
<1>5. n.t.dir # none
  BY <1>1, <1>2, <1>4 DEF Range
<1> QED
  BY <1>5 DEF Emits, none

(* Module declarations tell names, as those of folders do.                   *)
LEMMA ModOnce == \A a, b : Mod(a) = Mod(b) => a = b
  BY DEF Mod

(* With one file per emitter a directory declares no name twice,             *)
LEMMA DirModsOnce ==
  ASSUME NEW g, IsGraph(g), OneFileEach(g), NEW d \in Range(Dirs(g))
  PROVE  IsInjective(DirMods(g, d))
<1> DEFINE S == {x \in NodesOf(g) : x.t.dir = d}
           inDir == Those(g.nodes, S)
           names == ModulesIn(g, d)
           mods == DirMods(g, d)
<1>1. PICK h : PartOf(inDir, g.nodes, h)
  <2> HIDE DEF S
  <2> QED
    BY ThosePart DEF IsGraph
<1>2. inDir \in Seq(NodesOf(g)) /\ \A i \in 1..Len(inDir) : inDir[i] \in S
  <2> HIDE DEF S
  <2> QED
    BY ThoseMembers DEF IsGraph
<1>3. names = [k \in DOMAIN inDir |-> ModuleName(inDir[k])]
  BY DEF ModulesIn
<1>4. mods = [k \in DOMAIN names |-> Mod(names[k])]
  BY DEF DirMods
<1>5. \A i \in 1..Len(inDir) : inDir[i].t.dir = d
  BY <1>2
<1> HIDE DEF S, inDir, names, mods
<1>6. DOMAIN mods = 1..Len(inDir) /\ \A i \in 1..Len(inDir) : mods[i] = Mod(ModuleName(inDir[i]))
  BY <1>2, <1>3, <1>4
<1>7. \A i \in 1..Len(inDir) : h[i] \in DOMAIN g.nodes /\ inDir[i] = g.nodes[h[i]]
                               /\ h[i] \in Nat
  BY <1>1 DEF PartOf, IsGraph
<1>8. ASSUME NEW i \in 1..Len(inDir), NEW j \in 1..Len(inDir), mods[i] = mods[j] PROVE i = j
  <2>1. ModuleName(inDir[i]) = ModuleName(inDir[j])
    BY <1>6, <1>8, ModOnce
  <2>2. File(inDir[i]) = File(inDir[j])
    BY <1>5, <2>1 DEF File
  <2>3. Emits(inDir[i]) /\ Emits(inDir[j])
    BY <1>5, DirsEmit
  <2>4. h[i] = h[j]
    BY <1>7, <2>2, <2>3 DEF OneFileEach
  <2>5. ~(h[i] < h[j]) /\ ~(h[j] < h[i])
    BY <1>7, <2>4
  <2>6. ~(i < j) /\ ~(j < i)
    BY <1>1, <2>5 DEF PartOf
  <2> QED
    BY <1>2, <2>6
<1>9. IsInjective(mods)
  BY <1>6, <1>8 DEF IsInjective
<1> QED
  BY <1>9 DEF mods

(* ... and each of its lines is the module of a node in it.                  *)
LEMMA DirModsAre ==
  ASSUME NEW g, IsGraph(g), NEW d, NEW i \in DOMAIN DirMods(g, d)
  PROVE  \E n \in NodesOf(g) : n.t.dir = d /\ DirMods(g, d)[i] = Mod(ModuleName(n))
<1> DEFINE S == {x \in NodesOf(g) : x.t.dir = d}
           inDir == Those(g.nodes, S)
           names == ModulesIn(g, d)
           mods == DirMods(g, d)
<1>1. inDir \in Seq(NodesOf(g)) /\ \A k \in 1..Len(inDir) : inDir[k] \in S
  <2> HIDE DEF S
  <2> QED
    BY ThoseMembers DEF IsGraph
<1>2. names = [k \in DOMAIN inDir |-> ModuleName(inDir[k])]
  BY DEF ModulesIn
<1>3. mods = [k \in DOMAIN names |-> Mod(names[k])]
  BY DEF DirMods
<1>4. i \in DOMAIN mods
  OBVIOUS
<1> HIDE DEF inDir, names, mods
<1>5. i \in 1..Len(inDir) /\ mods[i] = Mod(ModuleName(inDir[i]))
  BY <1>1, <1>2, <1>3, <1>4
<1> QED
  BY <1>1, <1>5 DEF mods

(* What a settled mod.rs of a directory declares is there.                   *)
LEMMA DirIsResolved ==
  ASSUME IsGraph(graph), Settled(disk, graph, packages), NEW d \in Range(Dirs(graph))
  PROVE  DirResolves(d)
<1> DEFINE g == graph
           dirs == Dirs(g)
           file == disk.texts[<<d>>]
           new == DirRegions(g, d)
           decls == Body(file, "mods")
<1>1. decls = DirMods(g, d)
  <2>1. dirs \in Seq(SortedNames) /\ \A i \in 1..Len(dirs) : DirFits(disk.texts, g, dirs[i])
    BY DirsAreASeq DEF Settled
  <2> HIDE DEF dirs
  <2>2. DirFits(disk.texts, g, d)
    BY <2>1 DEF Range, dirs
  <2>3. Fits(file, new)
    BY <2>2 DEF DirFits
  <2>4. "mods" \in DOMAIN new /\ new["mods"] = DirMods(g, d)
    BY DirRegionsGenerated
  <2> HIDE DEF file, new
  <2> QED
    BY <2>3, <2>4, FitsAll DEF file
<1>2. OneFileEach(g) => IsInjective(decls)
  BY <1>1, DirModsOnce
<1> HIDE DEF decls, file, new, dirs
<1>3. ASSUME NEW i \in DOMAIN decls PROVE Resolves(<<d>>, decls[i])
  <2>1. PICK n \in NodesOf(g) : n.t.dir = d /\ decls[i] = Mod(ModuleName(n))
    BY <1>1, <1>3, DirModsAre
  <2>2. Emits(n)
    BY <2>1, DirsEmit
  <2>3. File(n) \in DOMAIN disk.modules
    <3>1. PICK m : WithNodes(m, disk.modules, g, Len(g.nodes))
      BY DEF Settled
    <3>2. Emitted(g, Len(g.nodes), File(n))
      <4>1. PICK k \in DOMAIN g.nodes : n = g.nodes[k]
        BY DEF NodesOf
      <4>2. k \in 1..Len(g.nodes)
        BY DEF IsGraph
      <4> QED
        BY <2>2, <4>1, <4>2 DEF Emitted, IsOf
    <3> QED
      BY <3>1, <3>2 DEF WithNodes
  <2>4. File(n) = <<d, decls[i][2]>>
    <3>1. decls[i][2] = ModuleName(n)
      BY <2>1 DEF Mod
    <3> QED
      BY <2>1, <3>1 DEF File
  <2>5. Len(<<d>>) = 1 /\ <<d>>[1] = d
    OBVIOUS
  <2> QED
    BY <2>3, <2>4, <2>5 DEF Resolves
<1> QED
  BY <1>2, <1>3 DEF DirResolves, decls, file

(* A package's region is what is kept and the children.                      *)
LEMMA PackagedBody ==
  ASSUME NEW text, IsText(text), WellFormed(text), Begin("module_decls") \in Range(text),
         NEW ours, Generated(ours), ours # <<>>, PackageText(text, ours) = text
  PROVE  \E M : \E kept \in Seq(M) :
           /\ ours \in Seq(M) /\ Body(text, "module_decls") = kept \o ours
           /\ \A i \in 1..Len(kept) : kept[i] \notin Range(ours)
<1> DEFINE body == Body(text, "module_decls")
           others == Range(text) \ (Range(ours) \cup {Blank})
           kept == Those(body, others)
           regions == PackageRegion(kept, ours)
<1>1. PICK L : IsLines(L) /\ text \in Seq(L) /\ Clean(text)
  BY DEF IsText
<1>2. body \in Seq(L) /\ Plain(body)
  BY <1>1, BodyIsGenerated
<1>3. regions = [id \in {"module_decls"} |-> kept \o ours]
  BY DEF PackageRegion
<1>4. text = Merge(text, regions)
  BY DEF PackageText, PackageRegion
<1>5. \A x \in others : x \notin Range(ours)
  OBVIOUS
<1> HIDE DEF body, others
<1>6. kept \in Seq(L) /\ \A i \in 1..Len(kept) : kept[i] \in others
                                                  /\ \E n \in 1..Len(body) : body[n] = kept[i]
  BY <1>2, ThoseMembers
<1> HIDE DEF kept
<1>7. Plain(kept)
  BY <1>2, <1>6 DEF Plain
<1>8. Generated(kept \o ours)
  <2>1. Generated(kept)
    BY <1>1, <1>6, <1>7, GeneratedIn
  <2> QED
    BY <2>1, GeneratedConcat
<1>9. DOMAIN regions = {"module_decls"} /\ regions["module_decls"] = kept \o ours
  BY <1>3
<1>10. (\A id \in DOMAIN regions : Generated(regions[id])) /\ DOMAIN regions \subseteq MergedIds
  BY <1>8, <1>9 DEF MergedIds
<1>14. kept \o ours # <<>>
  <2>1. ours \in Seq(L \cup ToSet(ours)) /\ kept \in Seq(L \cup ToSet(ours))
    <3> DEFINE M == L \cup ToSet(ours)
    <3>1. ToSet(ours) \subseteq M /\ L \subseteq M
      OBVIOUS
    <3> HIDE DEF M
    <3>2. ours \in Seq(M) /\ kept \in Seq(M)
      BY <1>6, <3>1 DEF Generated
    <3> QED
      BY <3>2 DEF M
  <2>2. Len(kept \o ours) = Len(kept) + Len(ours) /\ Len(kept) \in Nat /\ Len(ours) \in Nat
    BY <2>1
  <2>3. Len(ours) # 0
    BY <2>1
  <2>4. Len(<<>>) = 0
    OBVIOUS
  <2> QED
    BY <2>2, <2>3, <2>4
<1>15. Filled(regions) = regions
  BY <1>3, <1>14 DEF Filled
<1> HIDE DEF regions
<1>11. Fits(Merge(text, regions), regions)
  BY <1>10, <1>15, MergeFits
<1>12. body = kept \o ours
  BY <1>4, <1>9, <1>11, FitsAll DEF body
<1> DEFINE M == L \cup ToSet(ours)
<1>13. ours \in Seq(M) /\ kept \in Seq(M)
  BY <1>6 DEF Generated
<1> HIDE DEF M
<1> QED
  BY <1>5, <1>6, <1>12, <1>13 DEF body

(* A settled package declares each child once, and the child has a file.     *)
LEMMA PackageIsResolved ==
  ASSUME IsDisk(disk), Settled(disk, graph, packages), packages \subseteq Packages,
         NEW p \in packages
  PROVE  PackageResolves(p)
<1> DEFINE text == disk.texts[p]
           decls == Body(text, "module_decls")
           ours == Ours(packages, p)
<1>1. /\ p \in DOMAIN disk.texts /\ IsText(text)
      /\ ours # <<>> => PackageText(text, ours) = text
  BY DEF Settled, Packaged, IsDisk
<1>2. /\ Generated(ours) /\ IsInjective(ours)
      /\ Range(ours) = {Folder(x) : x \in Range(SortedSlugs) \cap Children(packages, p)}
  BY FoldersGenerated, SortedSeqs, DeclareOnce, DeclaredFolders, PackagesAssumption DEF Ours
<1> HIDE DEF text, ours
<1>3. ASSUME NEW x \in Children(packages, p)
      PROVE  /\ Resolves(p, Folder(x))
             /\ Begin("module_decls") \in Range(text) /\ WellFormed(text) =>
                  \E i \in DOMAIN decls : \A j \in DOMAIN decls : decls[j] = Folder(x) <=> i = j
  <2>1. x \in Range(SortedSlugs) /\ Append(p, x) \in packages
    BY <1>3, ChildrenOf
  <2>2. Resolves(p, Folder(x))
    <3>1. Append(p, x) \in DOMAIN disk.texts
      BY <2>1 DEF Settled, Packaged
    <3> QED
      BY <3>1, FolderNames DEF Resolves
  <2>3. ASSUME Begin("module_decls") \in Range(text), WellFormed(text)
        PROVE  \E i \in DOMAIN decls : \A j \in DOMAIN decls : decls[j] = Folder(x) <=> i = j
    <3>0. ours # <<>>
      <4>1. Folder(x) \in Range(ours)
        BY <1>2, <2>1
      <4>2. Range(<<>>) = {}
        BY DEF Range
      <4> QED
        BY <4>1, <4>2
    <3>1. PICK M : \E k \in Seq(M) : /\ ours \in Seq(M) /\ decls = k \o ours
                                     /\ \A i \in 1..Len(k) : k[i] \notin Range(ours)
      BY <1>1, <1>2, <2>3, <3>0, PackagedBody
    <3>2. PICK kept \in Seq(M) : /\ ours \in Seq(M) /\ decls = kept \o ours
                                 /\ \A i \in 1..Len(kept) : kept[i] \notin Range(ours)
      BY <3>1
    <3> DEFINE line == Folder(x)
    <3>3. line \in Range(ours)
      BY <1>2, <2>1
    <3>4. PICK i \in DOMAIN ours : ours[i] = line
      BY <3>3 DEF Range
    <3> HIDE DEF line, decls
    <3>5. /\ DOMAIN decls = 1..(Len(kept) + Len(ours)) /\ DOMAIN ours = 1..Len(ours)
          /\ Len(kept) \in Nat /\ Len(ours) \in Nat
          /\ \A j \in 1..Len(kept) : decls[j] = kept[j]
          /\ \A j \in 1..Len(ours) : decls[Len(kept) + j] = ours[j]
      BY <3>2
    <3> DEFINE at == Len(kept) + i
    <3>6. at \in DOMAIN decls /\ decls[at] = line
      BY <3>4, <3>5
    <3>7. ASSUME NEW j \in DOMAIN decls, decls[j] = line PROVE at = j
      <4>1. CASE j <= Len(kept)
        <5>1. j \in 1..Len(kept) /\ decls[j] = kept[j]
          BY <3>5, <4>1
        <5> QED
          BY <3>2, <3>3, <3>7, <5>1
      <4>2. CASE ~(j <= Len(kept))
        <5> DEFINE k == j - Len(kept)
        <5>1. k \in DOMAIN ours /\ Len(kept) + k = j
          BY <3>5, <4>2
        <5> HIDE DEF k
        <5>2. ours[k] = line
          BY <3>5, <3>7, <5>1
        <5>3. k = i
          BY <1>2, <3>4, <5>1, <5>2 DEF IsInjective
        <5> QED
          BY <5>1, <5>3
      <4> QED
        BY <4>1, <4>2
    <3> HIDE DEF at
    <3>8. \A j \in DOMAIN decls : decls[j] = line <=> at = j
      BY <3>6, <3>7
    <3> QED
      BY <3>6, <3>8 DEF line
  <2> QED
    BY <2>2, <2>3
<1> QED
  BY <1>3 DEF PackageResolves, decls, text

(* Whatever a generation that ended well declares is there, once.            *)
THEOREM DeclarationsAreResolved == Spec => []DeclarationsResolve
<1>1. TextInv /\ SettledInv => DeclarationsResolve
  <2> SUFFICES ASSUME TextInv, SettledInv, last = "ok"
               PROVE  /\ LibResolves
                      /\ \A d \in Range(Dirs(graph)) : DirResolves(d)
                      /\ \A p \in packages : PackageResolves(p)
    BY DEF DeclarationsResolve
  <2>1. Settled(disk, graph, packages) /\ packages \subseteq Packages /\ IsGraph(graph)
        /\ IsDisk(disk)
    BY DEF TextInv, SettledInv
  <2> QED
    BY <2>1, LibIsResolved, DirIsResolved, PackageIsResolved
<1> QED
  BY <1>1, SessionsKeepTexts, GenerationsSettle, PTL
-----------------------------------------------------------------------------
(* What the templates of a saved graph call is there.                        *)

(* A task of main.rs is a run() of its template.                             *)
Runs(T) == RunsForever(T) => T.fn = "run" /\ T.args = 0 /\ ~T.wired /\ T.dir # ""

(* What a template calls is what the templates it can call export: each has  *)
(* its file in the directory, under its bare name, and a function of that    *)
(* name, or the sends of its ports.                                          *)
StreamSends(t) ==
    CASE t = "stream.union" -> {"send1", "send2"}
      [] t = "stream.join" -> {"send_left", "send_right"}
      [] OTHER -> {"send"}
Streams == {"stream.filter", "stream.map", "stream.select", "stream.window", "stream.pattern",
            "stream.union", "stream.join"}
Answered(c) ==
    \/ c.t = "core.service" /\ c.dir = "services" /\ c.fn = OwnName /\ c.args \in {0, 1}
    \/ c.t = "integration.db_writer" /\ c.dir = "integrations" /\ c.fn = "execute" /\ c.args = 1
    \/ c.t = "integration.http_client" /\ c.dir = "integrations" /\ c.fn = "send_request"
         /\ c.args = 1
    \/ c.t = "custom.block" /\ c.dir = "functions" /\ c.fn \in {OwnName, "execute"} /\ c.args = 1
    \/ c.t = "language.fn"
    \/ c.t \in Streams /\ c.dir = "streams" /\ c.fn \in StreamSends(c.t) /\ c.args = 1
Answers(T) == \A c \in T.calls \cup T.pulls : Answered(c)

Consistent(T) == Runs(T) /\ Answers(T)

(* The calls of ingest tasks,                                                *)
LEMMA IngestAnswered ==
  ASSUME NEW p
  PROVE  /\ Answered(ToService(p, 0)) /\ Answered(ToService(p, 1)) /\ Answered(ToWriter(p))
         /\ Answered(ToClient(p)) /\ Answered(ToBlock(p))
BY DEF Answered, ToService, ToWriter, ToClient, ToBlock, Call

(* ... and of stream operators.                                              *)
LEMMA DownstreamAnswered == \A c \in DownstreamCalls : Answered(c)
<1>1. ASSUME NEW t \in Streams, NEW into, NEW fn, fn \in StreamSends(t)
      PROVE  Answered(ToStream(t, into, fn))
  <2> DEFINE c == ToStream(t, into, fn)
  <2>1. c.t = t /\ c.dir = "streams" /\ c.fn = fn /\ c.args = 1
    BY DEF ToStream, Call
  <2> QED
    BY <1>1, <2>1 DEF Answered
<1>2. /\ Answered(Call("output", "core.service", "services", OwnName, 1, "raw", "unknown"))
      /\ Answered(Call("output", "integration.db_writer", "integrations", "execute", 1, "raw",
                       "unknown"))
      /\ Answered(Call("output", "custom.block", "functions", OwnName, 1, "raw", "unknown"))
  BY DEF Answered, Call
<1>3. /\ Answered(ToStream("stream.union", {"input1"}, "send1"))
      /\ Answered(ToStream("stream.union", {"input2"}, "send2"))
      /\ Answered(ToStream("stream.join", {"left"}, "send_left"))
      /\ Answered(ToStream("stream.join", {"right"}, "send_right"))
  BY <1>1 DEF Streams, StreamSends
<1>4. ASSUME NEW t \in {"stream.filter", "stream.map", "stream.select", "stream.window",
                        "stream.pattern"}
      PROVE  Answered(ToStream(t, {"input"}, "send"))
  BY <1>1 DEF Streams, StreamSends
<1> QED
  BY <1>2, <1>3, <1>4 DEF DownstreamCalls

(* The templates of templates/builtins/mod.rs.                               *)
LEMMA CoreConsistent == \A T \in CoreCatalogue : Consistent(T)
<1>1. /\ Consistent(EntryPoint)
      /\ Consistent(HttpRoute)
      /\ Consistent(HttpMiddleware)
      /\ Consistent(CoreService)
  BY DEF EntryPoint, HttpRoute, HttpMiddleware, CoreService, Port, ManyPort, Consistent, Runs,
         Answers, RunsForever, Template
<1>2. Consistent(HttpHandler)
  BY DEF HttpHandler, Call, Answered, Consistent, Runs, Answers, RunsForever, Template
<1>3. /\ Consistent(CoreDto)
      /\ Consistent(ObservabilityLogger)
      /\ Consistent(ParserJson)
  BY DEF CoreDto, ObservabilityLogger, ParserJson, Consistent, Runs, Answers, RunsForever,
         Template
<1>4. /\ Consistent(ParserXml)
      /\ Consistent(ParserProtobuf)
  BY DEF ParserXml, ParserProtobuf, Consistent, Runs, Answers, RunsForever, Template
<1>5. /\ Consistent(IntegrationConsumerPlaceholder)
      /\ Consistent(IntegrationSchedulerPlaceholder)
  BY DEF IntegrationConsumerPlaceholder, IntegrationSchedulerPlaceholder, Consistent, Runs,
         Answers, RunsForever, Template
<1> QED
  BY <1>1, <1>2, <1>3, <1>4, <1>5 DEF CoreCatalogue

(* The consumers and the connectors.                                         *)
LEMMA ConnectorConsistent == \A T \in ConnectorCatalogue : Consistent(T)
<1>1. Consistent(KafkaConsumer)
  BY IngestAnswered DEF KafkaConsumer, Ingest, Consistent, Runs, Answers, RunsForever, Template
<1>2. /\ Consistent(Scheduler)
      /\ Consistent(FileTail)
  BY IngestAnswered DEF Scheduler, FileTail, Ingest, Consistent, Runs, Answers, RunsForever,
         Template
<1>3. /\ Consistent(KafkaProducer)
      /\ Consistent(Redis)
      /\ Consistent(SqlConnector)
  BY DEF KafkaProducer, Redis, SqlConnector, Connector, Consistent, Runs, Answers, RunsForever,
         Template
<1>4. /\ Consistent(HttpClient)
      /\ Consistent(DbWriter)
  BY DEF HttpClient, DbWriter, Connector, Consistent, Runs, Answers, RunsForever, Template
<1>5. /\ Consistent(ScyllaDb)
      /\ Consistent(MongoDb)
      /\ Consistent(Nats)
      /\ Consistent(SurrealDb)
  BY DEF ScyllaDb, MongoDb, Nats, SurrealDb, Marketplace, Consistent, Runs, Answers,
         RunsForever, Template
<1>6. /\ Consistent(ClickHouse)
      /\ Consistent(S3)
      /\ Consistent(WebRtc)
      /\ Consistent(RabbitMq)
  BY DEF ClickHouse, S3, WebRtc, RabbitMq, Marketplace, Consistent, Runs, Answers, RunsForever,
         Template
<1> QED
  BY <1>1, <1>2, <1>3, <1>4, <1>5, <1>6 DEF ConnectorCatalogue

(* The operators on streams.                                                 *)
LEMMA StreamConsistent == \A T \in StreamCatalogue : Consistent(T)
<1>1. /\ Consistent(StreamFilter)
      /\ Consistent(StreamMap)
      /\ Consistent(StreamSelect)
  BY DownstreamAnswered DEF StreamFilter, StreamMap, StreamSelect, Operator, Consistent, Runs,
         Answers, RunsForever, Template
<1>2. /\ Consistent(StreamUnion)
      /\ Consistent(StreamJoin)
  BY DownstreamAnswered DEF StreamUnion, StreamJoin, Operator, Consistent, Runs, Answers,
         RunsForever, Template
<1>3. /\ Consistent(StreamWindow)
      /\ Consistent(StreamPattern)
  BY DownstreamAnswered DEF StreamWindow, StreamPattern, Operator, Consistent, Runs, Answers,
         RunsForever, Template
<1> QED
  BY <1>1, <1>2, <1>3 DEF StreamCatalogue

(* The blocks of the language.                                               *)
LEMMA LanguageConsistent == \A T \in LanguageCatalogue : Consistent(T)
<1>1. /\ Consistent(LanguageStruct)
      /\ Consistent(LanguageEnum)
  BY DEF LanguageStruct, LanguageEnum, TypeDefinition, Consistent, Runs, Answers, RunsForever,
         Template
<1>2. Consistent(LanguageFn)
  BY DEF LanguageFn, Consistent, Runs, Answers, RunsForever, Template
<1>3. /\ Consistent(LanguageIfElse)
      /\ Consistent(LanguageMatch)
      /\ Consistent(LanguageLoop)
  BY DEF LanguageIfElse, LanguageMatch, LanguageLoop, Expression, LanguageFn, Consistent, Runs,
         Answers, RunsForever, Template
<1>4. /\ Consistent(LanguageClone)
      /\ Consistent(LanguagePropagate)
  BY DEF LanguageClone, LanguagePropagate, Expression, LanguageFn, Consistent, Runs, Answers,
         RunsForever, Template
<1>5. /\ Consistent(LanguageAwait)
      /\ Consistent(LanguagePointer)
  BY DEF LanguageAwait, LanguagePointer, Expression, LanguageFn, Consistent, Runs, Answers,
         RunsForever, Template
<1> QED
  BY <1>1, <1>2, <1>3, <1>4, <1>5 DEF LanguageCatalogue

(* The helpers of tokio.                                                     *)
LEMMA TokioConsistent == \A T \in TokioCatalogue : Consistent(T)
<1>1. /\ Consistent(TokioMpsc)
      /\ Consistent(TokioBroadcast)
      /\ Consistent(TokioMutex)
      /\ Consistent(TokioRwLock)
  BY DEF TokioMpsc, TokioBroadcast, TokioMutex, TokioRwLock, Helper, Consistent, Runs, Answers,
         RunsForever, Template
<1>2. /\ Consistent(TokioInterval)
      /\ Consistent(TokioSemaphore)
      /\ Consistent(TokioSpawn)
      /\ Consistent(TokioSpawnBlocking)
  BY DEF TokioInterval, TokioSemaphore, TokioSpawn, TokioSpawnBlocking, Helper, Consistent,
         Runs, Answers, RunsForever, Template
<1>3. /\ Consistent(TokioSelect)
      /\ Consistent(TokioJoin)
      /\ Consistent(TokioSleep)
      /\ Consistent(TokioNotify)
  BY DEF TokioSelect, TokioJoin, TokioSleep, TokioNotify, Helper, Consistent, Runs, Answers,
         RunsForever, Template
<1> QED
  BY <1>1, <1>2, <1>3 DEF TokioCatalogue

(* The custom blocks, WebAssembly and gRPC.                                  *)
LEMMA PluginConsistent == \A T \in PluginCatalogue : Consistent(T)
<1>1. /\ Consistent(CustomBlock)
      /\ Consistent(WasmRunner)
      /\ Consistent(GrpcClient)
  BY DEF CustomBlock, WasmRunner, GrpcClient, Consistent, Runs, Answers, RunsForever, Template
<1>2. Consistent(GrpcServer)
  BY DEF GrpcServer, Call, Answered, Consistent, Runs, Answers, RunsForever, Template
<1> QED
  BY <1>1, <1>2 DEF PluginCatalogue

(* ... and so is every template that is registered.                          *)
LEMMA AllConsistent == \A T \in Registry : Consistent(T)
BY CoreConsistent, ConnectorConsistent, StreamConsistent, LanguageConsistent, TokioConsistent,
   PluginConsistent
DEF Registry

(* What those that are called have in common: a file that is called like     *)
(* they are, and a function of their own.                                    *)
Named(T, dir, fn, args, sends) ==
    /\ T.dir = dir /\ T.prefix = "" /\ T.stem # "id" /\ T.fn = fn /\ T.args = args /\ ~T.wired
    /\ T.sends = sends

(* A registered template that has the id of one is that one.                 *)
LEMMA ByItsId ==
  ASSUME NEW S \in Registry, NEW T \in Registry, S.id = T.id
  PROVE  S = T
BY RegistryAssumption DEF UniqueIds

(* The templates that are called.                                            *)
LEMMA Called ==
  ASSUME NEW T \in Registry
  PROVE  /\ T.id = "core.service" =>
              Named(T, "services", OwnName, 0, {}) /\ T.variants = {"plain", "code"}
         /\ T.id = "integration.db_writer" => Named(T, "integrations", "execute", 1, {})
         /\ T.id = "integration.http_client" => Named(T, "integrations", "send_request", 1, {})
         /\ T.id = "custom.block" => Named(T, "functions", OwnName, 1, {})
         /\ T.id = "language.fn" => T.ins = {} /\ T.outs = {}
<1>1. T.id = "core.service" => T = CoreService
  <2>1. CoreService \in Registry
    BY DEF Registry, CoreCatalogue
  <2>2. CoreService.id = "core.service"
    BY DEF CoreService, Template
  <2> QED
    BY <2>1, <2>2, ByItsId
<1>2. T.id = "integration.db_writer" => T = DbWriter
  <2>1. DbWriter \in Registry
    BY DEF Registry, ConnectorCatalogue
  <2>2. DbWriter.id = "integration.db_writer"
    BY DEF DbWriter, Connector, Template
  <2> QED
    BY <2>1, <2>2, ByItsId
<1>3. T.id = "integration.http_client" => T = HttpClient
  <2>1. HttpClient \in Registry
    BY DEF Registry, ConnectorCatalogue
  <2>2. HttpClient.id = "integration.http_client"
    BY DEF HttpClient, Connector, Template
  <2> QED
    BY <2>1, <2>2, ByItsId
<1>4. T.id = "custom.block" => T = CustomBlock
  <2>1. CustomBlock \in Registry
    BY DEF Registry, PluginCatalogue
  <2>2. CustomBlock.id = "custom.block"
    BY DEF CustomBlock, Template
  <2> QED
    BY <2>1, <2>2, ByItsId
<1>5. T.id = "language.fn" => T = LanguageFn
  <2>1. LanguageFn \in Registry
    BY DEF Registry, LanguageCatalogue
  <2>2. LanguageFn.id = "language.fn"
    BY DEF LanguageFn, Template
  <2> QED
    BY <2>1, <2>2, ByItsId
<1>6. Named(CoreService, "services", OwnName, 0, {}) /\ CoreService.variants = {"plain", "code"}
  BY DEF CoreService, Template, Named
<1>7. /\ Named(DbWriter, "integrations", "execute", 1, {})
      /\ Named(HttpClient, "integrations", "send_request", 1, {})
  BY DEF DbWriter, HttpClient, Connector, Template, Named
<1>8. Named(CustomBlock, "functions", OwnName, 1, {}) /\ LanguageFn.ins = {} /\ LanguageFn.outs = {}
  BY DEF CustomBlock, LanguageFn, Template, Named
<1> QED
  BY <1>1, <1>2, <1>3, <1>4, <1>5, <1>6, <1>7, <1>8

(* The stream operators, as they are called.                                 *)
LEMMA StreamCalled ==
  ASSUME NEW T \in Registry, T.id \in Streams
  PROVE  /\ T.dir = "streams" /\ T.prefix = "" /\ T.stem # "id" /\ T.sends = StreamSends(T.id)
<1> DEFINE Is(S) == /\ S.dir = "streams" /\ S.prefix = "" /\ S.stem # "id"
                    /\ S.sends = StreamSends(S.id)
<1>1. \E S \in StreamCatalogue : S.id = T.id
  <2>1. /\ StreamFilter.id = "stream.filter" /\ StreamMap.id = "stream.map"
        /\ StreamSelect.id = "stream.select"
    BY DEF StreamFilter, StreamMap, StreamSelect, Operator, Template
  <2>2. /\ StreamUnion.id = "stream.union" /\ StreamJoin.id = "stream.join"
    BY DEF StreamUnion, StreamJoin, Operator, Template
  <2>3. /\ StreamWindow.id = "stream.window" /\ StreamPattern.id = "stream.pattern"
    BY DEF StreamWindow, StreamPattern, Operator, Template
  <2> QED
    BY <2>1, <2>2, <2>3 DEF Streams, StreamCatalogue
<1>2. PICK S \in StreamCatalogue : S.id = T.id
  BY <1>1
<1>3. S = T
  BY <1>2, ByItsId DEF Registry
<1>4. Is(StreamFilter) /\ Is(StreamMap) /\ Is(StreamSelect)
  BY DEF StreamFilter, StreamMap, StreamSelect, Operator, Template, StreamSends
<1>5. Is(StreamUnion) /\ Is(StreamJoin)
  BY DEF StreamUnion, StreamJoin, Operator, Template, StreamSends
<1>6. Is(StreamWindow) /\ Is(StreamPattern)
  BY DEF StreamWindow, StreamPattern, Operator, Template, StreamSends
<1>7. \A x \in StreamCatalogue : Is(x)
  BY <1>4, <1>5, <1>6 DEF StreamCatalogue
<1> QED
  BY <1>3, <1>7

(* What a call finds: the file of its target.                                *)
LEMMA CallIsAnswered ==
  ASSUME NEW g, NEW c, Answered(c), NEW n, n.t \in Registry, n.t.id = c.t, Agreed(c, n),
         n.var \in n.t.variants, c.t # "language.fn"
  PROVE  LET name == Spelled(c, n.name)
         IN  /\ Emits(n) /\ File(n) = <<c.dir, <<"", name>>>>
             /\ <<IF c.fn = OwnName THEN name ELSE c.fn, c.args>> \in Exports(g, n)
<1> DEFINE T == n.t
           name == Spelled(c, n.name)
<1>1. n.name = "job" /\ name = "job" /\ n.name # Absent /\ Snake(n.name) = "job"
  BY DEF Agreed, SnakeNames, Spelled, Lower, Snake, Absent
<1>2. ASSUME T.prefix = "", T.stem # "id", T.dir = c.dir, c.dir # ""
      PROVE  Emits(n) /\ File(n) = <<c.dir, <<"", name>>>>
  <2>1. Key(n) = "job"
    BY <1>1, <1>2 DEF Key
  <2> QED
    BY <1>1, <1>2, <2>1 DEF Emits, File, ModuleName
<1>3. ASSUME ~T.wired, T.fn # ""
      PROVE  <<IF T.fn # OwnName THEN T.fn ELSE IF n.var = "execute" THEN "execute" ELSE n.name,
               T.args>> \in Exports(g, n)
  BY <1>3 DEF Exports
<1>4. \A s \in T.sends : <<s, 1>> \in Exports(g, n)
  BY DEF Exports
<1>5. "send" # OwnName /\ "send1" # OwnName /\ "send2" # OwnName /\ "send_left" # OwnName
      /\ "send_right" # OwnName /\ "execute" # OwnName /\ "send_request" # OwnName /\ OwnName # ""
  BY DEF OwnName
<1> DEFINE fn == IF c.fn = OwnName THEN name ELSE c.fn
<1>6. CASE c.t = "core.service"
  <2>1. Named(T, "services", OwnName, 0, {}) /\ T.variants = {"plain", "code"}
    BY <1>6, Called
  <2>2. c.dir = "services" /\ c.fn = OwnName /\ c.args = 0
    BY <1>6 DEF Answered, Agreed, Streams
  <2>3. n.var # "execute"
    BY <2>1
  <2> QED
    BY <1>1, <1>2, <1>3, <1>5, <2>1, <2>2, <2>3 DEF Named
<1>7. CASE c.t = "integration.db_writer"
  <2>1. Named(T, "integrations", "execute", 1, {})
    BY <1>7, Called
  <2>2. c.dir = "integrations" /\ c.fn = "execute" /\ c.args = 1
    BY <1>7 DEF Answered, Streams
  <2> QED
    BY <1>2, <1>3, <1>5, <2>1, <2>2 DEF Named
<1>8. CASE c.t = "integration.http_client"
  <2>1. Named(T, "integrations", "send_request", 1, {})
    BY <1>8, Called
  <2>2. c.dir = "integrations" /\ c.fn = "send_request" /\ c.args = 1
    BY <1>8 DEF Answered, Streams
  <2> QED
    BY <1>2, <1>3, <1>5, <2>1, <2>2 DEF Named
<1>9. CASE c.t = "custom.block"
  <2>1. Named(T, "functions", OwnName, 1, {})
    BY <1>9, Called
  <2>2. c.dir = "functions" /\ c.args = 1
    BY <1>9 DEF Answered, Streams
  <2>3. c.fn = IF n.var = "execute" THEN "execute" ELSE OwnName
    BY <1>9 DEF Agreed
  <2> QED
    BY <1>1, <1>2, <1>3, <1>5, <2>1, <2>2, <2>3 DEF Named
<1>10. CASE c.t \in Streams
  <2>1. T.dir = "streams" /\ T.prefix = "" /\ T.stem # "id" /\ T.sends = StreamSends(c.t)
    BY <1>10, StreamCalled
  <2>2. c.dir = "streams" /\ c.fn \in StreamSends(c.t) /\ c.args = 1
    BY <1>10 DEF Answered, Streams
  <2>3. c.fn # OwnName
    BY <1>5, <2>2 DEF StreamSends
  <2> QED
    BY <1>2, <1>4, <2>1, <2>2, <2>3
<1> QED
  BY <1>6, <1>7, <1>8, <1>9, <1>10 DEF Answered

(* The calls of a valid graph are to nodes of it, and none is to a function  *)
(* of the language: no edge leads there.                                     *)
LEMMA CallsAreOfTheGraph ==
  ASSUME NEW g, Savable(g), NEW n \in NodesOf(g), NEW x \in CallsOf(g, n)
  PROVE  /\ Answered(x[1]) /\ x[2] \in NodesOf(g) /\ x[2].t \in Registry /\ x[2].t.id = x[1].t
         /\ x[1].t # "language.fn"
<1>1. \A m \in NodesOf(g) : m.t \in Registry
  BY DEF Savable, ConfigValid
<1>2. \A c \in n.t.calls \cup n.t.pulls : Answered(c)
  BY <1>1, AllConsistent DEF Consistent, Answers
<1>3. ASSUME NEW e \in g.edges
      PROVE  /\ NodeOf(g, e.s) \in NodesOf(g) /\ NodeOf(g, e.d) \in NodesOf(g)
             /\ PortSpecs(NodeOf(g, e.s)).outs # {} /\ PortSpecs(NodeOf(g, e.d)).ins # {}
  BY DEF Savable, ValidateGraph, HasNode, NodeOf
<1>4. ASSUME NEW m \in NodesOf(g), m.t.id = "language.fn"
      PROVE  PortSpecs(m).ins = {} /\ PortSpecs(m).outs = {}
  <2>1. m.t.ins = {} /\ m.t.outs = {}
    BY <1>1, <1>4, Called
  <2> QED
    BY <1>4, <2>1 DEF PortSpecs
<1>5. CASE \E c \in n.t.calls, e \in g.edges :
             x = <<c, NodeOf(g, e.d)>> /\ NodeOf(g, e.d).t.id = c.t
  BY <1>1, <1>2, <1>3, <1>4, <1>5
<1>6. CASE \E c \in n.t.pulls, e \in g.edges :
             x = <<c, NodeOf(g, e.s)>> /\ NodeOf(g, e.s).t.id = c.t
  BY <1>1, <1>2, <1>3, <1>4, <1>6
<1> QED
  BY <1>5, <1>6 DEF CallsOf

(* Where each node has a file of its own, it is the last to write it.        *)
LEMMA OwnFile ==
  ASSUME NEW g, IsGraph(g), OneFileEach(g), NEW n \in NodesOf(g), Emits(n)
  PROVE  LastWith(g, File(n)) = n
<1> DEFINE S == {m \in NodesOf(g) : Emits(m) /\ File(m) = File(n)}
           here == Those(g.nodes, S)
<1>1. g.nodes \in Seq(NodesOf(g)) /\ DOMAIN g.nodes = 1..Len(g.nodes)
  BY DEF IsGraph
<1>2. S \subseteq {n}
  BY DEF OneFileEach, NodesOf
<1>3. n \in S
  OBVIOUS
<1>4. PICK k \in 1..Len(g.nodes) : g.nodes[k] = n
  BY <1>1 DEF NodesOf
<1>5. LastWith(g, File(n)) = here[Len(here)]
  BY DEF LastWith
<1> HIDE DEF S
<1>6. /\ here \in Seq(NodesOf(g)) /\ \A i \in 1..Len(here) : here[i] \in S
      /\ \E i \in 1..Len(here) : here[i] = n
  BY <1>1, <1>3, <1>4, ThoseMembers
<1> HIDE DEF here
<1>7. Len(here) \in 1..Len(here)
  BY <1>6
<1> QED
  BY <1>2, <1>5, <1>6, <1>7

(* A task that main.rs spawns is there.                                      *)
LEMMA SpawnsRun ==
  ASSUME OutputIsCurrent, last = "ok", IsGraph(graph), Registered(graph), OneFileEach(graph),
         NEW i \in DOMAIN disk.main.spawns
  PROVE  <<"run", 0>> \in disk.modules[disk.main.spawns[i]]
<1>1. disk.main.spawns[i] \in {File(n) : n \in {m \in NodesOf(graph) : Emits(m) /\ RunsForever(m.t)}}
  BY DEF OutputIsCurrent, Range
<1>2. PICK n \in NodesOf(graph) :
           Emits(n) /\ RunsForever(n.t) /\ disk.main.spawns[i] = File(n)
  BY <1>1
<1>3. disk.modules[File(n)] = Exports(graph, n)
  BY <1>2, OwnFile DEF OutputIsCurrent
<1>4. n.t.fn = "run" /\ n.t.args = 0 /\ ~n.t.wired
  BY <1>2, AllConsistent DEF Consistent, Runs, Registered
<1>5. <<"run", 0>> \in Exports(graph, n)
  BY <1>4 DEF Exports, OwnName
<1> QED
  BY <1>2, <1>3, <1>5

(* Every config is one of the variants that its template tells apart.        *)
VariantsInv == \A n \in NodesOf(graph) : n.var \in n.t.variants

(* An edit of the graph brings nodes of the palette only.                    *)
LEMMA EditsKeepVariants ==
  ASSUME IsGraph(graph), VariantsInv, AddNode \/ RemoveNode \/ Connect \/ Disconnect
  PROVE  VariantsInv'
<1>0. /\ graph = [nodes |-> graph.nodes, edges |-> graph.edges]
      /\ graph.nodes \in Seq(NodesOf(graph))
  BY DEF IsGraph
<1>1. CASE AddNode
  <2>1. PICK n \in Palette : graph' = [graph EXCEPT !.nodes = Append(@, n)]
    BY <1>1 DEF AddNode, Save
  <2>2. graph'.nodes = Append(graph.nodes, n)
    BY <1>0, <2>1
  <2>3. n.var \in n.t.variants
    BY VariantsAssumption
  <2>4. ASSUME NEW i \in DOMAIN graph'.nodes
        PROVE  graph'.nodes[i].var \in graph'.nodes[i].t.variants
    <3> DEFINE old == graph.nodes
               new == Append(old, n)
    <3>1. /\ i \in 1..(Len(old) + 1) /\ Len(old) \in Nat /\ new[Len(old) + 1] = n
          /\ \A j \in 1..Len(old) : new[j] = old[j]
      BY <1>0, <2>2, <2>4
    <3>2. \A j \in 1..Len(old) : old[j] \in NodesOf(graph)
      BY <1>0 DEF NodesOf
    <3> HIDE DEF old
    <3>3. CASE i = Len(old) + 1
      BY <2>2, <2>3, <3>1, <3>3 DEF old
    <3>4. CASE i \in 1..Len(old)
      <4>1. new[i] = old[i] /\ old[i] \in NodesOf(graph)
        BY <3>1, <3>2, <3>4
      <4> QED
        BY <2>2, <4>1 DEF VariantsInv, old
    <3> QED
      BY <3>1, <3>3, <3>4
  <2> QED
    BY <2>4 DEF VariantsInv, NodesOf
<1>2. CASE RemoveNode
  <2> DEFINE rest(n) == NodesOf(graph) \ {n}
  <2> DEFINE keep(n) == {e \in graph.edges : n.id \notin {e.s, e.d}}
             kept(n) == Those(graph.nodes, rest(n))
  <2>1. PICK n \in NodesOf(graph) : graph'.nodes = kept(n)
    <3>1. \E n \in NodesOf(graph) : graph' = [nodes |-> kept(n), edges |-> keep(n)]
      BY <1>2 DEF RemoveNode, Save
    <3> HIDE DEF keep, kept
    <3> QED
      BY <3>1
  <2> DEFINE S == rest(n)
             new == Those(graph.nodes, S)
  <2>2. S \subseteq NodesOf(graph)
    OBVIOUS
  <2> HIDE DEF S
  <2>3. new \in Seq(NodesOf(graph)) /\ \A i \in 1..Len(new) : new[i] \in S
    BY <1>0, ThoseMembers
  <2>4. graph'.nodes = new
    BY <2>1 DEF S
  <2> HIDE DEF new
  <2>5. NodesOf(graph)' \subseteq NodesOf(graph)
    BY <2>2, <2>3, <2>4 DEF NodesOf
  <2> QED
    BY <2>5 DEF VariantsInv
<1>3. CASE Connect \/ Disconnect
  <2>1. graph'.nodes = graph.nodes
    BY <1>0, <1>3 DEF Connect, Disconnect, Save
  <2> QED
    BY <2>1 DEF VariantsInv, NodesOf
<1> QED
  BY <1>1, <1>2, <1>3

(* Cargo.toml has what the sources name.                                     *)
LEMMA CratesAreThere ==
  ASSUME IsGraph(graph), Registered(graph), VariantsInv, disk.cargo = Cargo(graph),
         NEW n \in NodesOf(graph)
  PROVE  /\ CratesOf(n) \subseteq disk.cargo
         /\ HasRoutes(graph) => WebCrate(graph) \in disk.cargo
<1> DEFINE g == graph
           entries == OfType(g, "core.entry_point")
<1>1. CratesOf(n) \subseteq Cargo(g)
  BY DEF Cargo
<1>2. EntryFramework(g) \in {"axum", "actix"}
  <2>1. CASE entries = <<>>
    BY <2>1 DEF EntryFramework
  <2>2. CASE entries # <<>>
    <3> DEFINE S == {m \in NodesOf(g) : m.t.id = "core.entry_point"}
               here == Those(g.nodes, S)
    <3>1. entries = here
      BY DEF OfType
    <3> HIDE DEF S
    <3>2. here \in Seq(NodesOf(g)) /\ \A i \in 1..Len(here) : here[i] \in S
      BY ThoseMembers DEF IsGraph
    <3> HIDE DEF here, entries
    <3>3. here[1] \in S
      BY <2>2, <3>1, <3>2
    <3>4. here[1].t.id = "core.entry_point" /\ here[1].t \in Registry
          /\ here[1].var \in here[1].t.variants
      BY <3>3 DEF S, Registered, VariantsInv
    <3>5. EntryPoint \in Registry /\ EntryPoint.id = "core.entry_point"
          /\ EntryPoint.variants = {"axum", "actix"}
      BY DEF Registry, CoreCatalogue, EntryPoint, Template
    <3>6. here[1].t = EntryPoint
      BY <3>4, <3>5, ByItsId
    <3>7. EntryFramework(g) = here[1].var
      BY <2>2, <3>1 DEF EntryFramework, entries
    <3> QED
      BY <3>4, <3>5, <3>6, <3>7
  <2> QED
    BY <2>1, <2>2
<1>3. HasRoutes(g) => WebCrate(g) \in Cargo(g)
  <2> SUFFICES ASSUME HasRoutes(g) PROVE WebCrate(g) \in Cargo(g)
    OBVIOUS
  <2>1. Framework(g) = EntryFramework(g)
    BY DEF Framework
  <2>2. Framework(g) = "axum" => "axum" \in Cargo(g)
    BY DEF Cargo
  <2>3. Framework(g) = "actix" => "actix-web" \in Cargo(g)
    BY DEF Cargo
  <2> QED
    BY <1>2, <2>1, <2>2, <2>3 DEF WebCrate
<1> QED
  BY <1>1, <1>3

(* What one template calls, another exports, with as many arguments, and     *)
(* the crates of all are declared: for every graph that a session saves, and *)
(* the crates for those that are imported too.                               *)
THEOREM TemplatesStayInAgreement == Spec => []TemplatesAgree
<1>1. Init => VariantsInv
  BY VariantsAssumption DEF Init, VariantsInv
<1>2. TextInv /\ VariantsInv /\ [Next]_vars => VariantsInv'
  <2> SUFFICES ASSUME TextInv, VariantsInv, [Next]_vars PROVE VariantsInv'
    OBVIOUS
  <2>1. CASE AddNode \/ RemoveNode \/ Connect \/ Disconnect
    BY <2>1, EditsKeepVariants DEF TextInv
  <2>2. CASE ChangePackages \/ ChangeMarket \/ HandEdit \/ Generate \/ Crash
    BY <2>2 DEF ChangePackages, ChangeMarket, HandEdit, Generate, Crash, VariantsInv
  <2>3. CASE UNCHANGED vars
    BY <2>3 DEF vars, VariantsInv
  <2> QED
    BY <2>1, <2>2, <2>3 DEF Next
<1>3. GraphInv /\ SettledInv /\ VariantsInv /\ OutputIsCurrent => TemplatesAgree
  <2> SUFFICES ASSUME GraphInv, SettledInv, VariantsInv, OutputIsCurrent, last = "ok"
               PROVE  TemplatesAgree
    BY DEF TemplatesAgree, CallsResolve, DependenciesDeclared
  <2>1. IsGraph(graph) /\ Registered(graph) /\ disk.cargo = Cargo(graph)
    BY DEF GraphInv, SettledInv, Settled
  <2>2. DependenciesDeclared
    BY <2>1, CratesAreThere DEF DependenciesDeclared
  <2>3. ASSUME saved, OneFileEach(graph), NEW n \in NodesOf(graph), NEW x \in CallsOf(graph, n),
               Agreed(x[1], x[2])
        PROVE  <<IF x[1].fn = OwnName THEN Spelled(x[1], x[2].name) ELSE x[1].fn, x[1].args>>
                 \in disk.modules[<<x[1].dir, <<"", Spelled(x[1], x[2].name)>>>>]
    <3> DEFINE c == x[1]
               m == x[2]
    <3>1. /\ Answered(c) /\ m \in NodesOf(graph) /\ m.t \in Registry /\ m.t.id = c.t
          /\ c.t # "language.fn"
      BY <2>3, CallsAreOfTheGraph DEF GraphInv
    <3>2. m.var \in m.t.variants
      BY <3>1 DEF VariantsInv
    <3>3. /\ Emits(m) /\ File(m) = <<c.dir, <<"", Spelled(c, m.name)>>>>
          /\ <<IF c.fn = OwnName THEN Spelled(c, m.name) ELSE c.fn, c.args>> \in Exports(graph, m)
      BY <2>3, <3>1, <3>2, CallIsAnswered
    <3>4. disk.modules[File(m)] = Exports(graph, m)
      BY <2>1, <2>3, <3>1, <3>3, OwnFile DEF OutputIsCurrent
    <3> QED
      BY <3>3, <3>4
  <2>4. CallsResolve
    BY <2>1, <2>3, SpawnsRun DEF CallsResolve
  <2> QED
    BY <2>2, <2>4 DEF TemplatesAgree
<1> QED
  BY <1>1, <1>2, <1>3, SessionsKeepTexts, SavedGraphsAreSavable, GenerationsSettle,
     OutputStaysCurrent, PTL DEF Spec
=============================================================================
