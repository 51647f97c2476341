---------------------------- MODULE PackageTreeProofs ----------------------------
(***************************************************************************)
(* What holds of PackageTree for any number of requests, slugs and         *)
(* packages: the tree on disk is always valid, with overlapping requests   *)
(* and crashes; and one request after the other, folders and graphs follow *)
(* their packages.                                                         *)
(***************************************************************************)
EXTENDS PackageTree, FiniteSetTheorems, WellFoundedInduction, TLAPS

-----------------------------------------------------------------------------
(* Induction: a set that holds 0 and, with every number, the next one, holds all. *)
LEMMA NatBySets ==
  ASSUME NEW T, 0 \in T, \A n \in Nat : n \in T => n + 1 \in T
  PROVE  Nat \subseteq T
<1> DEFINE Less == {p \in Nat \X Nat : p[1] < p[2]}
           Rest == Nat \ T
<1>1. SUFFICES ASSUME Rest # {} PROVE FALSE
  OBVIOUS
<1>2. IsWellFoundedOn(Less, Nat)
  <2>1. OpToRel(<, Nat) = Less
    BY Zenon DEF OpToRel
  <2> HIDE DEF Less
  <2> QED
    BY <2>1, NatLessThanWellFounded, Zenon
<1>3. PICK x \in Rest : \A y \in Rest : <<y, x>> \notin Less
  <2>1. Rest \subseteq Nat
    OBVIOUS
  <2> HIDE DEF Less, Rest
  <2> QED
    BY <1>1, <1>2, <2>1, WFMin
<1>4. x - 1 \in Nat /\ x - 1 \notin T
  OBVIOUS
<1>5. <<x - 1, x>> \in Less
  BY <1>4
<1> QED
  BY <1>3, <1>4, <1>5

(* A function may be defined by its value at 0 and its step from n - 1 to n. *)
LEMMA NatRecursion ==
  ASSUME NEW V, NEW base \in V, NEW N \in Nat, NEW step \in [1..N -> [V -> V]]
  PROVE  \E f \in [0..N -> V] : f[0] = base /\ \A n \in 1..N : f[n] = step[n][f[n - 1]]
<1> DEFINE Upto(n) == \E f \in [0..n -> V] :
                        f[0] = base /\ \A m \in 1..n : f[m] = step[m][f[m - 1]]
           T == {n \in Nat : n <= N => Upto(n)}
<1>1. 0 \in T
  <2> DEFINE f == [m \in 0..0 |-> base]
  <2>1. f \in [0..0 -> V] /\ f[0] = base /\ \A m \in 1..0 : f[m] = step[m][f[m - 1]]
    OBVIOUS
  <2>2. Upto(0)
    <3> HIDE DEF f
    <3> QED
      BY <2>1
  <2> QED
    BY <2>2
<1>2. ASSUME NEW n \in Nat, n \in T PROVE n + 1 \in T
  <2>1. SUFFICES ASSUME n + 1 <= N PROVE Upto(n + 1)
    OBVIOUS
  <2>2. PICK f \in [0..n -> V] : f[0] = base /\ \A m \in 1..n : f[m] = step[m][f[m - 1]]
    BY <1>2, <2>1
  <2> DEFINE g == [m \in 0..(n + 1) |-> IF m = n + 1 THEN step[n + 1][f[n]] ELSE f[m]]
  <2>3. g \in [0..(n + 1) -> V]
    <3>1. step[n + 1][f[n]] \in V
      <4>1. n + 1 \in 1..N /\ f[n] \in V
        BY <2>1, <2>2
      <4> QED
        BY <4>1
    <3> QED
      BY <2>2, <3>1
  <2>4. g[0] = base
    BY <2>2
  <2>5. \A m \in 1..(n + 1) : g[m] = step[m][g[m - 1]]
    <3> SUFFICES ASSUME NEW m \in 1..(n + 1) PROVE g[m] = step[m][g[m - 1]]
      OBVIOUS
    <3>1. CASE m = n + 1
      BY <3>1
    <3>2. CASE m \in 1..n
      BY <2>2, <3>2
    <3> QED
      BY <3>1, <3>2
  <2> HIDE DEF g
  <2> QED
    BY <2>3, <2>4, <2>5
<1>3. N \in T
  <2> HIDE DEF T
  <2> QED
    BY <1>1, <1>2, NatBySets
<1> QED
  BY <1>3

(* Min is the least number of a set of naturals.                             *)
LEMMA LeastNat ==
  ASSUME NEW I \in SUBSET Nat, I # {}
  PROVE  Min(I) \in I /\ \A i \in I : Min(I) <= i
<1> DEFINE T == {n \in Nat : (\E i \in I : i <= n) => \E m \in I : \A i \in I : m <= i}
<1>1. 0 \in T
  OBVIOUS
<1>2. ASSUME NEW n \in Nat, n \in T PROVE n + 1 \in T
  BY <1>2
<1>3. Nat \subseteq T
  <2> HIDE DEF T
  <2> QED
    BY <1>1, <1>2, NatBySets
<1>4. PICK m \in I : \A i \in I : m <= i
  <2>1. PICK i \in I : i \in T
    BY <1>3
  <2> QED
    BY <2>1
<1> QED
  BY <1>4 DEF Min

(* The ids of the packages right below those with the given ids. *)
ChildIds(ps, ids) == {p.id : p \in {q \in ToSet(ps) : q.parent \in ids}}

-----------------------------------------------------------------------------
(* What the elements of a list of packages are.                              *)
LEMMA Docs ==
  ASSUME NEW ps \in Seq(PackageDoc)
  PROVE  /\ Len(ps) \in Nat /\ DOMAIN ps = 1..Len(ps)
         /\ \A i \in 1..Len(ps) : ps[i] \in PackageDoc
         /\ ToSet(ps) = {ps[i] : i \in 1..Len(ps)}
         /\ ToSet(ps) \subseteq PackageDoc
BY DEF ToSet

(* The children are packages of the list.                                    *)
LEMMA ChildIdsType ==
  ASSUME NEW ps \in Seq(PackageDoc), NEW X
  PROVE  ChildIds(ps, X) \subseteq IdsOf(ps) /\ IdsOf(ps) \subseteq Ids
<1>1. \A p \in PackageDoc : p.id \in Ids
  BY DEF PackageDoc
<1> QED
  BY <1>1, Docs DEF ChildIds, IdsOf

(* Below is the last of Len(ps) rounds, each of which adds the children.     *)
LEMMA BelowRounds ==
  ASSUME NEW ps \in Seq(PackageDoc), NEW ids \in SUBSET Ids
  PROVE  \E D \in [0..Len(ps) -> SUBSET Ids] :
           /\ D[0] = ids
           /\ \A n \in 1..Len(ps) : D[n] = D[n - 1] \cup ChildIds(ps, D[n - 1])
           /\ Below(ps, ids) = D[Len(ps)]
<1> DEFINE V    == SUBSET Ids
           N    == Len(ps)
           More(X) == X \cup {p.id : p \in {q \in ToSet(ps) : q.parent \in X}}
           step == [n \in 1..N |-> [X \in V |-> More(X)]]
           Body(D) == [n \in 0..N |-> IF n = 0 THEN ids ELSE More(D[n - 1])]
           D    == CHOOSE D : D = Body(D)
<1>1. \A X \in V : More(X) \in V
  BY ChildIdsType DEF ChildIds
<1>2. step \in [1..N -> [V -> V]]
  <2> HIDE DEF More, V
  <2> QED
    BY <1>1
<1>3. PICK f \in [0..N -> V] : f[0] = ids /\ \A n \in 1..N : f[n] = step[n][f[n - 1]]
  <2>1. N \in Nat /\ ids \in V
    OBVIOUS
  <2> HIDE DEF step, V, N
  <2> QED
    BY <1>2, <2>1, NatRecursion
<1>4. \A n \in 1..N : f[n] = More(f[n - 1])
  <2> HIDE DEF More, V
  <2> QED
    BY <1>3
<1>5. f = Body(f)
  <2> HIDE DEF More, V
  <2> QED
    BY <1>3, <1>4
<1>6. D = Body(D)
  <2> HIDE DEF Body
  <2> QED
    BY <1>5
<1>7. D[0] = ids /\ \A n \in 1..N : D[n] = More(D[n - 1])
  <2> HIDE DEF D, More
  <2>1. D = [n \in 0..N |-> IF n = 0 THEN ids ELSE More(D[n - 1])]
    BY <1>6
  <2>2. N \in Nat
    OBVIOUS
  <2> QED
    BY <2>1, <2>2
<1>8. D \in [0..N -> V]
  <2> DEFINE T == {n \in Nat : n <= N => D[n] \in V}
  <2> HIDE DEF D, More, V
  <2>1. 0 \in T
    BY <1>7 DEF V
  <2>2. ASSUME NEW n \in Nat, n \in T PROVE n + 1 \in T
    BY <1>1, <1>7, <2>2
  <2>3. Nat \subseteq T
    <3> HIDE DEF T
    <3> QED
      BY <2>1, <2>2, NatBySets
  <2> QED
    BY <1>6, <2>3
<1>9. Below(ps, ids) = D[N]
  BY DEF Below
<1> QED
  <2> HIDE DEF D
  <2> QED
    BY <1>7, <1>8, <1>9 DEF ChildIds

(* Below is within every set that holds ids and is closed downwards.         *)
LEMMA BelowLeast ==
  ASSUME NEW ps \in Seq(PackageDoc), NEW ids \in SUBSET Ids, NEW X,
         ids \subseteq X, ChildIds(ps, X) \subseteq X
  PROVE  Below(ps, ids) \subseteq X
<1>1. PICK D \in [0..Len(ps) -> SUBSET Ids] :
           /\ D[0] = ids
           /\ \A n \in 1..Len(ps) : D[n] = D[n - 1] \cup ChildIds(ps, D[n - 1])
           /\ Below(ps, ids) = D[Len(ps)]
  BY BelowRounds
<1> DEFINE T == {n \in Nat : n <= Len(ps) => D[n] \subseteq X}
<1>2. \A Y : Y \subseteq X => ChildIds(ps, Y) \subseteq X
  BY DEF ChildIds
<1>3. 0 \in T
  BY <1>1
<1>4. ASSUME NEW n \in Nat, n \in T PROVE n + 1 \in T
  BY <1>1, <1>2, <1>4
<1>5. Len(ps) \in T
  <2> HIDE DEF T
  <2> QED
    BY <1>3, <1>4, NatBySets
<1> QED
  BY <1>1, <1>5

(* There are no more ids than packages.                                      *)
LEMMA FewIds ==
  ASSUME NEW ps \in Seq(PackageDoc)
  PROVE  IsFiniteSet(IdsOf(ps)) /\ Cardinality(IdsOf(ps)) <= Len(ps)
<1> DEFINE f == [i \in 1..Len(ps) |-> ps[i].id]
<1>1. f \in Surjection(1..Len(ps), IdsOf(ps))
  BY DEF Surjection, IdsOf, ToSet
<1>2. IsFiniteSet(1..Len(ps)) /\ Cardinality(1..Len(ps)) = Len(ps)
  <2>1. Len(ps) \in Nat
    OBVIOUS
  <2>2. Cardinality(1..Len(ps)) = IF 1 > Len(ps) THEN 0 ELSE Len(ps) - 1 + 1
    BY <2>1, FS_Interval
  <2> QED
    BY <2>1, <2>2, FS_Interval
<1> QED
  <2> HIDE DEF f
  <2> QED
    BY <1>1, <1>2, FS_Surjection

(* Len(ps) rounds are enough: Below holds the children of what it holds. Each *)
(* round that is not yet closed adds an id, and there are no more ids than rounds. *)
LEMMA BelowClosed ==
  ASSUME NEW ps \in Seq(PackageDoc), NEW t \in IdsOf(ps)
  PROVE  /\ t \in Below(ps, {t}) /\ Below(ps, {t}) \subseteq IdsOf(ps)
         /\ ChildIds(ps, Below(ps, {t})) \subseteq Below(ps, {t})
<1>1. {t} \in SUBSET Ids
  BY ChildIdsType
<1>2. PICK D \in [0..Len(ps) -> SUBSET Ids] :
           /\ D[0] = {t}
           /\ \A n \in 1..Len(ps) : D[n] = D[n - 1] \cup ChildIds(ps, D[n - 1])
           /\ Below(ps, {t}) = D[Len(ps)]
  BY <1>1, BelowRounds
<1> DEFINE Closed(X) == ChildIds(ps, X) \subseteq X
           T == {n \in Nat : n <= Len(ps) => /\ t \in D[n] /\ D[n] \subseteq IdsOf(ps)
                                             /\ Closed(D[n]) \/ Cardinality(D[n]) > n}
<1>3. 0 \in T
  <2>1. Cardinality({t}) = 1
    BY FS_Singleton
  <2>2. Cardinality(D[0]) = 1
    BY <1>2, <2>1, Zenon
  <2>3. t \in D[0] /\ D[0] \subseteq IdsOf(ps)
    BY <1>2
  <2> QED
    BY <2>2, <2>3
<1>4. ASSUME NEW n \in Nat, n \in T PROVE n + 1 \in T
  <2>1. SUFFICES ASSUME n + 1 <= Len(ps)
                 PROVE  /\ t \in D[n + 1] /\ D[n + 1] \subseteq IdsOf(ps)
                        /\ Closed(D[n + 1]) \/ Cardinality(D[n + 1]) > n + 1
    OBVIOUS
  <2>2. /\ t \in D[n] /\ D[n] \subseteq IdsOf(ps)
        /\ Closed(D[n]) \/ Cardinality(D[n]) > n
    BY <1>4, <2>1
  <2>3. D[n + 1] = D[n] \cup ChildIds(ps, D[n])
    BY <1>2, <2>1
  <2>4. t \in D[n + 1] /\ D[n + 1] \subseteq IdsOf(ps)
    BY <2>2, <2>3, ChildIdsType
  <2>5. CASE Closed(D[n])
    <3>1. D[n + 1] = D[n]
      BY <2>3, <2>5
    <3> QED
      BY <2>4, <2>5, <3>1
  <2>6. CASE ~Closed(D[n])
    <3>1. IsFiniteSet(D[n]) /\ IsFiniteSet(D[n + 1])
      BY <2>2, <2>4, FewIds, FS_Subset
    <3>2. D[n] \subseteq D[n + 1] /\ D[n] # D[n + 1]
      BY <2>3, <2>6
    <3>3. Cardinality(D[n]) < Cardinality(D[n + 1])
      <4>1. /\ Cardinality(D[n]) <= Cardinality(D[n + 1])
            /\ Cardinality(D[n]) # Cardinality(D[n + 1])
        BY <3>1, <3>2, FS_Subset
      <4> QED
        BY <3>1, <4>1, FS_CardinalityType
    <3> QED
      BY <2>2, <2>4, <2>6, <3>1, <3>3, FS_CardinalityType
  <2> QED
    BY <2>5, <2>6
<1>5. Len(ps) \in T
  <2> HIDE DEF T
  <2> QED
    BY <1>3, <1>4, NatBySets
<1>6. ~(Cardinality(D[Len(ps)]) > Len(ps))
  <2>1. D[Len(ps)] \subseteq IdsOf(ps)
    BY <1>5
  <2>2. Cardinality(D[Len(ps)]) <= Cardinality(IdsOf(ps)) /\ IsFiniteSet(D[Len(ps)])
    BY <2>1, FewIds, FS_Subset
  <2> QED
    BY <2>2, FewIds, FS_CardinalityType
<1>7. /\ t \in D[Len(ps)] /\ D[Len(ps)] \subseteq IdsOf(ps)
      /\ Closed(D[Len(ps)]) \/ Cardinality(D[Len(ps)]) > Len(ps)
  BY <1>5
<1> QED
  BY <1>2, <1>6, <1>7

(* out has the elements of ps, up to its n-th, whose id is none of ids;      *)
(* from tells where each of them was.                                        *)
Keeps(ps, ids, n, out, from) ==
  /\ \A i \in 1..Len(out) : out[i] = ps[from[i]] /\ ps[from[i]].id \notin ids
  /\ \A i, j \in 1..Len(out) : from[i] = from[j] => i = j
  /\ \A k \in 1..n : ps[k].id \notin ids => \E i \in 1..Len(out) : from[i] = k

-----------------------------------------------------------------------------
(* One more package is looked at: it is left out, or it comes last.          *)
LEMMA KeepsOne ==
  ASSUME NEW ps \in Seq(PackageDoc), NEW ids, NEW n \in Nat, n + 1 <= Len(ps),
         NEW out \in Seq(PackageDoc), NEW from \in [1..Len(out) -> 1..n],
         Keeps(ps, ids, n, out, from)
  PROVE  LET next == IF ps[n + 1].id \in ids THEN out ELSE Append(out, ps[n + 1])
         IN  next \in Seq(PackageDoc)
             /\ \E f \in [1..Len(next) -> 1..(n + 1)] : Keeps(ps, ids, n + 1, next, f)
<1>1. CASE ps[n + 1].id \in ids
  <2>1. from \in [1..Len(out) -> 1..(n + 1)]
    OBVIOUS
  <2>2. Keeps(ps, ids, n + 1, out, from)
    BY <1>1 DEF Keeps
  <2> QED
    BY <1>1, <2>1, <2>2
<1>2. CASE ps[n + 1].id \notin ids
  <2> DEFINE next == Append(out, ps[n + 1])
             f == [i \in 1..Len(next) |-> IF i = Len(next) THEN n + 1 ELSE from[i]]
  <2>1. ps[n + 1] \in PackageDoc
    OBVIOUS
  <2>2. /\ next \in Seq(PackageDoc) /\ Len(next) = Len(out) + 1 /\ Len(out) \in Nat
        /\ next[Len(next)] = ps[n + 1] /\ \A i \in 1..Len(out) : next[i] = out[i]
    BY <2>1
  <2>3. f \in [1..Len(next) -> 1..(n + 1)]
    <3> HIDE DEF next
    <3> QED
      BY <2>2
  <2>4. f[Len(next)] = n + 1 /\ \A i \in 1..Len(out) : f[i] = from[i] /\ from[i] \in 1..n
    <3> HIDE DEF next
    <3> QED
      BY <2>2
  <2>5. \A i \in 1..Len(next) : next[i] = ps[f[i]] /\ ps[f[i]].id \notin ids
    <3> HIDE DEF next, f
    <3> QED
      BY <1>2, <2>2, <2>4 DEF Keeps
  <2>6. \A i, j \in 1..Len(next) : f[i] = f[j] => i = j
    <3> HIDE DEF next, f
    <3> SUFFICES ASSUME NEW i \in 1..Len(next), NEW j \in 1..Len(next), f[i] = f[j]
                 PROVE  i = j
      OBVIOUS
    <3>1. \A k \in 1..Len(next) : k = Len(next) \/ k \in 1..Len(out)
      BY <2>2
    <3>2. \A k \in 1..Len(out) : f[k] \in 1..n /\ f[k] # n + 1
      BY <2>4
    <3>3. CASE i \in 1..Len(out) /\ j \in 1..Len(out)
      <4>1. from[i] = from[j]
        BY <2>4, <3>3
      <4> QED
        BY <3>3, <4>1 DEF Keeps
    <3> QED
      BY <2>4, <3>1, <3>2, <3>3
  <2>7. \A k \in 1..(n + 1) : ps[k].id \notin ids => \E i \in 1..Len(next) : f[i] = k
    <3> HIDE DEF next, f
    <3> SUFFICES ASSUME NEW k \in 1..(n + 1), ps[k].id \notin ids
                 PROVE  \E i \in 1..Len(next) : f[i] = k
      OBVIOUS
    <3>1. CASE k = n + 1
      BY <2>2, <2>4, <3>1
    <3>2. CASE k \in 1..n
      <4>1. PICK i \in 1..Len(out) : from[i] = k
        BY <3>2 DEF Keeps
      <4> QED
        BY <2>2, <2>4, <4>1
    <3> QED
      BY <3>1, <3>2
  <2> HIDE DEF f
  <2>8. Keeps(ps, ids, n + 1, next, f)
    BY <2>5, <2>6, <2>7 DEF Keeps
  <2> QED
    BY <1>2, <2>2, <2>3, <2>8
<1> QED
  BY <1>1, <1>2

(* Without keeps the packages that have none of the ids, in their order.     *)
LEMMA WithoutKeeps ==
  ASSUME NEW ps \in Seq(PackageDoc), NEW ids
  PROVE  /\ Without(ps, ids) \in Seq(PackageDoc)
         /\ \E from \in [1..Len(Without(ps, ids)) -> 1..Len(ps)] :
              Keeps(ps, ids, Len(ps), Without(ps, ids), from)
<1> DEFINE V    == Seq(PackageDoc)
           N    == Len(ps)
           Next1(n, out) == IF ps[n].id \in ids THEN out ELSE Append(out, ps[n])
           step == [n \in 1..N |-> [out \in V |-> Next1(n, out)]]
           Body(F) == [n \in 0..N |-> IF n = 0 THEN <<>> ELSE Next1(n, F[n - 1])]
           F    == CHOOSE F : F = Body(F)
<1>1. \A n \in 1..N, out \in V : Next1(n, out) \in V
  OBVIOUS
<1>2. step \in [1..N -> [V -> V]]
  <2> HIDE DEF Next1, V
  <2> QED
    BY <1>1
<1>3. PICK f \in [0..N -> V] : f[0] = <<>> /\ \A n \in 1..N : f[n] = step[n][f[n - 1]]
  <2>1. N \in Nat /\ <<>> \in V
    OBVIOUS
  <2> HIDE DEF step, V, N
  <2> QED
    BY <1>2, <2>1, NatRecursion
<1>4. \A n \in 1..N : f[n] = Next1(n, f[n - 1])
  <2> HIDE DEF Next1, V
  <2> QED
    BY <1>3
<1>5. f = Body(f)
  <2> HIDE DEF V, Next1
  <2> QED
    BY <1>3, <1>4
<1>6. F = Body(F)
  <2> HIDE DEF Body
  <2> QED
    BY <1>5
<1>7. F[0] = <<>> /\ \A n \in 1..N : F[n] = Next1(n, F[n - 1])
  <2> HIDE DEF F, Next1
  <2>1. F = [n \in 0..N |-> IF n = 0 THEN <<>> ELSE Next1(n, F[n - 1])]
    BY <1>6
  <2>2. N \in Nat
    OBVIOUS
  <2> QED
    BY <2>1, <2>2
<1> DEFINE Done(n) == /\ F[n] \in Seq(PackageDoc)
                      /\ \E from \in [1..Len(F[n]) -> 1..n] : Keeps(ps, ids, n, F[n], from)
           T == {n \in Nat : n <= N => Done(n)}
<1>8. 0 \in T
  <2> HIDE DEF F
  <2>1. <<>> \in Seq(PackageDoc) /\ Len(<<>>) = 0
    OBVIOUS
  <2>2. [i \in 1..0 |-> i] \in [1..0 -> 1..0]
    OBVIOUS
  <2>3. Keeps(ps, ids, 0, <<>>, [i \in 1..0 |-> i])
    BY <2>1 DEF Keeps
  <2> QED
    BY <1>7, <2>1, <2>2, <2>3
<1>9. ASSUME NEW n \in Nat, n \in T PROVE n + 1 \in T
  <2> HIDE DEF F
  <2>1. SUFFICES ASSUME n + 1 <= N PROVE Done(n + 1)
    OBVIOUS
  <2>2. F[n] \in Seq(PackageDoc)
    BY <1>9, <2>1
  <2>3. PICK from \in [1..Len(F[n]) -> 1..n] : Keeps(ps, ids, n, F[n], from)
    BY <1>9, <2>1
  <2>4. F[n + 1] = Next1(n + 1, F[n])
    BY <1>7, <2>1
  <2> QED
    BY <2>1, <2>2, <2>3, <2>4, KeepsOne
<1>10. N \in T
  <2>1. N \in Nat
    OBVIOUS
  <2> HIDE DEF T, N
  <2> QED
    BY <1>8, <1>9, <2>1, NatBySets
<1>11. Without(ps, ids) = F[N]
  BY DEF Without
<1>12. Done(N)
  <2> HIDE DEF F
  <2> QED
    BY <1>10
<1> QED
  <2> HIDE DEF F
  <2> QED
    BY <1>11, <1>12

(* It brings no id that was not there.                                       *)
LEMMA WithoutIds ==
  ASSUME NEW ps \in Seq(PackageDoc), NEW ids
  PROVE  IdsOf(Without(ps, ids)) \subseteq IdsOf(ps)
<1> DEFINE ns == Without(ps, ids)
<1>1. PICK from \in [1..Len(ns) -> 1..Len(ps)] : Keeps(ps, ids, Len(ps), ns, from)
  BY WithoutKeeps
<1>2. ns \in Seq(PackageDoc)
  BY WithoutKeeps
<1> HIDE DEF ns
<1>3. \A i \in 1..Len(ns) : from[i] \in 1..Len(ps) /\ ns[i] = ps[from[i]]
  <2>1. \A i \in 1..Len(ns) : ns[i] = ps[from[i]]
    BY <1>1, Zenon DEF Keeps
  <2> QED
    BY <1>1, <2>1
<1>4. ToSet(ns) \subseteq ToSet(ps)
  BY <1>2, <1>3, Docs
<1> QED
  BY <1>4 DEF IdsOf, ns

(* The package r is the root: it alone has no parent, and a set that holds   *)
(* it and is closed downwards holds every package.                           *)
IsRoot(ps, r) ==
  /\ \A i \in DOMAIN ps : ps[i].parent = None <=> i = r
  /\ \A X : ps[r].id \in X /\ ChildIds(ps, X) \subseteq X => IdsOf(ps) \subseteq X

IdsDiffer(ps) == \A i, j \in DOMAIN ps : ps[i].id = ps[j].id => i = j

SiblingsDiffer(ps) ==
  \A i, j \in DOMAIN ps : ps[i].parent = ps[j].parent /\ ps[i].slug = ps[j].slug => i = j

ParentsExist(ps) == \A p \in ToSet(ps) : p.parent \in IdsOf(ps) \cup {None}

(* No package has None for its id.                                           *)
LEMMA NoneIsNoId == None \notin Ids
BY TreeAssumption DEF Ids

(* The ids and the children by the places in the list.                       *)
LEMMA IdsAt ==
  ASSUME NEW ps \in Seq(PackageDoc)
  PROVE  /\ IdsOf(ps) = {ps[i].id : i \in DOMAIN ps}
         /\ \A X : ChildIds(ps, X) = {ps[i].id : i \in {j \in DOMAIN ps : ps[j].parent \in X}}
BY Docs DEF IdsOf, ChildIds

(* The same for the parents.                                                 *)
LEMMA ParentsAt ==
  ASSUME NEW ps \in Seq(PackageDoc)
  PROVE  ParentsExist(ps) <=> \A i \in DOMAIN ps : ps[i].parent \in IdsOf(ps) \cup {None}
BY Docs DEF ParentsExist

(* validate_package_tree in these parts: it looks for the ids that its rounds *)
(* down from the root do not reach, and finds none.                          *)
LEMMA ValidForm ==
  ASSUME NEW ps \in Seq(PackageDoc)
  PROVE  Valid(ps) <=> /\ IdsDiffer(ps) /\ SiblingsDiffer(ps) /\ ParentsExist(ps)
                       /\ \E r \in DOMAIN ps : IsRoot(ps, r)
<1> DEFINE roots == {p.id : p \in {q \in ToSet(ps) : q.parent = None}}
<1>1. ASSUME NEW r \in DOMAIN ps, \A i \in DOMAIN ps : ps[i].parent = None <=> i = r
      PROVE  roots = {ps[r].id} /\ ps[r].id \in IdsOf(ps)
  BY <1>1, Docs DEF IdsOf
<1>2. ASSUME NEW r \in DOMAIN ps, \A i \in DOMAIN ps : ps[i].parent = None <=> i = r
      PROVE  IdsOf(ps) \subseteq Below(ps, roots) <=> IsRoot(ps, r)
  <2> DEFINE t == ps[r].id
  <2>1. roots = {t} /\ t \in IdsOf(ps) /\ {t} \in SUBSET Ids
    BY <1>1, <1>2, ChildIdsType
  <2> HIDE DEF t, roots
  <2>2. ASSUME IdsOf(ps) \subseteq Below(ps, {t}), NEW X, t \in X, ChildIds(ps, X) \subseteq X
        PROVE  IdsOf(ps) \subseteq X
    BY <2>1, <2>2, BelowLeast
  <2>3. ASSUME \A X : t \in X /\ ChildIds(ps, X) \subseteq X => IdsOf(ps) \subseteq X
        PROVE  IdsOf(ps) \subseteq Below(ps, {t})
    BY <2>1, <2>3, BelowClosed
  <2> QED
    BY <1>2, <2>1, <2>2, <2>3 DEF IsRoot, t
<1>3. ps = <<>> => DOMAIN ps = {}
  BY Docs
<1> QED
  BY <1>2, <1>3 DEF Valid, IdsDiffer, SiblingsDiffer, ParentsExist, IsRoot

(* ns is ps with the package new after the others. *)
Extended(ps, new, ns) ==
  /\ ns \in Seq(PackageDoc) /\ DOMAIN ns = DOMAIN ps \cup {Len(ps) + 1}
  /\ Len(ps) + 1 \notin DOMAIN ps
  /\ ns[Len(ps) + 1] = new /\ \A i \in DOMAIN ps : ns[i] = ps[i]

(* Append does that.                                                         *)
LEMMA AppendExtends ==
  ASSUME NEW ps \in Seq(PackageDoc), NEW new \in PackageDoc
  PROVE  Extended(ps, new, Append(ps, new))
<1> DEFINE ns == Append(ps, new)
<1>1. /\ Len(ps) \in Nat /\ DOMAIN ps = 1..Len(ps) /\ ns \in Seq(PackageDoc)
      /\ DOMAIN ns = 1..(Len(ps) + 1)
      /\ ns[Len(ps) + 1] = new /\ \A i \in 1..Len(ps) : ns[i] = ps[i]
  BY Docs
<1>2. 1..(Len(ps) + 1) = (1..Len(ps)) \cup {Len(ps) + 1} /\ Len(ps) + 1 \notin 1..Len(ps)
  BY <1>1
<1> QED
  BY <1>1, <1>2, Zenon DEF Extended

(* It adds one id.                                                           *)
LEMMA ExtendedIds ==
  ASSUME NEW ps \in Seq(PackageDoc), NEW new \in PackageDoc, NEW ns, Extended(ps, new, ns)
  PROVE  IdsOf(ns) = IdsOf(ps) \cup {new.id}
<1>1. /\ IdsOf(ps) = {ps[i].id : i \in DOMAIN ps}
      /\ IdsOf(ns) = {ns[i].id : i \in DOMAIN ps \cup {Len(ps) + 1}}
  BY IdsAt, Zenon DEF Extended
<1>2. ns[Len(ps) + 1] = new /\ \A i \in DOMAIN ps : ns[i] = ps[i]
  BY Zenon DEF Extended
<1> HIDE DEF Extended
<1> QED
  BY <1>1, <1>2

(* create_package: below a package, with a slug that no sibling has, the new *)
(* package leaves the tree valid.                                            *)
LEMMA CreateValid ==
  ASSUME NEW ps \in Seq(PackageDoc), Valid(ps),
         NEW new \in PackageDoc, new.id \notin IdsOf(ps), new.parent \in IdsOf(ps),
         \A p \in ToSet(ps) : ~(p.parent = new.parent /\ p.slug = new.slug),
         NEW ns, Extended(ps, new, ns)
  PROVE  Valid(ns)
<1> DEFINE last == Len(ps) + 1
<1>1. /\ ns \in Seq(PackageDoc) /\ ns[last] = new /\ \A i \in DOMAIN ps : ns[i] = ps[i]
      /\ DOMAIN ns = DOMAIN ps \cup {last} /\ last \notin DOMAIN ps
  BY Zenon DEF Extended
<1>2. IdsOf(ns) = IdsOf(ps) \cup {new.id}
  BY ExtendedIds
<1> HIDE DEF last
<1>3. \A i \in DOMAIN ps : ps[i].id \in IdsOf(ps) /\ ps[i].id # new.id /\ ps[i] \in ToSet(ps)
  BY Docs DEF IdsOf
<1>4. \A X : /\ ChildIds(ps, X) \subseteq ChildIds(ns, X)
             /\ new.parent \in X => new.id \in ChildIds(ns, X)
  BY <1>1, IdsAt
<1>5. new.parent # None
  BY NoneIsNoId, ChildIdsType
<1>6. IdsDiffer(ns)
  BY <1>1, <1>3, ValidForm DEF IdsDiffer
<1>7. SiblingsDiffer(ns)
  BY <1>1, <1>3, ValidForm DEF SiblingsDiffer
<1>8. ParentsExist(ns)
  <2>1. ParentsExist(ps)
    BY ValidForm
  <2>2. \A i \in DOMAIN ns : ns[i].parent \in IdsOf(ns) \cup {None}
    BY <1>1, <1>2, <1>3, <2>1 DEF ParentsExist
  <2> QED
    BY <1>1, <2>2, ParentsAt
<1>9. ASSUME NEW r \in DOMAIN ps, IsRoot(ps, r) PROVE IsRoot(ns, r)
  <2>1. \A i \in DOMAIN ns : ns[i].parent = None <=> i = r
    BY <1>1, <1>5, <1>9 DEF IsRoot
  <2>2. ASSUME NEW X, ps[r].id \in X, ChildIds(ns, X) \subseteq X PROVE IdsOf(ns) \subseteq X
    <3>1. IdsOf(ps) \subseteq X
      BY <1>4, <1>9, <2>2 DEF IsRoot
    <3> QED
      BY <1>2, <1>4, <2>2, <3>1
  <2> QED
    BY <1>1, <2>1, <2>2 DEF IsRoot
<1> QED
  BY <1>1, <1>6, <1>7, <1>8, <1>9, ValidForm

(* ns is ps with another slug for its k-th package. *)
Relabelled(ps, k, to, ns) ==
  /\ ns \in Seq(PackageDoc) /\ DOMAIN ns = DOMAIN ps
  /\ \A i \in DOMAIN ps : /\ ns[i].id = ps[i].id /\ ns[i].parent = ps[i].parent
                          /\ ns[i].slug = IF i = k THEN to ELSE ps[i].slug

(* A package with another slug.                                              *)
LEMMA DocRelabelled ==
  ASSUME NEW d \in PackageDoc, NEW to \in Slugs
  PROVE  /\ [d EXCEPT !.slug = to] \in PackageDoc
         /\ [d EXCEPT !.slug = to].id = d.id /\ [d EXCEPT !.slug = to].parent = d.parent
         /\ [d EXCEPT !.slug = to].slug = to
BY DEF PackageDoc

(* The assignment to the slug does that.                                     *)
LEMMA ExceptRelabels ==
  ASSUME NEW ps \in Seq(PackageDoc), NEW k \in DOMAIN ps, NEW to \in Slugs
  PROVE  Relabelled(ps, k, to, [ps EXCEPT ![k].slug = to])
<1> DEFINE doc == [ps[k] EXCEPT !.slug = to]
           ns  == [ps EXCEPT ![k].slug = to]
<1>1. /\ doc \in PackageDoc
      /\ doc.id = ps[k].id /\ doc.parent = ps[k].parent /\ doc.slug = to
  <2>1. ps[k] \in PackageDoc
    BY Docs
  <2> QED
    BY <2>1, DocRelabelled, Zenon
<1>2. ns = [ps EXCEPT ![k] = doc]
  BY Zenon
<1> HIDE DEF doc, ns
<1>3. /\ ns \in Seq(PackageDoc) /\ DOMAIN ns = DOMAIN ps /\ ns[k] = doc
      /\ \A i \in DOMAIN ps : i # k => ns[i] = ps[i]
  BY <1>1, <1>2
<1>4. Relabelled(ps, k, to, ns)
  BY <1>1, <1>3 DEF Relabelled
<1> QED
  BY <1>4 DEF ns

(* It changes no id and no parent.                                           *)
LEMMA RelabelledIds ==
  ASSUME NEW ps \in Seq(PackageDoc), NEW k, NEW to, NEW ns, Relabelled(ps, k, to, ns)
  PROVE  IdsOf(ns) = IdsOf(ps) /\ \A X : ChildIds(ns, X) = ChildIds(ps, X)
<1>1. /\ ns \in Seq(PackageDoc) /\ DOMAIN ns = DOMAIN ps
      /\ \A i \in DOMAIN ps : ns[i].id = ps[i].id /\ ns[i].parent = ps[i].parent
  BY DEF Relabelled
<1>2. IdsOf(ns) = IdsOf(ps)
  <2>1. /\ IdsOf(ps) = {ps[i].id : i \in DOMAIN ps}
        /\ IdsOf(ns) = {ns[i].id : i \in DOMAIN ps}
    BY <1>1, IdsAt, Zenon
  <2> QED
    BY <1>1, <2>1
<1>3. ASSUME NEW X PROVE ChildIds(ns, X) = ChildIds(ps, X)
  <2>1. /\ ChildIds(ps, X) = {ps[i].id : i \in {j \in DOMAIN ps : ps[j].parent \in X}}
        /\ ChildIds(ns, X) = {ns[i].id : i \in {j \in DOMAIN ps : ns[j].parent \in X}}
    BY <1>1, IdsAt, Zenon
  <2> QED
    BY <1>1, <2>1
<1> QED
  BY <1>2, <1>3

(* rename_package: a slug that no sibling has leaves the tree valid.         *)
LEMMA RenameValid ==
  ASSUME NEW ps \in Seq(PackageDoc), Valid(ps), NEW k \in DOMAIN ps, NEW to,
         \A i \in DOMAIN ps : ps[i].parent = ps[k].parent /\ ps[i].slug = to => i = k,
         NEW ns, Relabelled(ps, k, to, ns)
  PROVE  Valid(ns)
<1>1. /\ ns \in Seq(PackageDoc) /\ DOMAIN ns = DOMAIN ps
      /\ \A i \in DOMAIN ps : /\ ns[i].id = ps[i].id /\ ns[i].parent = ps[i].parent
                              /\ ns[i].slug = IF i = k THEN to ELSE ps[i].slug
  BY DEF Relabelled
<1>2. IdsOf(ns) = IdsOf(ps) /\ \A X : ChildIds(ns, X) = ChildIds(ps, X)
  BY RelabelledIds
<1>3. IdsDiffer(ns)
  BY <1>1, ValidForm DEF IdsDiffer
<1>4. SiblingsDiffer(ns)
  <2>1. SiblingsDiffer(ps)
    BY ValidForm
  <2> QED
    BY <1>1, <2>1 DEF SiblingsDiffer
<1>5. ParentsExist(ns)
  <2>1. \A i \in DOMAIN ps : ps[i].parent \in IdsOf(ps) \cup {None}
    BY ValidForm, ParentsAt
  <2> QED
    BY <1>1, <1>2, <2>1, ParentsAt
<1>6. ASSUME NEW r \in DOMAIN ps, IsRoot(ps, r) PROVE IsRoot(ns, r)
  BY <1>1, <1>2, <1>6 DEF IsRoot
<1> QED
  BY <1>1, <1>3, <1>4, <1>5, <1>6, ValidForm

(* delete_package: without a package and all below it the tree is valid. The *)
(* parent of a package that stays stays, and what is reached from the root without *)
(* them is all that stays.                                                   *)
LEMMA DeleteValid ==
  ASSUME NEW ps \in Seq(PackageDoc), Valid(ps), NEW k \in DOMAIN ps, ps[k].parent # None
  PROVE  /\ Without(ps, Below(ps, {ps[k].id})) \in Seq(PackageDoc)
         /\ Valid(Without(ps, Below(ps, {ps[k].id})))
<1> DEFINE t  == ps[k].id
           D  == Below(ps, {t})
           ns == Without(ps, D)
<1>1. t \in IdsOf(ps)
  BY IdsAt
<1>2. t \in D /\ D \subseteq IdsOf(ps) /\ ChildIds(ps, D) \subseteq D
  <2> HIDE DEF t
  <2> QED
    BY <1>1, BelowClosed
<1>3. PICK from \in [1..Len(ns) -> 1..Len(ps)] : Keeps(ps, D, Len(ps), ns, from)
  <2> HIDE DEF D
  <2> QED
    BY WithoutKeeps
<1>4. ns \in Seq(PackageDoc)
  <2> HIDE DEF D
  <2> QED
    BY WithoutKeeps
<1>5. PICK r \in DOMAIN ps : IsRoot(ps, r)
  BY ValidForm
<1>6. IdsDiffer(ps) /\ SiblingsDiffer(ps) /\ ParentsExist(ps)
  BY ValidForm
<1>7. ps[r].id \notin D
  <2> DEFINE X == IdsOf(ps) \ {ps[r].id}
  <2>1. t # ps[r].id
    BY <1>5, <1>6 DEF IsRoot, IdsDiffer
  <2>2. ASSUME NEW i \in DOMAIN ps, ps[i].parent \in X PROVE ps[i].id \in X
    <3>1. ps[i].parent # None
      BY <2>2, NoneIsNoId, ChildIdsType
    <3>2. i # r
      BY <1>5, <3>1 DEF IsRoot
    <3> QED
      BY <1>6, <3>2, IdsAt DEF IdsDiffer
  <2>3. ChildIds(ps, X) \subseteq X
    <3> HIDE DEF X
    <3> QED
      BY <2>2, IdsAt
  <2>4. {t} \in SUBSET Ids /\ {t} \subseteq X
    BY <1>1, <2>1, ChildIdsType
  <2>5. D \subseteq X
    <3> HIDE DEF X, t
    <3> QED
      BY <2>3, <2>4, BelowLeast
  <2> QED
    BY <2>5
<1> HIDE DEF t, D, ns
<1>8. /\ DOMAIN ns = 1..Len(ns) /\ DOMAIN ps = 1..Len(ps)
      /\ \A i \in DOMAIN ns : from[i] \in DOMAIN ps /\ ns[i] = ps[from[i]] /\ ns[i].id \notin D
      /\ \A i, j \in DOMAIN ns : from[i] = from[j] => i = j
      /\ \A m \in DOMAIN ps : ps[m].id \notin D => \E i \in DOMAIN ns : from[i] = m
  <2>1. DOMAIN ns = 1..Len(ns) /\ DOMAIN ps = 1..Len(ps)
    BY <1>4, Docs
  <2>2. /\ \A i \in 1..Len(ns) : ns[i] = ps[from[i]] /\ ps[from[i]].id \notin D
        /\ \A i, j \in 1..Len(ns) : from[i] = from[j] => i = j
        /\ \A m \in 1..Len(ps) : ps[m].id \notin D => \E i \in 1..Len(ns) : from[i] = m
    BY <1>3, Zenon DEF Keeps
  <2>3. \A i \in 1..Len(ns) : from[i] \in 1..Len(ps)
    BY <1>3
  <2> QED
    BY <2>1, <2>2, <2>3
<1>9. IdsOf(ns) = IdsOf(ps) \ D
  <2>1. \A i \in DOMAIN ns : ns[i].id \in IdsOf(ps) \ D
    BY <1>8, IdsAt
  <2>2. \A m \in DOMAIN ps : ps[m].id \notin D => ps[m].id \in IdsOf(ns)
    BY <1>4, <1>8, IdsAt
  <2> QED
    BY <1>4, <2>1, <2>2, IdsAt
<1>10. \A i \in DOMAIN ps : ps[i].parent \in D => ps[i].id \in D
  BY <1>2, IdsAt
<1>11. IdsDiffer(ns)
  BY <1>6, <1>8 DEF IdsDiffer
<1>12. SiblingsDiffer(ns)
  BY <1>6, <1>8 DEF SiblingsDiffer
<1>13. ParentsExist(ns)
  <2>1. \A i \in DOMAIN ps : ps[i].parent \in IdsOf(ps) \cup {None}
    BY <1>6, Docs DEF ParentsExist
  <2>2. \A i \in DOMAIN ns : ns[i].parent \in IdsOf(ns) \cup {None}
    BY <1>8, <1>9, <1>10, <2>1
  <2> QED
    BY <1>4, <2>2, Docs DEF ParentsExist
<1>14. PICK r1 \in DOMAIN ns : from[r1] = r
  BY <1>7, <1>8
<1>15. IsRoot(ns, r1)
  <2>1. \A i \in DOMAIN ns : ns[i].parent = None <=> i = r1
    BY <1>5, <1>8, <1>14 DEF IsRoot
  <2>2. ASSUME NEW X, ns[r1].id \in X, ChildIds(ns, X) \subseteq X PROVE IdsOf(ns) \subseteq X
    <3>1. ASSUME NEW i \in DOMAIN ps, ps[i].parent \in X \cup D PROVE ps[i].id \in X \cup D
      <4>1. SUFFICES ASSUME ps[i].id \notin D PROVE ps[i].id \in X
        OBVIOUS
      <4>2. PICK j \in DOMAIN ns : from[j] = i
        BY <1>8, <4>1
      <4>3. ns[j] = ps[i] /\ ps[i].parent \in X
        BY <1>8, <1>10, <3>1, <4>1, <4>2
      <4> QED
        BY <1>4, <2>2, <4>3, IdsAt
    <3>2. ChildIds(ps, X \cup D) \subseteq X \cup D
      BY <3>1, IdsAt
    <3>3. ps[r].id \in X \cup D
      BY <1>8, <1>14, <2>2
    <3>4. IdsOf(ps) \subseteq X \cup D
      BY <1>5, <3>2, <3>3 DEF IsRoot
    <3> QED
      BY <1>9, <3>4
  <2> QED
    BY <2>1, <2>2 DEF IsRoot
<1> QED
  BY <1>4, <1>11, <1>12, <1>13, <1>15, ValidForm DEF t, D, ns

-----------------------------------------------------------------------------
(* The fields of a request, by its kind.                                     *)
LEMMA RequestFields ==
  ASSUME NEW q \in Request
  PROVE  /\ q.kind \in AllKinds
         /\ q.kind = "create" => q.slug \in Slugs /\ q.parent \in Ids
         /\ q.kind = "rename" => q.slug \in Slugs /\ q.to \in Slugs
         /\ q.kind \in {"delete", "save"} => q.slug \in Slugs
BY DEF Request, AllKinds

(* Find gives the first package of the slug, if there is one.                *)
LEMMA FindFirst ==
  ASSUME packages \in Seq(PackageDoc), NEW s
  PROVE  /\ Found(s) <=> \E p \in ToSet(packages) : p.slug = s
         /\ Found(s) => /\ Find(s) \in DOMAIN packages /\ packages[Find(s)].slug = s
                        /\ \A i \in DOMAIN packages : packages[i].slug = s => Find(s) <= i
<1> DEFINE I == {i \in 1..Len(packages) : packages[i].slug = s}
<1>1. Find(s) = IF I # {} THEN Min(I) ELSE 0
  BY DEF Find, SelectInSeq
<1>2. I \in SUBSET Nat /\ 0 \notin I
  BY Docs
<1>3. I # {} => Min(I) \in I /\ \A i \in I : Min(I) <= i
  <2> HIDE DEF I
  <2> QED
    BY <1>2, LeastNat
<1>4. Found(s) <=> I # {}
  <2> HIDE DEF I
  <2> QED
    BY <1>1, <1>2, <1>3 DEF Found
<1>5. Found(s) => Find(s) \in I /\ \A i \in I : Find(s) <= i
  <2> HIDE DEF I
  <2> QED
    BY <1>1, <1>3, <1>4
<1>6. \A i \in DOMAIN packages : packages[i].slug = s => i \in I
  BY Docs
<1>7. Found(s) <=> \E p \in ToSet(packages) : p.slug = s
  BY <1>4, <1>6, Docs
<1> QED
  BY <1>5, <1>6, <1>7, Docs

(* What a handler's own checks let through leaves a valid tree. *)
LEMMA MutatedValid ==
  ASSUME packages \in Seq(PackageDoc), Valid(packages),
         NEW c \in Calls, c \notin IdsOf(packages),
         NEW q \in Request, q.kind \in {"create", "rename", "delete"}, Allowed(q)
  PROVE  Mutated(c, q) \in Seq(PackageDoc) /\ Valid(Mutated(c, q))
<1>1. CASE q.kind = "create"
  <2> DEFINE new == [id |-> c, slug |-> q.slug, parent |-> q.parent]
  <2>1. /\ new \in PackageDoc /\ new.id = c /\ new.parent = q.parent /\ new.slug = q.slug
    BY <1>1, RequestFields DEF PackageDoc, Ids
  <2>2. q.parent \in IdsOf(packages) /\ ~Sibling(q.parent, q.slug)
    BY <1>1 DEF Allowed
  <2>3. Mutated(c, q) = Append(packages, new)
    BY <1>1 DEF Mutated
  <2> HIDE DEF new
  <2> QED
    <3>1. Extended(packages, new, Append(packages, new))
      BY <2>1, AppendExtends
    <3>2. Append(packages, new) \in Seq(PackageDoc)
      BY <3>1 DEF Extended
    <3>3. \A p \in ToSet(packages) : ~(p.parent = new.parent /\ p.slug = new.slug)
      BY <2>1, <2>2 DEF Sibling
    <3>4. new.id \notin IdsOf(packages) /\ new.parent \in IdsOf(packages)
      BY <2>1, <2>2
    <3>5. Valid(Append(packages, new))
      BY <2>1, <3>1, <3>3, <3>4, CreateValid
    <3> QED
      BY <2>3, <3>2, <3>5
<1>2. CASE q.kind = "rename"
  <2> DEFINE k == Find(q.slug)
  <2>1. Found(q.slug) /\ (q.to # q.slug => ~Sibling(packages[k].parent, q.to))
    BY <1>2 DEF Allowed, RenameAllowed, Target
  <2>2. k \in DOMAIN packages /\ packages[k].slug = q.slug
    BY <2>1, FindFirst
  <2>3. Mutated(c, q) = [packages EXCEPT ![k].slug = q.to]
    BY <1>2, Zenon DEF Mutated
  <2> HIDE DEF k
  <2>4. \A i \in DOMAIN packages :
          packages[i].parent = packages[k].parent /\ packages[i].slug = q.to => i = k
    <3>1. CASE q.to = q.slug
      BY <2>2, <3>1, ValidForm DEF SiblingsDiffer
    <3>2. CASE q.to # q.slug
      BY <2>1, <3>2, Docs DEF Sibling
    <3> QED
      BY <3>1, <3>2
  <2>5. q.to \in Slugs
    BY <1>2, RequestFields
  <2> QED
    <3> DEFINE ns == [packages EXCEPT ![k].slug = q.to]
    <3>1. Relabelled(packages, k, q.to, ns)
      BY <2>2, <2>5, ExceptRelabels
    <3> HIDE DEF ns
    <3>2. ns \in Seq(PackageDoc)
      BY <3>1 DEF Relabelled
    <3>3. Valid(ns)
      BY <2>2, <2>4, <3>1, RenameValid
    <3>4. Mutated(c, q) = ns
      BY <2>3 DEF ns
    <3> QED
      BY <3>2, <3>3, <3>4
<1>3. CASE q.kind = "delete"
  <2> DEFINE k == Find(q.slug)
  <2>1. Found(q.slug) /\ packages[k].parent # None
    BY <1>3 DEF Allowed, Target
  <2>2. k \in DOMAIN packages
    BY <2>1, FindFirst
  <2>3. Mutated(c, q) = Without(packages, Below(packages, {packages[k].id}))
    BY <1>3 DEF Mutated, Doomed, Target
  <2> HIDE DEF k
  <2> QED
    BY <2>1, <2>2, <2>3, DeleteValid
<1> QED
  BY <1>1, <1>2, <1>3

(* The only id that may be new is that of the call.                          *)
LEMMA MutatedIds ==
  ASSUME packages \in Seq(PackageDoc), NEW c \in Calls,
         NEW q \in Request, q.kind \in {"create", "rename", "delete"}, Allowed(q)
  PROVE  IdsOf(Mutated(c, q)) \subseteq IdsOf(packages) \cup {c}
<1>1. CASE q.kind = "create"
  <2> DEFINE new == [id |-> c, slug |-> q.slug, parent |-> q.parent]
  <2>1. Mutated(c, q) = Append(packages, new)
    BY <1>1 DEF Mutated
  <2>2. new \in PackageDoc /\ new.id = c
    BY <1>1, RequestFields DEF PackageDoc, Ids
  <2> HIDE DEF new
  <2> QED
    BY <2>1, <2>2, AppendExtends, ExtendedIds
<1>2. CASE q.kind = "rename"
  <2> DEFINE k == Find(q.slug)
  <2>1. k \in DOMAIN packages
    BY <1>2, FindFirst DEF Allowed, RenameAllowed
  <2>2. Mutated(c, q) = [packages EXCEPT ![k].slug = q.to]
    BY <1>2, Zenon DEF Mutated
  <2>3. q.to \in Slugs
    BY <1>2, RequestFields
  <2> HIDE DEF k
  <2>4. Relabelled(packages, k, q.to, Mutated(c, q))
    <3> DEFINE ns == [packages EXCEPT ![k].slug = q.to]
    <3>1. Relabelled(packages, k, q.to, ns)
      BY <2>1, <2>3, ExceptRelabels
    <3>2. Mutated(c, q) = ns
      BY <2>2
    <3> HIDE DEF ns
    <3> QED
      BY <3>1, <3>2
  <2>5. IdsOf(Mutated(c, q)) = IdsOf(packages)
    BY <2>4, RelabelledIds
  <2> QED
    BY <2>5
<1>3. CASE q.kind = "delete"
  BY <1>3, WithoutIds DEF Mutated
<1> QED
  BY <1>1, <1>2, <1>3

-----------------------------------------------------------------------------
TypeInv ==
  /\ faults \in FaultSets
  /\ packages \in Seq(PackageDoc)
  /\ folders \subseteq Slugs
  /\ graph \in [Slugs -> Graphs \cup {None}]
  /\ holder \in Calls \cup {None}
  /\ pc \in [Calls -> Steps]
  /\ req \in [Calls -> Request \cup {None}]
  /\ todo \in [Calls -> SUBSET Slugs]
  /\ saved \in [Ids -> Ids \cup {None}]

(* A call's step is one of the handler that its request asks for. *)
Renaming == {"probe_from", "probe_to", "move", "rollback"}
Saving   == {"lock", "make_folder", "write"}

StepFits ==
  \A c \in Calls :
    /\ pc[c] # "idle" => req[c] \in Request
    /\ pc[c] = "update" => req[c].kind \in {"create", "rename", "delete"}
    /\ pc[c] \in Renaming => req[c].kind = "rename" /\ req[c].to # req[c].slug
    /\ pc[c] = "clean" => req[c].kind = "delete"
    /\ pc[c] \in Saving => req[c].kind \in {"save", "save_root"}

(* A call that may still create a package has created none. *)
Fresh == \A c \in Calls : pc[c] \in {"idle", "update"} => c \notin IdsOf(packages)

NoConflict == \A c \in Calls : pc[c] # "conflict"

TreeInv == TypeInv /\ StepFits /\ Fresh /\ Valid(packages) /\ NoConflict

(* A project starts with a valid tree of one or two packages.                *)
LEMMA InitTree == Init => TreeInv
<1> SUFFICES ASSUME Init PROVE TreeInv
  OBVIOUS
<1>1. Main \in Slugs /\ Root \in Ids /\ First \in Ids /\ Root # First /\ None \notin Ids
  BY TreeAssumption DEF Ids
<1>2. PICK s \in Slugs \ {Main} :
        packages \in {<<[id |-> Root, slug |-> Main, parent |-> None]>>,
                      <<[id |-> Root, slug |-> Main, parent |-> None],
                        [id |-> First, slug |-> s, parent |-> Root]>>}
  BY DEF Init
<1> DEFINE root == [id |-> Root, slug |-> Main, parent |-> None]
           one  == [id |-> First, slug |-> s, parent |-> Root]
<1>3. root \in PackageDoc /\ root.id = Root /\ root.slug = Main /\ root.parent = None
  BY <1>1 DEF PackageDoc
<1>4. one \in PackageDoc /\ one.id = First /\ one.parent = Root
  BY <1>1 DEF PackageDoc
<1> HIDE DEF root, one
<1>5. <<root>> \in Seq(PackageDoc) /\ Valid(<<root>>) /\ IdsOf(<<root>>) = {Root}
  <2> DEFINE ps == <<root>>
  <2>1. ps \in Seq(PackageDoc) /\ DOMAIN ps = {1} /\ ps[1] = root
    BY <1>3
  <2> HIDE DEF ps
  <2>2. IdsOf(ps) = {Root}
    BY <1>3, <2>1, IdsAt
  <2>3. IdsDiffer(ps) /\ SiblingsDiffer(ps)
    BY <2>1 DEF IdsDiffer, SiblingsDiffer
  <2>4. ParentsExist(ps)
    BY <1>3, <2>1, ParentsAt
  <2>5. IsRoot(ps, 1)
    BY <1>3, <2>1, <2>2 DEF IsRoot
  <2> QED
    BY <2>1, <2>2, <2>3, <2>4, <2>5, ValidForm DEF ps
<1>6. <<root, one>> = Append(<<root>>, one)
  OBVIOUS
<1>7. /\ <<root, one>> \in Seq(PackageDoc) /\ Valid(<<root, one>>)
      /\ IdsOf(<<root, one>>) = {Root, First}
  <2> DEFINE ps == <<root>>
             ns == Append(ps, one)
  <2>1. ps \in Seq(PackageDoc) /\ Valid(ps) /\ IdsOf(ps) = {Root}
    BY <1>5
  <2>2. \A p \in ToSet(ps) : p = root
    BY DEF ToSet
  <2> HIDE DEF ps
  <2>3. Extended(ps, one, ns)
    BY <1>4, <2>1, AppendExtends
  <2>4. ns = <<root, one>>
    BY <1>6 DEF ps
  <2> HIDE DEF ns
  <2>5. IdsOf(ns) = {Root, First}
    BY <1>4, <2>1, <2>3, ExtendedIds
  <2>6. \A p \in ToSet(ps) : ~(p.parent = one.parent /\ p.slug = one.slug)
    BY <1>1, <1>3, <1>4, <2>2
  <2>7. one.id \notin IdsOf(ps) /\ one.parent \in IdsOf(ps)
    BY <1>1, <1>4, <2>1
  <2>8. Valid(ns)
    BY <1>4, <2>1, <2>3, <2>6, <2>7, CreateValid
  <2> QED
    BY <2>3, <2>4, <2>5, <2>8 DEF Extended
<1>8. /\ packages \in Seq(PackageDoc) /\ Valid(packages)
      /\ IdsOf(packages) \subseteq {Root, First}
  <2>1. packages \in {<<root>>, <<root, one>>}
    BY <1>2 DEF root, one
  <2> QED
    BY <1>5, <1>7, <2>1
<1>9. Fresh
  BY <1>8, TreeAssumption DEF Fresh
<1>10. folders \subseteq Slugs
  <2>1. \A p \in ToSet(packages) : p.slug \in Slugs
    BY <1>8, Docs DEF PackageDoc
  <2> QED
    BY <2>1 DEF Init
<1>11. TypeInv
  BY <1>1, <1>8, <1>10 DEF Init, TypeInv, Graphs, Steps
<1>12. StepFits /\ NoConflict
  BY DEF Init, StepFits, NoConflict, Renaming, Saving
<1> QED
  BY <1>8, <1>9, <1>11, <1>12 DEF TreeInv

(* mutate_project with each of the three closures.                           *)
LEMMA UpdateTree ==
  ASSUME TreeInv, NEW c \in Calls, Update(c), UNCHANGED faults
  PROVE  TreeInv'
<1> DEFINE q == req[c]
<1>1. /\ q \in Request /\ q.kind \in {"create", "rename", "delete"}
      /\ c \notin IdsOf(packages) /\ packages \in Seq(PackageDoc) /\ Valid(packages)
      /\ pc[c] = "update"
  BY DEF TreeInv, TypeInv, StepFits, Fresh, Update
<1> HIDE DEF q
<1>2. CASE ~Allowed(q)
  <2>1. Verdict(c, q) = "failed"
    BY <1>2 DEF Verdict
  <2>2. packages' = packages /\ todo' = todo /\ pc' = [pc EXCEPT ![c] = "failed"]
    BY <2>1, Zenon DEF Update, q, Goto
  <2> QED
    BY <2>2 DEF TreeInv, TypeInv, StepFits, Fresh, NoConflict, Update, Steps, Renaming, Saving
<1>3. CASE Allowed(q)
  <2>1. Mutated(c, q) \in Seq(PackageDoc) /\ Valid(Mutated(c, q))
    BY <1>1, <1>3, MutatedValid
  <2>2. IdsOf(Mutated(c, q)) \subseteq IdsOf(packages) \cup {c}
    BY <1>1, <1>3, MutatedIds
  <2>3. Verdict(c, q) = AfterUpdate(q)
    BY <1>3, <2>1 DEF Verdict
  <2>4. /\ AfterUpdate(q) \in {"done", "probe_from", "clean"}
        /\ AfterUpdate(q) = "probe_from" => q.kind = "rename" /\ q.to # q.slug
        /\ AfterUpdate(q) = "clean" => q.kind = "delete"
    BY <1>1 DEF AfterUpdate
  <2>5. packages' = Mutated(c, q) /\ pc' = [pc EXCEPT ![c] = AfterUpdate(q)]
    BY <2>3, <2>4 DEF Update, q, Goto
  <2>6. DoomedSlugs(q) \subseteq Slugs
    <3>1. \A p \in ToSet(packages) : p.slug \in Slugs
      BY <1>1, Docs DEF PackageDoc
    <3> QED
      BY <3>1 DEF DoomedSlugs
  <2>7. todo' \in [Calls -> SUBSET Slugs]
    BY <2>6 DEF TreeInv, TypeInv, Update, q
  <2>8. UNCHANGED <<folders, graph, holder, req, saved>>
    BY DEF Update
  <2>9. TypeInv'
    BY <2>1, <2>4, <2>5, <2>7, <2>8 DEF TreeInv, TypeInv, Steps
  <2>10. StepFits'
    <3>1. pc'[c] = AfterUpdate(q) /\ \A d \in Calls \ {c} : pc'[d] = pc[d]
      BY <2>5 DEF TreeInv, TypeInv
    <3>2. \A d \in Calls : req'[d] = req[d]
      BY <2>8
    <3>3. q = req[c]
      BY DEF q
    <3>4. StepFits
      BY DEF TreeInv
    <3> QED
      BY <1>1, <2>4, <3>1, <3>2, <3>3, <3>4 DEF StepFits, Renaming, Saving
  <2>11. Fresh' /\ NoConflict'
    BY <2>2, <2>4, <2>5 DEF TreeInv, TypeInv, Fresh, NoConflict
  <2> QED
    BY <2>1, <2>5, <2>9, <2>10, <2>11 DEF TreeInv
<1> QED
  BY <1>2, <1>3

(* The rollback of rename_package, which the validator may refuse.           *)
LEMMA RollbackTree ==
  ASSUME TreeInv, NEW c \in Calls, Rollback(c), UNCHANGED faults
  PROVE  TreeInv'
<1> DEFINE k    == Find(req[c].to)
           back == [packages EXCEPT ![k].slug = req[c].slug]
<1>1. /\ req[c] \in Request /\ req[c].kind = "rename" /\ packages \in Seq(PackageDoc)
      /\ Valid(packages)
  BY DEF TreeInv, TypeInv, StepFits, Rollback, Renaming
<1>2. packages' = IF Found(req[c].to) /\ Valid(back) THEN back ELSE packages
  BY Zenon DEF Rollback
<1>3. ASSUME Found(req[c].to)
      PROVE  back \in Seq(PackageDoc) /\ IdsOf(back) = IdsOf(packages)
  <2>1. k \in DOMAIN packages /\ req[c].slug \in Slugs
    BY <1>1, <1>3, FindFirst, RequestFields
  <2>2. Relabelled(packages, k, req[c].slug, back)
    <3> HIDE DEF k
    <3> QED
      BY <1>1, <2>1, ExceptRelabels
  <2> HIDE DEF k, back
  <2>3. IdsOf(back) = IdsOf(packages)
    BY <1>1, <2>2, RelabelledIds
  <2> QED
    BY <2>2, <2>3 DEF Relabelled
<1> HIDE DEF back, k
<1>4. packages' \in Seq(PackageDoc) /\ Valid(packages)' /\ IdsOf(packages') = IdsOf(packages)
  BY <1>1, <1>2, <1>3
<1>5. /\ pc[c] = "rollback" /\ pc' = [pc EXCEPT ![c] = "failed"]
      /\ UNCHANGED <<folders, graph, holder, req, todo, saved>>
  BY DEF Rollback, Goto
<1>6. TypeInv' /\ StepFits'
  BY <1>4, <1>5 DEF TreeInv, TypeInv, StepFits, Steps, Renaming, Saving
<1>7. Fresh' /\ NoConflict'
  BY <1>4, <1>5 DEF TreeInv, TypeInv, Fresh, NoConflict
<1> QED
  BY <1>4, <1>6, <1>7 DEF TreeInv

(* The steps that leave project.json alone. *)
LEMMA OtherTree ==
  ASSUME TreeInv, TypeInv', StepFits', NoConflict', packages' = packages,
         \A c \in Calls : pc'[c] \in {"idle", "update"} => pc[c] \in {"idle", "update"}
  PROVE  TreeInv'
BY DEF TreeInv, Fresh

(* Every step keeps the invariant.                                           *)
LEMMA NextTree == ASSUME TreeInv, [Next]_vars PROVE TreeInv'
<1> USE DEF Steps, Goto
<1>1. ASSUME NEW c \in Calls, Begin(c), UNCHANGED faults PROVE TreeInv'
  <2>1. PICK q \in Request :
          /\ req' = [req EXCEPT ![c] = q]
          /\ pc' = [pc EXCEPT ![c] = IF q.kind \in {"save", "save_root"}
                                       THEN "lock" ELSE "update"]
    BY <1>1 DEF Begin
  <2>2. q.kind \in AllKinds
    BY RequestFields
  <2>3. pc[c] = "idle" /\ UNCHANGED <<packages, folders, graph, holder, todo, saved>>
    BY <1>1 DEF Begin
  <2>4. TypeInv'
    BY <1>1, <2>1, <2>3 DEF TreeInv, TypeInv
  <2>5. StepFits' /\ NoConflict'
    BY <2>1, <2>2, <2>3
    DEF TreeInv, TypeInv, StepFits, NoConflict, Renaming, Saving, AllKinds
  <2>6. \A d \in Calls : pc'[d] \in {"idle", "update"} => pc[d] \in {"idle", "update"}
    BY <2>1, <2>3 DEF TreeInv, TypeInv
  <2> QED
    BY <2>3, <2>4, <2>5, <2>6, OtherTree
<1>2. ASSUME NEW c \in Calls, ProbeFrom(c), UNCHANGED faults PROVE TreeInv'
  <2>1. TypeInv' /\ StepFits' /\ NoConflict'
    BY <1>2 DEF ProbeFrom, TreeInv, TypeInv, StepFits, NoConflict, Renaming, Saving
  <2> QED
    BY <1>2, <2>1, OtherTree DEF ProbeFrom, TreeInv, TypeInv
<1>3. ASSUME NEW c \in Calls, ProbeTo(c), UNCHANGED faults PROVE TreeInv'
  <2>1. TypeInv' /\ StepFits' /\ NoConflict'
    BY <1>3 DEF ProbeTo, TreeInv, TypeInv, StepFits, NoConflict, Renaming, Saving
  <2> QED
    BY <1>3, <2>1, OtherTree DEF ProbeTo, TreeInv, TypeInv
<1>4. ASSUME NEW c \in Calls, Move(c), UNCHANGED faults PROVE TreeInv'
  <2>1. req[c] \in Request /\ req[c].kind = "rename"
    BY <1>4 DEF Move, TreeInv, StepFits, Renaming
  <2>2. req[c].slug \in Slugs /\ req[c].to \in Slugs
    BY <2>1, RequestFields
  <2>3. /\ UNCHANGED <<packages, holder, req, todo, saved>>
        /\ pc[c] = "move" /\ pc' \in {[pc EXCEPT ![c] = "done"], [pc EXCEPT ![c] = "rollback"]}
    BY <1>4 DEF Move
  <2>4. folders' \subseteq Slugs
    BY <1>4, <2>2 DEF Move, TreeInv, TypeInv
  <2>5. graph' \in [Slugs -> Graphs \cup {None}]
    BY <1>4, <2>2 DEF Move, MovedGraph, TreeInv, TypeInv
  <2>6. TypeInv'
    BY <1>4, <2>3, <2>4, <2>5 DEF TreeInv, TypeInv
  <2>7. StepFits' /\ NoConflict'
    BY <2>3 DEF TreeInv, TypeInv, StepFits, NoConflict, Renaming, Saving
  <2> QED
    BY <2>3, <2>6, <2>7, OtherTree DEF TreeInv, TypeInv
<1>5. ASSUME NEW c \in Calls, CleanFolder(c), UNCHANGED faults PROVE TreeInv'
  <2>1. TypeInv' /\ StepFits' /\ NoConflict'
    BY <1>5 DEF CleanFolder, TreeInv, TypeInv, StepFits, NoConflict, Renaming, Saving
  <2> QED
    BY <1>5, <2>1, OtherTree DEF CleanFolder
<1>6. ASSUME NEW c \in Calls, CleanEnd(c), UNCHANGED faults PROVE TreeInv'
  <2>1. TypeInv' /\ StepFits' /\ NoConflict'
    BY <1>6 DEF CleanEnd, TreeInv, TypeInv, StepFits, NoConflict, Renaming, Saving
  <2> QED
    BY <1>6, <2>1, OtherTree DEF CleanEnd, TreeInv, TypeInv
<1>7. ASSUME NEW c \in Calls, SaveLock(c), UNCHANGED faults PROVE TreeInv'
  <2>1. TypeInv' /\ StepFits' /\ NoConflict'
    BY <1>7 DEF SaveLock, TreeInv, TypeInv, StepFits, NoConflict, Renaming, Saving
  <2> QED
    BY <1>7, <2>1, OtherTree DEF SaveLock, TreeInv, TypeInv
<1>8. ASSUME NEW c \in Calls, MakeFolder(c), UNCHANGED faults PROVE TreeInv'
  <2>1. FolderOf(req[c]) \in Slugs
    BY <1>8, RequestFields, TreeAssumption DEF MakeFolder, FolderOf, TreeInv, StepFits, Saving
  <2>2. TypeInv' /\ StepFits' /\ NoConflict'
    BY <1>8, <2>1 DEF MakeFolder, TreeInv, TypeInv, StepFits, NoConflict, Renaming, Saving
  <2> QED
    BY <1>8, <2>2, OtherTree DEF MakeFolder, TreeInv, TypeInv
<1>9. ASSUME NEW c \in Calls, SaveWrite(c), UNCHANGED faults PROVE TreeInv'
  <2>1. TypeInv' /\ StepFits' /\ NoConflict'
    BY <1>9 DEF SaveWrite, TreeInv, TypeInv, StepFits, NoConflict, Renaming, Saving, Graphs, Ids
  <2> QED
    BY <1>9, <2>1, OtherTree DEF SaveWrite, TreeInv, TypeInv
<1>10. ASSUME Crash, UNCHANGED faults PROVE TreeInv'
  <2>1. TypeInv' /\ StepFits' /\ NoConflict'
    BY <1>10 DEF Crash, Over, TreeInv, TypeInv, StepFits, NoConflict, Renaming, Saving
  <2> QED
    BY <1>10, <2>1, OtherTree DEF Crash, Over, TreeInv, TypeInv
<1>11. CASE UNCHANGED vars
  BY <1>11 DEF vars, TreeInv, TypeInv, StepFits, Fresh, NoConflict
<1> QED
  BY <1>1, <1>2, <1>3, <1>4, <1>5, <1>6, <1>7, <1>8, <1>9, <1>10, <1>11,
     UpdateTree, RollbackTree DEF Next, RenameStep, DeleteStep, SaveStep

(* The types hold in every reachable state.                                  *)
THEOREM TypeCorrect == Spec => []TypeInv
<1>1. TreeInv => TypeInv
  BY DEF TreeInv
<1> QED
  BY <1>1, InitTree, NextTree, PTL DEF Spec

(* With any number of requests that overlap, nest packages, rename the root, take *)
(* its slug and crash, the tree on disk passes validate_package_tree, and no *)
(* request is refused by it: the handlers' own checks are enough.            *)
THEOREM TreeStaysValid == Spec => []TreeAlwaysValid
<1>1. TreeInv => TreeAlwaysValid
  BY DEF TreeInv, TreeAlwaysValid, NoConflict
<1> QED
  BY <1>1, InitTree, NextTree, PTL DEF Spec

SlugsOf(ps) == {p.slug : p \in ToSet(ps)}

-----------------------------------------------------------------------------
(* The packages that Without keeps, as a set.                                *)
LEMMA WithoutSet ==
  ASSUME NEW ps \in Seq(PackageDoc), NEW ids
  PROVE  ToSet(Without(ps, ids)) = {p \in ToSet(ps) : p.id \notin ids}
<1> DEFINE ns == Without(ps, ids)
<1>1. PICK from \in [1..Len(ns) -> 1..Len(ps)] : Keeps(ps, ids, Len(ps), ns, from)
  BY WithoutKeeps
<1>2. ns \in Seq(PackageDoc)
  BY WithoutKeeps
<1> HIDE DEF ns
<1>3. /\ \A i \in 1..Len(ns) : ns[i] = ps[from[i]] /\ ps[from[i]].id \notin ids
      /\ \A k \in 1..Len(ps) : ps[k].id \notin ids => \E i \in 1..Len(ns) : from[i] = k
  BY <1>1, Zenon DEF Keeps
<1>4. \A i \in 1..Len(ns) : from[i] \in 1..Len(ps)
  BY <1>1
<1>5. ToSet(ns) = {ns[i] : i \in 1..Len(ns)} /\ ToSet(ps) = {ps[i] : i \in 1..Len(ps)}
  BY <1>2, Docs
<1>6. \A p \in ToSet(ns) : p \in ToSet(ps) /\ p.id \notin ids
  BY <1>3, <1>4, <1>5
<1>7. \A p \in ToSet(ps) : p.id \notin ids => p \in ToSet(ns)
  BY <1>3, <1>5
<1>8. ToSet(ns) = {p \in ToSet(ps) : p.id \notin ids}
  BY <1>6, <1>7
<1> QED
  BY <1>8 DEF ns

(* The packages after one was appended, as a set.                            *)
LEMMA ExtendedSet ==
  ASSUME NEW ps \in Seq(PackageDoc), NEW new \in PackageDoc, NEW ns, Extended(ps, new, ns)
  PROVE  ToSet(ns) = ToSet(ps) \cup {new}
<1>1. /\ ns \in Seq(PackageDoc) /\ DOMAIN ns = DOMAIN ps \cup {Len(ps) + 1}
      /\ ns[Len(ps) + 1] = new /\ \A i \in DOMAIN ps : ns[i] = ps[i]
  BY Zenon DEF Extended
<1>2. /\ ToSet(ps) = {ps[i] : i \in DOMAIN ps}
      /\ ToSet(ns) = {ns[i] : i \in DOMAIN ps \cup {Len(ps) + 1}}
  BY <1>1, Zenon DEF ToSet
<1> QED
  BY <1>1, <1>2

-----------------------------------------------------------------------------
(* A request is under way.                                                   *)
Active(c) == pc[c] \notin Over \cup {"idle"}

(* All packages but the root are right below it and have other slugs than it. *)
Flat ==
  \A p \in ToSet(packages) :
    \/ p.parent = None /\ p.id = Root /\ p.slug = Main
    \/ p.parent = Root /\ p.slug # Main

(* The requests nest nothing and leave the root and its slug alone.          *)
Polite ==
  \A c \in Calls : pc[c] # "idle" =>
    /\ req[c].kind = "create" => req[c].parent = Root /\ req[c].slug # Main
    /\ req[c].kind = "rename" => req[c].slug # Main /\ req[c].to # Main

(* A graph.json is in a directory.                                           *)
GraphsInFolders == \A s \in Slugs : graph[s] # None => s \in folders

(* No graph was saved for a package that is not yet created.                 *)
NeverSaved == \A c \in Calls : pc[c] \in {"idle", "update"} => saved[c] = None

(* The graph of each package's folder is the one last saved for it.          *)
GraphsInPlace == \A p \in ToSet(packages) : saved[p.id] # None => graph[p.slug] = saved[p.id]

(* And every folder is a package's.                                          *)
InPlace == GraphsInPlace /\ folders \subseteq SlugsOf(packages)

(* A rename is written and its folder, if there is one, not yet moved: the graph *)
(* of the package is still in the folder of the old slug, and the new slug has none. *)
Moving(c) ==
  LET from == req[c].slug
      to   == req[c].to
  IN  /\ pc[c] # "rollback"
      /\ pc[c] \in {"probe_to", "move"} => from \in folders
      /\ to \in SlugsOf(packages) /\ from \notin SlugsOf(packages)
      /\ folders \subseteq (SlugsOf(packages) \ {to}) \cup {from}
      /\ \A p \in ToSet(packages) :
           saved[p.id] # None => graph[IF p.slug = to THEN from ELSE p.slug] = saved[p.id]

(* A delete is written and some of its folders are still there.              *)
Cleaning(c) ==
  /\ GraphsInPlace
  /\ todo[c] \cap SlugsOf(packages) = {}
  /\ folders \subseteq SlugsOf(packages) \cup todo[c]

(* What holds while a request is at each of its steps.                       *)
Phase(c) ==
  /\ pc[c] \in Renaming => Moving(c)
  /\ pc[c] = "clean" => Cleaning(c)
  /\ pc[c] \in {"update"} \cup Saving => InPlace
  /\ pc[c] \in {"make_folder", "write"} => FolderOf(req[c]) \in SlugsOf(packages)
  /\ pc[c] = "write" => FolderOf(req[c]) \in folders

(* One request at a time, and what holds between and during requests.        *)
SerialInv ==
  faults = {} =>
    /\ \A c, d \in Calls : Active(c) /\ Active(d) => c = d
    /\ Flat /\ Polite /\ GraphsInFolders /\ NeverSaved
    /\ Quiet => InPlace
    /\ \A c \in Calls : Active(c) => Phase(c)

(* In a flat tree slugs tell packages apart, although the validator only asks *)
(* that they tell siblings apart, and the root is there.                     *)
LEMMA FlatTree ==
  ASSUME packages \in Seq(PackageDoc), Valid(packages), Flat
  PROVE  /\ \A p, q \in ToSet(packages) : p.slug = q.slug => p = q
         /\ \A p, q \in ToSet(packages) : p.id = q.id => p = q
         /\ \E p \in ToSet(packages) : p.id = Root /\ p.slug = Main /\ p.parent = None
<1>1. PICK r \in DOMAIN packages : IsRoot(packages, r)
  BY ValidForm
<1>2. IdsDiffer(packages) /\ SiblingsDiffer(packages)
  BY ValidForm
<1>3. \A i \in DOMAIN packages : packages[i] \in ToSet(packages)
  BY Docs
<1>4. \A p \in ToSet(packages) : \E i \in DOMAIN packages : p = packages[i]
  BY Docs
<1>5. \A i, j \in DOMAIN packages : packages[i].slug = packages[j].slug => i = j
  BY <1>1, <1>2, <1>3 DEF Flat, IsRoot, SiblingsDiffer
<1>6. packages[r].id = Root /\ packages[r].slug = Main /\ packages[r].parent = None
  BY <1>1, <1>3, NoneIsNoId DEF Flat, IsRoot, Ids
<1> QED
  BY <1>2, <1>3, <1>4, <1>5, <1>6 DEF IdsDiffer

(* What a step of the one active request has to show.                        *)
LEMMA SerialStep ==
  ASSUME TreeInv, SerialInv, faults = {}, NEW c \in Calls, Active(c),
         NEW s, pc' = [pc EXCEPT ![c] = s], s # "idle", UNCHANGED <<faults, req>>,
         Flat', GraphsInFolders', NeverSaved',
         Active(c)' => Phase(c)', ~Active(c)' => InPlace'
  PROVE  SerialInv'
<1>1. \A d \in Calls : d # c => pc'[d] = pc[d]
  BY DEF TreeInv, TypeInv
<1>2. ASSUME NEW d \in Calls, Active(d)' PROVE d = c
  BY <1>1, <1>2 DEF SerialInv, Active
<1>3. Polite'
  <2>1. pc[c] # "idle" /\ Polite
    BY DEF Active, SerialInv
  <2> QED
    BY <1>1, <2>1 DEF Polite
<1>4. Quiet' => ~Active(c)'
  BY DEF Quiet, Active
<1>5. \A d \in Calls : Active(d)' => Phase(d)'
  BY <1>2
<1> HIDE DEF Active, Phase, InPlace, Flat, GraphsInFolders, NeverSaved
<1> QED
  BY <1>2, <1>3, <1>4, <1>5 DEF SerialInv

-----------------------------------------------------------------------------
(* A project starts with its folders in place.                               *)
LEMMA InitSerial == Init => SerialInv
<1> SUFFICES ASSUME Init PROVE SerialInv
  OBVIOUS
<1>1. Main \in Slugs /\ Root \in Ids /\ First \in Ids /\ Root # First /\ None \notin Ids
  BY TreeAssumption DEF Ids
<1>2. PICK s \in Slugs \ {Main} :
        packages \in {<<[id |-> Root, slug |-> Main, parent |-> None]>>,
                      <<[id |-> Root, slug |-> Main, parent |-> None],
                        [id |-> First, slug |-> s, parent |-> Root]>>}
  BY DEF Init
<1> DEFINE root == [id |-> Root, slug |-> Main, parent |-> None]
           one  == [id |-> First, slug |-> s, parent |-> Root]
<1>3. ToSet(packages) \in {{root}, {root, one}}
  <2>1. ToSet(<<root>>) = {root} /\ ToSet(<<root, one>>) = {root, one}
    <3> HIDE DEF root, one
    <3> QED
      BY DEF ToSet
  <2> QED
    BY <1>2, <2>1
<1>4. Flat
  BY <1>1, <1>2, <1>3 DEF Flat
<1>5. folders = SlugsOf(packages)
  BY DEF Init, SlugsOf
<1>6. graph = [t \in Slugs |-> IF t = Main THEN Root ELSE IF t \in folders THEN First ELSE None]
  BY DEF Init
<1>7. GraphsInFolders
  <2>1. root \in ToSet(packages) /\ root.slug = Main
    BY <1>3
  <2> HIDE DEF root
  <2>2. Main \in folders
    BY <1>5, <2>1 DEF SlugsOf
  <2> QED
    BY <1>6, <2>2 DEF GraphsInFolders
<1>8. saved = [i \in Ids |-> IF \E p \in ToSet(packages) : p.id = i THEN i ELSE None]
  BY DEF Init
<1>9. NeverSaved
  <2>1. \A c \in Calls : c \in Ids /\ c # Root /\ c # First
    BY TreeAssumption DEF Ids
  <2> QED
    BY <1>3, <1>8, <2>1 DEF NeverSaved
<1>10. GraphsInPlace
  <2>1. SUFFICES ASSUME NEW p \in ToSet(packages) PROVE graph[p.slug] = saved[p.id]
    BY DEF GraphsInPlace
  <2>2. p.slug \in folders
    BY <1>5 DEF SlugsOf
  <2>3. p.id \in Ids /\ saved[p.id] = p.id
    BY <1>1, <1>3, <1>8
  <2>4. p.slug \in Slugs /\ (p.slug = Main => p.id = Root) /\ (p.slug # Main => p.id = First)
    BY <1>1, <1>2, <1>3
  <2> QED
    BY <1>6, <2>2, <2>3, <2>4
<1>11. Polite /\ \A c \in Calls : ~Active(c)
  BY DEF Init, Polite, Active
<1> QED
  BY <1>4, <1>5, <1>7, <1>9, <1>10, <1>11 DEF SerialInv, InPlace

(* A request begins while no other is under way.                             *)
LEMMA BeginSerial ==
  ASSUME TreeInv, SerialInv, faults = {}, NEW c \in Calls, Begin(c), UNCHANGED faults
  PROVE  SerialInv'
<1>1. PICK q \in Request :
        /\ q.kind = "create" => q.parent = Root \/ "nested" \in faults
        /\ Takes(q, Main) => "main_again" \in faults
        /\ q.kind = "rename" => q.slug # Main \/ "rename_root" \in faults
        /\ req' = [req EXCEPT ![c] = q]
        /\ pc' = [pc EXCEPT ![c] = IF q.kind \in {"save", "save_root"}
                                     THEN "lock" ELSE "update"]
  BY DEF Begin, Goto
<1>2. /\ q.kind = "create" => q.parent = Root /\ q.slug # Main
      /\ q.kind = "rename" => q.slug # Main /\ q.to # Main
  BY <1>1 DEF Takes
<1>3. Quiet /\ InPlace /\ pc[c] = "idle"
  BY DEF Begin, SerialInv
<1>4. UNCHANGED <<packages, folders, graph, todo, saved>>
  BY DEF Begin
<1>5. /\ pc'[c] \in {"lock", "update"} /\ req'[c] = q
      /\ \A d \in Calls : d # c => pc'[d] = pc[d] /\ req'[d] = req[d]
  BY <1>1 DEF TreeInv, TypeInv
<1>6. \A d \in Calls : Active(d)' <=> d = c
  BY <1>3, <1>5 DEF Active, Over, Quiet
<1>7. ~Quiet'
  BY <1>5 DEF Quiet, Over
<1>8. Flat' /\ GraphsInFolders' /\ InPlace'
  BY <1>3, <1>4 DEF SerialInv, Flat, GraphsInFolders, InPlace, GraphsInPlace
<1>9. NeverSaved'
  BY <1>3, <1>4, <1>5 DEF SerialInv, NeverSaved
<1>10. Polite'
  BY <1>2, <1>5 DEF SerialInv, Polite
<1>11. Phase(c)'
  BY <1>5, <1>8 DEF Phase, Renaming, Saving
<1> HIDE DEF Active, Phase, InPlace, Flat, GraphsInFolders, NeverSaved, Polite
<1> QED
  BY <1>6, <1>7, <1>8, <1>9, <1>10, <1>11 DEF SerialInv

(* What the update leaves, by kind of request. *)
LEMMA CreateSerial ==
  ASSUME TreeInv, faults = {}, Flat, Polite, NeverSaved, InPlace,
         NEW c \in Calls, pc[c] = "update", req[c].kind = "create",
         packages' = Mutated(c, req[c]), UNCHANGED <<folders, graph, saved>>
  PROVE  Flat' /\ InPlace'
<1> DEFINE q   == req[c]
           new == [id |-> c, slug |-> q.slug, parent |-> q.parent]
<1>1. q \in Request /\ q.slug \in Slugs /\ q.parent = Root /\ q.slug # Main
  BY RequestFields DEF TreeInv, StepFits, Polite
<1>2. packages' = Append(packages, new)
  BY DEF Mutated
<1>3. new \in PackageDoc /\ new.id = c /\ new.slug = q.slug /\ new.parent = Root
  BY <1>1, TreeAssumption DEF PackageDoc, Ids
<1> HIDE DEF new, q
<1>4. ToSet(packages') = ToSet(packages) \cup {new}
  BY <1>2, <1>3, AppendExtends, ExtendedSet DEF TreeInv, TypeInv
<1>5. saved[c] = None
  BY DEF NeverSaved
<1> QED
  BY <1>1, <1>3, <1>4, <1>5 DEF Flat, InPlace, GraphsInPlace, SlugsOf

(* After rename_package has written project.json: the folder is still to be moved. *)
LEMMA RenameSerial ==
  ASSUME TreeInv, faults = {}, Flat, Polite, GraphsInFolders, InPlace,
         NEW c \in Calls, pc[c] = "update", req[c].kind = "rename", Allowed(req[c]),
         packages' = Mutated(c, req[c]), UNCHANGED <<folders, graph, saved, req>>
  PROVE  /\ Flat'
         /\ req[c].to = req[c].slug => InPlace'
         /\ req[c].to # req[c].slug /\ pc'[c] = "probe_from" => Moving(c)'
<1> DEFINE q == req[c]
           k == Find(q.slug)
           ps == packages
<1>1. /\ ps \in Seq(PackageDoc) /\ Valid(ps) /\ q \in Request
      /\ q.slug \in Slugs /\ q.to \in Slugs /\ q.slug # Main /\ q.to # Main
  BY RequestFields DEF TreeInv, TypeInv, StepFits, Polite
<1>2. Found(q.slug) /\ (q.to # q.slug => ~Sibling(ps[k].parent, q.to))
  BY DEF Allowed, RenameAllowed, Target
<1>3. k \in DOMAIN ps /\ ps[k].slug = q.slug
  BY <1>1, <1>2, FindFirst
<1>4. packages' = [ps EXCEPT ![k].slug = q.to]
  BY Zenon DEF Mutated
<1> HIDE DEF q, k
<1>5. Relabelled(ps, k, q.to, packages')
  <2> DEFINE ns == [ps EXCEPT ![k].slug = q.to]
  <2>1. Relabelled(ps, k, q.to, ns)
    BY <1>1, <1>3, ExceptRelabels
  <2>2. packages' = ns
    BY <1>4
  <2> HIDE DEF ns
  <2> QED
    BY <2>1, <2>2
<1>6. /\ packages' \in Seq(PackageDoc) /\ DOMAIN packages' = DOMAIN ps
      /\ \A i \in DOMAIN ps : /\ packages'[i].id = ps[i].id /\ packages'[i].parent = ps[i].parent
                              /\ packages'[i].slug = IF i = k THEN q.to ELSE ps[i].slug
  BY <1>5 DEF Relabelled
<1>7. /\ ToSet(ps) = {ps[i] : i \in DOMAIN ps}
      /\ ToSet(packages') = {packages'[i] : i \in DOMAIN ps}
  BY <1>1, <1>6, Zenon DEF ToSet
<1>8. \A p, r \in ToSet(ps) : p.slug = r.slug => p = r
  BY <1>1, FlatTree
<1>9. \A i \in DOMAIN ps : ps[i].slug = q.slug => i = k
  <2>1. \A i \in DOMAIN ps : ps[i].slug = q.slug => ps[i] = ps[k]
    BY <1>3, <1>7, <1>8
  <2> QED
    BY <1>1, <1>3, <2>1, ValidForm DEF IdsDiffer
<1>10. Flat'
  BY <1>1, <1>3, <1>6, <1>7 DEF Flat
<1>11. ASSUME q.to = q.slug PROVE InPlace'
  <2>1. \A p \in ToSet(packages') : \E r \in ToSet(ps) : p.id = r.id /\ p.slug = r.slug
    BY <1>3, <1>6, <1>7, <1>11
  <2>2. \A r \in ToSet(ps) : \E p \in ToSet(packages') : p.slug = r.slug
    BY <1>3, <1>6, <1>7, <1>11
  <2> QED
    BY <2>1, <2>2 DEF InPlace, GraphsInPlace, SlugsOf
<1>12. ASSUME q.to # q.slug, pc'[c] = "probe_from" PROVE Moving(c)'
  <2>1. ps[k].parent = Root
    BY <1>1, <1>3, <1>7 DEF Flat
  <2>2. q.to \notin SlugsOf(ps)
    <3>1. \A p \in ToSet(ps) : p.slug = q.to => p.parent = Root
      BY <1>1 DEF Flat
    <3> QED
      BY <1>2, <1>12, <2>1, <3>1 DEF Sibling, SlugsOf
  <2>3. \A i \in DOMAIN ps : packages'[i].slug # q.slug
    BY <1>6, <1>9, <1>12
  <2>4. SlugsOf(packages') = (SlugsOf(ps) \ {q.slug}) \cup {q.to}
    BY <1>3, <1>6, <1>7, <1>9, <2>3 DEF SlugsOf
  <2>5. \A p \in ToSet(packages') :
          \E r \in ToSet(ps) : /\ p.id = r.id
                               /\ r.slug = IF p.slug = q.to THEN q.slug ELSE p.slug
    <3>1. \A i \in DOMAIN ps : ps[i].slug # q.to
      BY <1>7, <2>2 DEF SlugsOf
    <3>2. \A i \in DOMAIN ps : ps[i].slug = IF packages'[i].slug = q.to THEN q.slug
                                                                       ELSE packages'[i].slug
      BY <1>3, <1>6, <3>1
    <3> QED
      BY <1>6, <1>7, <3>2
  <2>6. /\ q.to \in SlugsOf(packages') /\ q.slug \notin SlugsOf(packages')
        /\ folders \subseteq (SlugsOf(packages') \ {q.to}) \cup {q.slug}
    BY <1>12, <2>2, <2>4 DEF InPlace
  <2>7. \A p \in ToSet(packages') :
          saved[p.id] # None => graph[IF p.slug = q.to THEN q.slug ELSE p.slug] = saved[p.id]
    BY <2>5 DEF InPlace, GraphsInPlace
  <2> QED
    BY <1>12, <2>6, <2>7 DEF Moving, q
<1> QED
  BY <1>10, <1>11, <1>12 DEF q

(* After delete_package has written project.json: the folders are still to go. *)
LEMMA DeleteSerial ==
  ASSUME TreeInv, faults = {}, Flat, InPlace,
         NEW c \in Calls, pc[c] = "update", req[c].kind = "delete",
         packages' = Mutated(c, req[c]), todo' = [todo EXCEPT ![c] = DoomedSlugs(req[c])],
         UNCHANGED <<folders, graph, saved>>
  PROVE  Flat' /\ Cleaning(c)'
<1> DEFINE q == req[c]
<1>1. packages \in Seq(PackageDoc) /\ Valid(packages) /\ todo'[c] = DoomedSlugs(q)
  BY DEF TreeInv, TypeInv
<1>2. ToSet(packages') = {p \in ToSet(packages) : p.id \notin Doomed(q)}
  BY <1>1, WithoutSet DEF Mutated
<1>3. \A p, r \in ToSet(packages) : p.slug = r.slug => p = r
  BY <1>1, FlatTree
<1>4. DoomedSlugs(q) = {p.slug : p \in {r \in ToSet(packages) : r.id \in Doomed(q)}}
  BY DEF DoomedSlugs
<1> HIDE DEF q
<1>5. Flat'
  BY <1>2 DEF Flat
<1>6. /\ DoomedSlugs(q) \cap SlugsOf(packages') = {}
      /\ SlugsOf(packages) \subseteq SlugsOf(packages') \cup DoomedSlugs(q)
  BY <1>2, <1>3, <1>4 DEF SlugsOf
<1>7. GraphsInPlace'
  BY <1>2 DEF InPlace, GraphsInPlace
<1> QED
  BY <1>1, <1>5, <1>6, <1>7 DEF Cleaning, InPlace

(* mutate_project with each of the three closures.                           *)
LEMMA UpdateSerial ==
  ASSUME TreeInv, SerialInv, faults = {}, NEW c \in Calls, Update(c), UNCHANGED faults
  PROVE  SerialInv'
<1> DEFINE q == req[c]
<1>1. /\ pc[c] = "update" /\ q \in Request /\ q.kind \in {"create", "rename", "delete"}
      /\ c \notin IdsOf(packages) /\ packages \in Seq(PackageDoc) /\ Valid(packages)
      /\ UNCHANGED <<folders, graph, holder, req, saved>>
  BY DEF TreeInv, TypeInv, StepFits, Fresh, Update
<1>2. Active(c) /\ Flat /\ Polite /\ GraphsInFolders /\ NeverSaved /\ InPlace
  BY <1>1 DEF SerialInv, Active, Over, Phase
<1> HIDE DEF q
<1>3. GraphsInFolders'
  BY <1>1, <1>2 DEF GraphsInFolders
<1>4. ASSUME NEW s, s \notin {"idle", "update"}, pc' = [pc EXCEPT ![c] = s]
      PROVE  NeverSaved' /\ pc'[c] = s
  BY <1>1, <1>2, <1>4 DEF NeverSaved, TreeInv, TypeInv
<1>5. CASE ~Allowed(q)
  <2>1. Verdict(c, q) = "failed"
    BY <1>5 DEF Verdict
  <2>2. packages' = packages /\ pc' = [pc EXCEPT ![c] = "failed"]
    BY <2>1, Zenon DEF Update, q, Goto
  <2>3. NeverSaved' /\ pc'[c] = "failed"
    BY <1>4, <2>2
  <2>4. ~Active(c)' /\ Flat' /\ InPlace'
    BY <1>1, <1>2, <2>2, <2>3 DEF Active, Over, Flat, InPlace, GraphsInPlace
  <2> HIDE DEF Flat, InPlace, GraphsInFolders, NeverSaved, Active
  <2> QED
    BY <1>1, <1>2, <1>3, <2>2, <2>3, <2>4, SerialStep
<1>6. CASE Allowed(q)
  <2>1. Valid(Mutated(c, q))
    BY <1>1, <1>6, MutatedValid
  <2>2. Verdict(c, q) = AfterUpdate(q)
    BY <1>6, <2>1 DEF Verdict
  <2>3. AfterUpdate(q) \in {"done", "probe_from", "clean"}
    BY <1>1 DEF AfterUpdate
  <2>4. /\ packages' = Mutated(c, q) /\ pc' = [pc EXCEPT ![c] = AfterUpdate(q)]
        /\ q.kind = "delete" => todo' = [todo EXCEPT ![c] = DoomedSlugs(q)]
    BY <2>2, <2>3 DEF Update, q, Goto
  <2>5. NeverSaved' /\ pc'[c] = AfterUpdate(q)
    BY <1>4, <2>3, <2>4
  <2>6. /\ Flat'
        /\ Active(c)' => Phase(c)'
        /\ ~Active(c)' => InPlace'
    <3>1. CASE q.kind = "create"
      <4>1. Flat' /\ InPlace'
        BY <1>1, <1>2, <2>4, <3>1, CreateSerial DEF q
      <4>2. ~Active(c)'
        BY <2>5, <3>1 DEF AfterUpdate, Active, Over
      <4> QED
        BY <4>1, <4>2
    <3>2. CASE q.kind = "rename"
      <4>1. /\ Flat'
            /\ q.to = q.slug => InPlace'
            /\ q.to # q.slug /\ pc'[c] = "probe_from" => Moving(c)'
        BY <1>1, <1>2, <1>6, <2>4, <3>2, RenameSerial DEF q
      <4>2. /\ q.to = q.slug => pc'[c] = "done"
            /\ q.to # q.slug => pc'[c] = "probe_from"
        BY <2>5, <3>2 DEF AfterUpdate
      <4> QED
        BY <4>1, <4>2 DEF Active, Over, Phase, Saving
    <3>3. CASE q.kind = "delete"
      <4>1. Flat' /\ Cleaning(c)'
        BY <1>1, <1>2, <2>4, <3>3, DeleteSerial DEF q
      <4>2. pc'[c] = "clean"
        BY <2>5, <3>3 DEF AfterUpdate
      <4> QED
        BY <4>1, <4>2 DEF Active, Over, Phase, Renaming, Saving
    <3> QED
      BY <1>1, <3>1, <3>2, <3>3
  <2> HIDE DEF Flat, InPlace, GraphsInFolders, NeverSaved, Active, Phase
  <2> QED
    BY <1>1, <1>2, <1>3, <2>3, <2>4, <2>5, <2>6, SerialStep
<1> QED
  BY <1>5, <1>6

(* rename_package_dir: it finds the new slug's folder absent, so it never fails. *)
LEMMA RenameStepSerial ==
  ASSUME TreeInv, SerialInv, faults = {}, NEW c \in Calls, RenameStep(c), UNCHANGED faults
  PROVE  SerialInv'
<1> DEFINE from == req[c].slug
           to   == req[c].to
<1>1. /\ pc[c] \in Renaming /\ UNCHANGED <<req, todo, saved>>
  BY DEF RenameStep, ProbeFrom, ProbeTo, Move, Rollback, Renaming
<1>2. /\ from \in Slugs /\ to \in Slugs /\ from # to
      /\ graph \in [Slugs -> Graphs \cup {None}] /\ pc \in [Calls -> Steps]
  BY <1>1, RequestFields DEF TreeInv, TypeInv, StepFits, Renaming
<1>3. Active(c) /\ Flat /\ GraphsInFolders /\ NeverSaved /\ Moving(c)
  BY <1>1 DEF SerialInv, Active, Over, Phase, Renaming
<1>4. \A p \in ToSet(packages) : p.slug \in Slugs
  BY Docs DEF TreeInv, TypeInv, PackageDoc
<1>5. ASSUME NEW s, s \notin {"idle", "update"}, pc' = [pc EXCEPT ![c] = s]
      PROVE  NeverSaved' /\ pc'[c] = s
  BY <1>1, <1>2, <1>3, <1>5 DEF NeverSaved
<1> HIDE DEF from, to
<1>6. CASE ProbeFrom(c) /\ from \notin folders
  <2>1. pc' = [pc EXCEPT ![c] = "done"] /\ UNCHANGED <<packages, folders, graph>>
    BY <1>6 DEF ProbeFrom, Goto, from
  <2>2. NeverSaved' /\ pc'[c] = "done"
    BY <1>5, <2>1
  <2>3. graph[from] = None
    BY <1>2, <1>3, <1>6 DEF GraphsInFolders
  <2>4. \A p \in ToSet(packages) : saved[p.id] # None => graph[p.slug] = saved[p.id]
    BY <1>3, <2>3 DEF Moving, from, to
  <2>5. folders \subseteq SlugsOf(packages)
    BY <1>3, <1>6 DEF Moving, from, to
  <2>6. ~Active(c)' /\ Flat' /\ GraphsInFolders' /\ InPlace'
    BY <1>1, <1>3, <2>1, <2>2, <2>4, <2>5
    DEF Active, Over, Flat, GraphsInFolders, InPlace, GraphsInPlace
  <2> HIDE DEF Flat, InPlace, GraphsInFolders, NeverSaved, Active, Phase
  <2> QED
    BY <1>1, <1>3, <2>1, <2>2, <2>6, SerialStep
<1>7. CASE (ProbeFrom(c) /\ from \in folders) \/ ProbeTo(c)
  <2>1. to \notin folders
    BY <1>2, <1>3 DEF Moving, from, to
  <2>2. PICK s \in {"probe_to", "move"} :
          pc' = [pc EXCEPT ![c] = s] /\ UNCHANGED <<packages, folders, graph>>
    BY <1>7, <2>1 DEF ProbeFrom, ProbeTo, Goto, from, to
  <2>3. from \in folders
    BY <1>3, <1>7 DEF ProbeTo, Moving, from, to
  <2>4. NeverSaved' /\ pc'[c] = s
    BY <1>5, <2>2
  <2>5. Moving(c)'
    BY <1>1, <1>3, <2>2, <2>3, <2>4 DEF Moving, from, to
  <2>6. Active(c)' /\ Phase(c)' /\ Flat' /\ GraphsInFolders'
    BY <1>3, <2>2, <2>4, <2>5
    DEF Active, Over, Phase, Renaming, Saving, Flat, GraphsInFolders
  <2> HIDE DEF Flat, InPlace, GraphsInFolders, NeverSaved, Active, Phase
  <2> QED
    BY <1>1, <1>3, <2>2, <2>4, <2>6, SerialStep
<1>8. CASE Move(c)
  <2>1. pc[c] = "move"
    BY <1>8 DEF Move
  <2>2. from \in folders /\ to \notin folders
    BY <1>2, <1>3, <2>1 DEF Moving, from, to
  <2>3. graph[to] = None
    BY <1>2, <1>3, <2>2 DEF GraphsInFolders
  <2>4. /\ pc' = [pc EXCEPT ![c] = "done"]
        /\ folders' = (folders \ {from}) \cup {to}
        /\ graph' = MovedGraph(from, to)
        /\ UNCHANGED packages
    BY <1>8, <2>2, <2>3 DEF Move, Goto, from, to
  <2>5. /\ graph'[from] = None /\ graph'[to] = graph[from]
        /\ \A t \in Slugs : t # from /\ t # to => graph'[t] = graph[t]
    BY <1>2, <2>4 DEF MovedGraph
  <2>6. NeverSaved' /\ pc'[c] = "done"
    BY <1>5, <2>4
  <2>7. GraphsInFolders'
    BY <1>2, <1>3, <2>2, <2>4, <2>5 DEF GraphsInFolders
  <2>8. /\ to \in SlugsOf(packages) /\ from \notin SlugsOf(packages)
        /\ folders \subseteq (SlugsOf(packages) \ {to}) \cup {from}
        /\ \A p \in ToSet(packages) :
             saved[p.id] # None => graph[IF p.slug = to THEN from ELSE p.slug] = saved[p.id]
    BY <1>3 DEF Moving, from, to
  <2>9. GraphsInPlace'
    <3>1. \A p \in ToSet(packages) : p.slug # from
      BY <2>8 DEF SlugsOf
    <3>2. \A p \in ToSet(packages) : saved[p.id] # None => graph'[p.slug] = saved[p.id]
      BY <1>4, <2>5, <2>8, <3>1
    <3> QED
      BY <1>1, <2>4, <3>2 DEF GraphsInPlace
  <2>10. folders' \subseteq SlugsOf(packages)
    BY <2>4, <2>8
  <2>11. ~Active(c)' /\ Flat' /\ InPlace'
    BY <1>3, <2>4, <2>6, <2>9, <2>10 DEF Active, Over, Flat, InPlace
  <2> HIDE DEF Flat, InPlace, GraphsInFolders, NeverSaved, Active, Phase
  <2> QED
    BY <1>1, <1>3, <2>4, <2>6, <2>7, <2>11, SerialStep
<1>9. CASE Rollback(c)
  BY <1>3, <1>9 DEF Rollback, Moving
<1> QED
  BY <1>6, <1>7, <1>8, <1>9 DEF RenameStep, ProbeFrom

(* delete_package_dir: no folder that it removes is that of a package that stayed. *)
LEMMA DeleteStepSerial ==
  ASSUME TreeInv, SerialInv, faults = {}, NEW c \in Calls, DeleteStep(c), UNCHANGED faults
  PROVE  SerialInv'
<1>1. pc[c] = "clean" /\ UNCHANGED <<packages, req, saved>>
  BY DEF DeleteStep, CleanFolder, CleanEnd
<1>2. /\ graph \in [Slugs -> Graphs \cup {None}] /\ pc \in [Calls -> Steps]
      /\ todo \in [Calls -> SUBSET Slugs]
      /\ \A p \in ToSet(packages) : p.slug \in Slugs
  BY Docs DEF TreeInv, TypeInv, PackageDoc
<1>3. Active(c) /\ Flat /\ GraphsInFolders /\ NeverSaved /\ Cleaning(c)
  BY <1>1 DEF SerialInv, Active, Over, Phase
<1>4. CASE CleanFolder(c)
  <2>1. PICK s \in todo[c] :
          /\ todo' = [todo EXCEPT ![c] = @ \ {s}]
          /\ folders' = folders \ {s}
          /\ graph' = [graph EXCEPT ![s] = None]
    BY <1>4 DEF CleanFolder
  <2>2. pc' = pc /\ pc' = [pc EXCEPT ![c] = "clean"]
    BY <1>1, <1>2, <1>4 DEF CleanFolder
  <2>3. /\ todo'[c] = todo[c] \ {s} /\ s \in Slugs /\ graph'[s] = None
        /\ \A t \in Slugs : t # s => graph'[t] = graph[t]
    BY <1>2, <2>1
  <2>4. s \notin SlugsOf(packages)
    BY <1>3 DEF Cleaning
  <2>5. GraphsInFolders' /\ Flat' /\ NeverSaved'
    BY <1>1, <1>3, <2>1, <2>2, <2>3 DEF GraphsInFolders, Flat, NeverSaved
  <2>6. GraphsInPlace'
    <3>1. \A p \in ToSet(packages) : graph'[p.slug] = graph[p.slug]
      BY <1>2, <2>3, <2>4 DEF SlugsOf
    <3> QED
      BY <1>1, <1>3, <3>1 DEF Cleaning, GraphsInPlace
  <2>7. Cleaning(c)'
    BY <1>1, <1>3, <2>1, <2>3, <2>4, <2>6 DEF Cleaning
  <2>8. Active(c)' /\ Phase(c)'
    BY <1>1, <2>2, <2>7 DEF Active, Over, Phase, Renaming, Saving
  <2> HIDE DEF Flat, InPlace, GraphsInFolders, NeverSaved, Active, Phase
  <2> QED
    BY <1>1, <1>3, <2>2, <2>5, <2>8, SerialStep
<1>5. CASE CleanEnd(c)
  <2>1. /\ todo[c] = {} /\ pc' = [pc EXCEPT ![c] = "done"] /\ UNCHANGED <<folders, graph>>
    BY <1>5 DEF CleanEnd, Goto
  <2>2. pc'[c] = "done" /\ \A d \in Calls : d # c => pc'[d] = pc[d]
    BY <1>2, <2>1
  <2>3. GraphsInFolders' /\ Flat' /\ NeverSaved'
    BY <1>1, <1>3, <2>1, <2>2 DEF GraphsInFolders, Flat, NeverSaved
  <2>4. ~Active(c)' /\ InPlace'
    BY <1>1, <1>3, <2>1, <2>2 DEF Active, Over, Cleaning, InPlace, GraphsInPlace
  <2> HIDE DEF Flat, InPlace, GraphsInFolders, NeverSaved, Active, Phase
  <2> QED
    BY <1>1, <1>3, <2>1, <2>3, <2>4, SerialStep
<1> QED
  BY <1>4, <1>5 DEF DeleteStep

(* save_graph_for_package: it writes the folder of the one package of that slug. *)
LEMMA SaveStepSerial ==
  ASSUME TreeInv, SerialInv, faults = {}, NEW c \in Calls, SaveStep(c), UNCHANGED faults
  PROVE  SerialInv'
<1> DEFINE q == req[c]
           s == FolderOf(q)
<1>1. /\ pc[c] \in Saving /\ UNCHANGED <<packages, req>>
  BY DEF SaveStep, SaveLock, MakeFolder, SaveWrite, Saving
<1>2. /\ graph \in [Slugs -> Graphs \cup {None}] /\ pc \in [Calls -> Steps]
      /\ saved \in [Ids -> Ids \cup {None}]
      /\ packages \in Seq(PackageDoc) /\ Valid(packages)
      /\ q \in Request /\ q.kind \in {"save", "save_root"}
      /\ s \in Slugs
  BY <1>1, RequestFields, TreeAssumption DEF TreeInv, TypeInv, StepFits, Saving, FolderOf
<1>3. Active(c) /\ Flat /\ GraphsInFolders /\ NeverSaved /\ InPlace /\ Phase(c)
  BY <1>1 DEF SerialInv, Active, Over, Phase, Saving
<1>4. /\ \A p, r \in ToSet(packages) : p.slug = r.slug => p = r
      /\ \A p, r \in ToSet(packages) : p.id = r.id => p = r
      /\ \E p \in ToSet(packages) : p.id = Root /\ p.slug = Main
  BY <1>2, <1>3, FlatTree
<1>5. ASSUME NEW t, t \notin {"idle", "update"}, pc' = [pc EXCEPT ![c] = t]
      PROVE  pc'[c] = t /\ \A d \in Calls : d # c => pc'[d] = pc[d]
  BY <1>2, <1>5
<1> HIDE DEF q
<1>6. CASE SaveLock(c)
  <2>1. /\ UNCHANGED <<folders, graph, saved>>
        /\ \/ /\ q.kind = "save" => Found(q.slug)
              /\ pc' = [pc EXCEPT ![c] = "make_folder"]
           \/ pc' = [pc EXCEPT ![c] = "failed"]
    BY <1>6 DEF SaveLock, Goto, q
  <2>2. PICK t \in {"make_folder", "failed"} :
          /\ pc' = [pc EXCEPT ![c] = t]
          /\ t = "make_folder" /\ q.kind = "save" => Found(q.slug)
    BY <2>1
  <2>3. pc'[c] = t /\ \A d \in Calls : d # c => pc'[d] = pc[d]
    BY <1>5, <2>2
  <2>4. t = "make_folder" => s \in SlugsOf(packages)
    BY <1>2, <1>4, <2>2, FindFirst DEF FolderOf, SlugsOf
  <2>5. GraphsInFolders' /\ Flat' /\ NeverSaved' /\ InPlace'
    BY <1>1, <1>3, <2>1, <2>3 DEF GraphsInFolders, Flat, NeverSaved, InPlace, GraphsInPlace
  <2>6. Active(c)' => Phase(c)'
    BY <1>1, <2>3, <2>4, <2>5 DEF Active, Over, Phase, Renaming, Saving, q
  <2> HIDE DEF Flat, InPlace, GraphsInFolders, NeverSaved, Active, Phase
  <2> QED
    BY <1>1, <1>3, <2>2, <2>5, <2>6, SerialStep
<1>7. CASE MakeFolder(c)
  <2>1. /\ UNCHANGED <<graph, saved>> /\ folders' = folders \cup {s}
        /\ pc[c] = "make_folder" /\ pc' = [pc EXCEPT ![c] = "write"]
    BY <1>7 DEF MakeFolder, Goto, q
  <2>2. pc'[c] = "write" /\ \A d \in Calls : d # c => pc'[d] = pc[d]
    BY <1>5, <2>1
  <2>3. s \in SlugsOf(packages)
    BY <1>3, <2>1 DEF Phase, q
  <2>4. GraphsInFolders' /\ Flat' /\ NeverSaved' /\ InPlace'
    BY <1>1, <1>3, <2>1, <2>2, <2>3
    DEF GraphsInFolders, Flat, NeverSaved, InPlace, GraphsInPlace
  <2>5. Active(c)' => Phase(c)'
    BY <1>1, <2>1, <2>2, <2>3, <2>4 DEF Active, Over, Phase, Renaming, Saving, q
  <2> HIDE DEF Flat, InPlace, GraphsInFolders, NeverSaved, Active, Phase
  <2> QED
    BY <1>1, <1>3, <2>1, <2>4, <2>5, SerialStep
<1>8. CASE SaveWrite(c)
  <2>1. pc[c] = "write" /\ s \in SlugsOf(packages) /\ s \in folders
    BY <1>3, <1>8 DEF SaveWrite, Phase, q
  <2>2. /\ pc' = [pc EXCEPT ![c] = "done"] /\ UNCHANGED folders
        /\ graph' = [graph EXCEPT ![s] = c]
        /\ saved' = [saved EXCEPT ![IdOf(q)] = c]
    BY <1>8, <2>1 DEF SaveWrite, Goto, q
  <2>3. pc'[c] = "done" /\ \A d \in Calls : d # c => pc'[d] = pc[d]
    BY <1>5, <2>2
  <2>4. PICK p \in ToSet(packages) : p.slug = s /\ p.id = IdOf(q)
    <3>1. CASE q.kind = "save_root"
      BY <1>4, <3>1 DEF FolderOf, IdOf
    <3>2. CASE q.kind = "save"
      <4>1. Found(q.slug)
        BY <1>2, <2>1, <3>2, FindFirst DEF FolderOf, SlugsOf
      <4>2. Find(q.slug) \in DOMAIN packages /\ Target(q.slug).slug = q.slug
        BY <1>2, <4>1, FindFirst DEF Target
      <4>3. Target(q.slug) \in ToSet(packages)
        BY <1>2, <4>2, Docs DEF Target
      <4> QED
        BY <3>2, <4>2, <4>3 DEF FolderOf, IdOf
    <3> QED
      BY <1>2, <3>1, <3>2
  <2>5. \A r \in ToSet(packages) : r.slug \in Slugs /\ r.id \in Ids
    BY <1>2, Docs DEF PackageDoc
  <2>6. /\ graph'[s] = c /\ \A t \in Slugs : t # s => graph'[t] = graph[t]
        /\ saved'[p.id] = c /\ \A i \in Ids : i # p.id => saved'[i] = saved[i]
    BY <1>2, <2>2, <2>4, <2>5
  <2>7. GraphsInFolders' /\ Flat'
    BY <1>1, <1>3, <2>1, <2>2, <2>6 DEF GraphsInFolders, Flat
  <2>8. NeverSaved'
    <3>1. \A d \in Calls : pc'[d] \in {"idle", "update"} => d # p.id /\ pc'[d] = pc[d]
      BY <2>3 DEF TreeInv, Fresh, IdsOf
    <3> QED
      BY <1>3, <2>6, <3>1 DEF NeverSaved, Ids
  <2>9. \A r \in ToSet(packages) : saved'[r.id] # None => graph'[r.slug] = saved'[r.id]
    <3> SUFFICES ASSUME NEW r \in ToSet(packages), saved'[r.id] # None
                 PROVE  graph'[r.slug] = saved'[r.id]
      OBVIOUS
    <3>1. CASE r = p
      BY <2>4, <2>6, <3>1
    <3>2. CASE r # p
      <4>1. r.slug # s /\ r.id # p.id
        BY <1>4, <2>4, <3>2
      <4> QED
        BY <1>3, <2>5, <2>6, <4>1 DEF InPlace, GraphsInPlace
    <3> QED
      BY <3>1, <3>2
  <2>10. ~Active(c)' /\ InPlace'
    BY <1>1, <1>3, <2>2, <2>3, <2>9 DEF Active, Over, InPlace, GraphsInPlace
  <2> HIDE DEF Flat, InPlace, GraphsInFolders, NeverSaved, Active, Phase
  <2> QED
    BY <1>1, <1>3, <2>2, <2>7, <2>8, <2>10, SerialStep
<1> QED
  BY <1>6, <1>7, <1>8 DEF SaveStep

(* Every step keeps the invariant.                                           *)
LEMMA NextSerial == ASSUME TreeInv, SerialInv, [Next]_vars PROVE SerialInv'
<1> SUFFICES ASSUME faults' = {} PROVE SerialInv'
  BY DEF SerialInv
<1>1. faults = {} /\ UNCHANGED faults
  BY DEF Next, vars
<1>2. ~Crash
  BY <1>1 DEF Crash
<1>3. CASE UNCHANGED vars
  BY <1>3 DEF vars, SerialInv, Flat, Polite, GraphsInFolders, NeverSaved, InPlace,
              GraphsInPlace, Phase, Moving, Cleaning, Active, Quiet
<1> QED
  BY <1>1, <1>2, <1>3, BeginSerial, UpdateSerial, RenameStepSerial, DeleteStepSerial,
     SaveStepSerial DEF Next

(* One request after the other, each package's folder has the graph that was last *)
(* saved for it, however often packages are created, renamed and deleted.    *)
THEOREM GraphsFollowPackages == Spec => []GraphFollowsPackage
<1>1. TreeInv /\ SerialInv => GraphFollowsPackage
  BY DEF SerialInv, InPlace, GraphsInPlace, Ordinary, GraphFollowsPackage
<1> QED
  BY <1>1, InitTree, InitSerial, NextTree, NextSerial, PTL DEF Spec

(* And no folder is left that belongs to no package.                         *)
THEOREM FoldersBelong == Spec => []NoStrayFolder
<1>1. TreeInv /\ SerialInv => NoStrayFolder
  BY DEF SerialInv, InPlace, Ordinary, NoStrayFolder, SlugsOf
<1> QED
  BY <1>1, InitTree, InitSerial, NextTree, NextSerial, PTL DEF Spec
==================================================================================
