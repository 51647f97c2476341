--------------------------- MODULE CodegenCacheProofs ---------------------------
(***************************************************************************)
(* What holds of CodegenCache for any number of calls and any contents.    *)
(* That a skipped generation would have changed nothing is not inductive:  *)
(* it rests on what the files are while a generation is under way, and on  *)
(* what the entry of a deleted project becomes.                            *)
(***************************************************************************)
EXTENDS CodegenCache, TLAPS

LEMMA OutputType ==
  ASSUME NEW p \in Project, NEW f \in Files
  PROVE  Output(f, p) \in Contents
BY DEF Contents

-----------------------------------------------------------------------------
(* Types.  A call that has its project has its tree.                       *)
HasTree == \A c \in Calls : pc[c] = "load_graphs" => loaded[c].tree # None

TypeInv == TypeOK /\ HasTree

LEMMA InitType == Init => TypeInv
<1> SUFFICES ASSUME Init PROVE TypeInv
  OBVIOUS
<1>1. saved \in Project \cup {None} /\ last_hash \in Graphs \cup {None} /\ upset \in BOOLEAN
      /\ left \subseteq Files
  BY DEF Init
<1>2. src \in [Files -> Contents \cup {None}]
  BY DEF Init
<1>3. pc \in [Calls -> Steps] /\ kind \in [Calls -> Kinds \cup {None}]
  BY DEF Init, Steps
<1>4. loaded \in [Calls -> [graphs : Graphs \cup {None}, tree : Trees \cup {None}]]
  BY DEF Init
<1>5. \A c \in Calls : pc[c] = "idle"
  BY DEF Init
<1> QED
  BY <1>1, <1>2, <1>3, <1>4, <1>5 DEF TypeInv, TypeOK, HasTree, Generating, Files

LEMMA StepType == TypeInv /\ [Next]_vars => TypeInv'
<1> SUFFICES ASSUME TypeInv, [Next]_vars PROVE TypeInv'
  OBVIOUS
<1> USE CacheAssumption DEF TypeInv, TypeOK, HasTree, Steps, Goto, Generating, Files, observed
<1>1. ASSUME NEW c \in Calls, Change(c) PROVE TypeInv'
  <2>1. saved' \in Project \cup {None}
    BY <1>1 DEF Change, Project
  <2>2. upset' \in BOOLEAN /\ kind' \in [Calls -> Kinds \cup {None}]
    <3>1. upset' = upset \/ upset' = TRUE
      BY <1>1 DEF Change
    <3>2. upset' \in BOOLEAN
      BY <3>1, Zenon
    <3>3. \E k \in Kinds : kind' = [kind EXCEPT ![c] = k]
      BY <1>1 DEF Change, Call
    <3>4. kind' \in [Calls -> Kinds \cup {None}]
      BY <3>3
    <3> QED
      BY <3>2, <3>4
  <2>3. pc' = [pc EXCEPT ![c] = "done"] /\ UNCHANGED <<src, last_hash, loaded, left>>
    BY <1>1 DEF Change
  <2> QED
    BY <2>1, <2>2, <2>3
<1>2. ASSUME NEW c \in Calls, Create(c) PROVE TypeInv'
  <2>1. saved' \in Project \cup {None} /\ kind' \in [Calls -> Kinds \cup {None}]
    BY <1>2 DEF Create, Call
  <2>2. pc' = [pc EXCEPT ![c] = "done"] /\ UNCHANGED <<src, last_hash, loaded, observed>>
    BY <1>2 DEF Create
  <2> QED
    BY <2>1, <2>2
<1>3. ASSUME NEW c \in Calls, Delete(c) PROVE TypeInv'
  BY <1>3 DEF Delete, Call
<1>4. ASSUME NEW c \in Calls, Forget(c) PROVE TypeInv'
  BY <1>4 DEF Forget, Forgotten
<1>5. ASSUME NEW c \in Calls, LoadProject(c) PROVE TypeInv'
  <2>1. kind' \in [Calls -> Kinds \cup {None}]
    BY <1>5 DEF LoadProject, Call
  <2>2. CASE saved = None
    BY <1>5, <2>1, <2>2 DEF LoadProject, AfterProject
  <2>3. CASE saved # None
    <3>1. saved.tree \in Trees
      BY <2>3 DEF Project
    <3>2. loaded' = [loaded EXCEPT ![c].tree = saved.tree]
      BY <1>5, <2>3 DEF LoadProject
    <3>3. pc' = [pc EXCEPT ![c] = "load_graphs"]
      BY <1>5, <2>3 DEF LoadProject, AfterProject
    <3>4. UNCHANGED <<saved, src, last_hash, observed>>
      BY <1>5 DEF LoadProject
    <3>5. loaded' \in [Calls -> [graphs : Graphs \cup {None}, tree : Trees \cup {None}]]
      BY <3>1, <3>2
    <3>6. loaded'[c].tree # None /\ \A d \in Calls \ {c} : loaded'[d] = loaded[d]
      BY <3>1, <3>2
    <3> QED
      BY <2>1, <3>3, <3>4, <3>5, <3>6
  <2> QED
    BY <2>2, <2>3
<1>6. ASSUME NEW c \in Calls, LoadGraphs(c) PROVE TypeInv'
  <2>1. PICK g \in Graphs : loaded' = [loaded EXCEPT ![c].graphs = g]
    BY <1>6 DEF LoadGraphs
  <2> QED
    BY <1>6, <2>1 DEF LoadGraphs, AfterLoad
<1>7. ASSUME NEW c \in Calls, Check(c) PROVE TypeInv'
  BY <1>7 DEF Check, Unchanged
<1>8. ASSUME NEW c \in Calls, WriteFile(c) PROVE TypeInv'
  <2>1. PICK m \in Markets :
          src' = [src EXCEPT ![pc[c]] =
                   Output(pc[c], [graphs |-> loaded[c].graphs,
                                  tree |-> loaded[c].tree, market |-> m])]
    BY <1>8 DEF WriteFile, Written
  <2>2. [graphs |-> loaded[c].graphs, tree |-> loaded[c].tree, market |-> m] \in Project
    BY <1>8 DEF WriteFile, Project
  <2>3. pc[c] \in Files
    BY <1>8 DEF WriteFile, Files
  <2>4. src' \in [Files -> Contents \cup {None}]
    BY <2>1, <2>2, <2>3, OutputType
  <2>5. AfterFile(c) \in {"rest", "lib", "cargo", "insert", "generated"}
    BY <1>8 DEF WriteFile, AfterFile
  <2>6. upset' \in BOOLEAN
    BY <1>8 DEF WriteFile
  <2> QED
    BY <1>8, <2>4, <2>5, <2>6 DEF WriteFile
<1>9. ASSUME NEW c \in Calls, Fail(c) PROVE TypeInv'
  <2>1. left' \subseteq Files
    BY <1>9 DEF Fail, Before
  <2> QED
    BY <1>9, <2>1 DEF Fail, HashAfterFailure
<1>10. ASSUME NEW c \in Calls, Insert(c) PROVE TypeInv'
  BY <1>10 DEF Insert
<1>11. CASE Crash
  BY <1>11 DEF Crash, InFlight
<1>12. CASE UNCHANGED vars
  BY <1>12 DEF vars
<1> QED
  BY <1>1, <1>2, <1>3, <1>4, <1>5, <1>6, <1>7, <1>8, <1>9, <1>10, <1>11, <1>12
     DEF Next, Regen

(* Every variable keeps its type, and no call generates from inputs it has *)
(* not read, whatever overlaps.                                            *)
THEOREM TypeCorrect == Spec => []TypeOK
<1>1. TypeInv => TypeOK
  BY DEF TypeInv
<1> QED
  BY InitType, StepType, <1>1, PTL DEF Spec

-----------------------------------------------------------------------------
(* From here on only builds overlap.                                       *)
OnlyBuildsOverlap == "overlap" \notin Faults

Loaded  == {"check", "insert"} \cup Generating
Reading == {"load_graphs"} \cup Loaded

(* The files that a call has written by now. *)
Emitted(c) == CASE pc[c] \in Files   -> Before(pc[c])
                [] pc[c] = "insert" -> Files
                [] OTHER            -> {}


(* The project with the graphs of an earlier moment. *)
With(g) == [graphs |-> g, tree |-> saved.tree, market |-> saved.market]

(* Of two calls in flight both are builds. *)
Serial ==
  \A c, d \in InFlight : c = d \/ (kind[c] = "build" /\ kind[d] = "build")

(* What a call is, from where it is. *)
KindFits ==
  \A c \in Calls :
    /\ pc[c] = "forget" => kind[c] = "delete"
    /\ pc[c] \in Reading => kind[c] \in {"build", "regen"}
    /\ pc[c] \in {"check", "insert"} => kind[c] = "build"

(* A call that has read the project has read it as it is. *)
LoadedIsSaved ==
  \A c \in Calls :
    /\ pc[c] \in Reading => saved # None /\ loaded[c].tree = saved.tree
    /\ pc[c] \in Loaded => loaded[c].graphs = saved.graphs

(* The files that a generation has written so far are fresh. *)
Progress == \A c \in Calls : \A f \in Emitted(c) : src[f] = Output(f, saved)

(* The files that neither a failed generation left nor one for other       *)
(* graphs has written by now are those of the entry's graphs.              *)
EntryTrue ==
  last_hash # None /\ ~upset /\ saved # None =>
    \A f \in Files \ left :
      last_hash = saved.graphs \/ (\A c \in Calls : f \notin Emitted(c))
        => src[f] = Output(f, With(last_hash))

(* A deleted project has an entry until the delete forgets it. *)
EntryForgotten ==
  saved = None /\ last_hash # None => \E c \in Calls : pc[c] = "forget"

CacheInv ==
  /\ TypeInv
  /\ Serial
  /\ KindFits
  /\ LoadedIsSaved
  /\ Progress
  /\ EntryTrue
  /\ EntryForgotten

-----------------------------------------------------------------------------
LEMMA InitCache == Init => CacheInv
<1> SUFFICES ASSUME Init PROVE CacheInv
  OBVIOUS
<1>1. \A c \in Calls : pc[c] = "idle"
  BY DEF Init
<1>2. Serial /\ KindFits /\ LoadedIsSaved /\ Progress
  BY <1>1 DEF Serial, InFlight, KindFits, LoadedIsSaved, Progress, Reading, Loaded,
              Generating, Files, Emitted, Before
<1>3. EntryTrue /\ EntryForgotten
  BY DEF Init, EntryTrue, EntryForgotten
<1> QED
  BY InitType, <1>2, <1>3 DEF CacheInv

(* A request other than a build, and the first of several builds, begins   *)
(* when nothing is under way.                                              *)
LEMMA Alone ==
  ASSUME OnlyBuildsOverlap, TypeInv, NEW k, MayCall(k), NEW d \in Calls,
         k # "build" \/ kind[d] # "build"
  PROVE  pc[d] \in Over \cup {"idle"}
BY DEF OnlyBuildsOverlap, MayCall, InFlight


(* A call that ends disturbs nothing of what the others rely on.           *)
LEMMA Ending ==
  ASSUME CacheInv, NEW c \in Calls, NEW s \in Over, pc' = [pc EXCEPT ![c] = s],
         UNCHANGED <<saved, src, kind, loaded>>
  PROVE  Serial' /\ KindFits' /\ LoadedIsSaved' /\ Progress'
<1>1. \A d \in Calls : pc'[d] = pc[d] \/ pc'[d] \in Over
  BY DEF CacheInv, TypeInv, TypeOK
<1>2. InFlight' \subseteq InFlight
  BY <1>1 DEF InFlight
<1> QED
  BY <1>1, <1>2 DEF CacheInv, Serial, KindFits, LoadedIsSaved, Progress, Reading,
                    Loaded, Generating, Files, Emitted, Before, Over

(* Where nothing is under way, nobody relies on anything.                  *)
LEMMA Quiet ==
  ASSUME \A d \in Calls : pc'[d] \in Over \cup {"idle"}
  PROVE  Serial' /\ KindFits' /\ LoadedIsSaved' /\ Progress'
BY DEF Serial, InFlight, KindFits, LoadedIsSaved, Progress, Reading, Loaded,
       Generating, Files, Emitted, Before, Over

LEMMA StepCache ==
  ASSUME OnlyBuildsOverlap, CacheInv, [Next]_vars
  PROVE  CacheInv'
<1>0. TypeInv'
  BY StepType DEF CacheInv
<1> USE DEF Goto, Generating, Files, observed
<1>1. ASSUME NEW c \in Calls, Change(c) PROVE CacheInv'
  <2>1. \A d \in Calls : pc[d] \in Over \cup {"idle"}
    BY <1>1, Alone DEF Change, Call, CacheInv
  <2>2. \A d \in Calls : pc'[d] \in Over \cup {"idle"}
    BY <1>1, <2>1 DEF Change, Over, CacheInv, TypeInv, TypeOK
  <2>3. saved # None /\ saved' # None
    BY <1>1, CacheAssumption DEF Change, CacheInv, TypeInv, TypeOK, Project
  <2>4. EntryTrue'
    <3>1. CASE upset'
      BY <3>1 DEF EntryTrue
    <3>2. CASE ~upset'
      <4>1. ~upset /\ saved'.tree = saved.tree /\ saved'.market = saved.market
        BY <1>1, <3>2, <2>3 DEF Change, CacheInv, TypeInv, TypeOK, Project
      <4>2. UNCHANGED <<src, last_hash, left>>
        BY <1>1 DEF Change
      <4>3. \A d \in Calls : Emitted(d) = {}
        BY <2>1 DEF Emitted, Over, Files
      <4> QED
        BY <2>3, <4>1, <4>2, <4>3 DEF EntryTrue, CacheInv, With
    <3> QED
      BY <3>1, <3>2
  <2>5. EntryForgotten'
    BY <2>3 DEF EntryForgotten
  <2> QED
    BY <1>0, <2>2, <2>4, <2>5, Quiet DEF CacheInv
<1>2. ASSUME NEW c \in Calls, Create(c) PROVE CacheInv'
  <2>1. \A d \in Calls : pc[d] \in Over \cup {"idle"}
    BY <1>2, Alone DEF Create, Call, CacheInv
  <2>2. \A d \in Calls : pc'[d] \in Over \cup {"idle"}
    BY <1>2, <2>1 DEF Create, Over, CacheInv, TypeInv, TypeOK
  <2>3. last_hash = None
    BY <1>2, <2>1 DEF Create, CacheInv, EntryForgotten, Over
  <2>4. EntryTrue' /\ EntryForgotten'
    BY <1>2, <2>3 DEF Create, EntryTrue, EntryForgotten
  <2> QED
    BY <1>0, <2>2, <2>4, Quiet DEF CacheInv
<1>3. ASSUME NEW c \in Calls, Delete(c) PROVE CacheInv'
  <2>1. \A d \in Calls : pc[d] \in Over \cup {"idle"}
    BY <1>3, Alone DEF Delete, Call, CacheInv
  <2>2. \A d \in Calls : d # c => pc'[d] \in Over \cup {"idle"}
    BY <1>3, <2>1 DEF Delete, CacheInv, TypeInv, TypeOK
  <2>3. pc'[c] = "forget" /\ kind'[c] = "delete" /\ saved' = None
    BY <1>3 DEF Delete, Call, CacheInv, TypeInv, TypeOK
  <2>4. Serial' /\ KindFits'
    BY <2>2, <2>3 DEF Serial, InFlight, KindFits, Reading, Loaded, Generating, Files, Over
  <2>5. LoadedIsSaved' /\ Progress'
    BY <2>2, <2>3 DEF LoadedIsSaved, Progress, Reading, Loaded, Generating, Files, Emitted, Before, Over
  <2>6. EntryTrue' /\ EntryForgotten'
    BY <2>3 DEF EntryTrue, EntryForgotten
  <2> QED
    BY <1>0, <2>4, <2>5, <2>6 DEF CacheInv
<1>4. ASSUME NEW c \in Calls, Forget(c) PROVE CacheInv'
  <2>1. Serial' /\ KindFits' /\ LoadedIsSaved' /\ Progress'
    BY <1>4, Ending DEF Forget, Over
  <2>2. EntryTrue' /\ EntryForgotten'
    BY <1>4 DEF Forget, Forgotten, EntryTrue, EntryForgotten
  <2> QED
    BY <1>0, <2>1, <2>2 DEF CacheInv

<1>5. ASSUME NEW c \in Calls, LoadProject(c) PROVE CacheInv'
  <2>1. PICK k \in {"build", "regen"} : Call(c, k)
    BY <1>5 DEF LoadProject
  <2>2. pc[c] = "idle" /\ kind'[c] = k /\ \A d \in Calls \ {c} : kind'[d] = kind[d]
    BY <2>1 DEF Call, CacheInv, TypeInv, TypeOK
  <2>3. \A d \in Calls \ {c} :
          pc'[d] = pc[d] /\ loaded'[d].tree = loaded[d].tree
            /\ loaded'[d].graphs = loaded[d].graphs
    BY <1>5 DEF LoadProject, CacheInv, TypeInv, TypeOK
  <2>4. UNCHANGED <<saved, src, last_hash, observed>>
    BY <1>5 DEF LoadProject
  <2>5. \/ pc'[c] = "failed"
        \/ pc'[c] = "load_graphs" /\ saved # None /\ loaded'[c].tree = saved.tree
    BY <1>5 DEF LoadProject, AfterProject, CacheInv, TypeInv, TypeOK
  <2>6. Serial'
    <3>1. \A d \in InFlight : k = "build" /\ kind[d] = "build"
      BY <2>1 DEF Call, MayCall, OnlyBuildsOverlap
    <3>2. InFlight' \subseteq InFlight \cup {c}
      BY <2>3 DEF InFlight
    <3> QED
      BY <2>2, <3>1, <3>2 DEF Serial, InFlight
  <2>7. KindFits'
    BY <2>2, <2>3, <2>5 DEF KindFits, CacheInv, Reading, Loaded, Generating, Files
  <2>8. LoadedIsSaved'
    BY <2>3, <2>4, <2>5 DEF LoadedIsSaved, CacheInv, Reading, Loaded, Generating, Files
  <2>9. Progress'
    BY <2>3, <2>4, <2>5 DEF Progress, CacheInv, Emitted, Before, Files
  <2>10. EntryTrue'
    BY <2>2, <2>3, <2>4 DEF EntryTrue, CacheInv, Emitted, Before, Files, With
  <2>11. EntryForgotten'
    BY <2>2, <2>3, <2>4 DEF EntryForgotten, CacheInv
  <2> QED
    BY <1>0, <2>6, <2>7, <2>8, <2>9, <2>10, <2>11 DEF CacheInv
<1>6. ASSUME NEW c \in Calls, LoadGraphs(c) PROVE CacheInv'
  <2>1. saved # None /\ loaded[c].tree = saved.tree
    BY <1>6 DEF LoadGraphs, CacheInv, LoadedIsSaved, Reading
  <2>2. loaded' = [loaded EXCEPT ![c].graphs = saved.graphs]
    BY <1>6, <2>1 DEF LoadGraphs
  <2>3. pc[c] = "load_graphs" /\ pc' = [pc EXCEPT ![c] = AfterLoad(c)]
    BY <1>6 DEF LoadGraphs
  <2>4. UNCHANGED <<saved, src, last_hash, kind, observed>>
    BY <1>6 DEF LoadGraphs
  <2>5. AfterLoad(c) \in {"check", "nodes"} /\ (AfterLoad(c) = "check" => kind[c] = "build")
    BY DEF AfterLoad
  <2>6. Serial'
    BY <2>3, <2>4, <2>5 DEF CacheInv, TypeInv, TypeOK, Serial, InFlight, Over
  <2>7. KindFits'
    BY <2>3, <2>4, <2>5 DEF CacheInv, TypeInv, TypeOK, KindFits, Reading, Loaded, Generating, Files
  <2>8. LoadedIsSaved'
    <3>1. /\ loaded'[c].tree = saved.tree /\ loaded'[c].graphs = saved.graphs
          /\ \A d \in Calls \ {c} : loaded'[d] = loaded[d]
      BY <2>1, <2>2 DEF CacheInv, TypeInv, TypeOK
    <3> QED
      BY <2>1, <2>3, <2>4, <3>1
         DEF CacheInv, TypeInv, TypeOK, LoadedIsSaved, Reading, Loaded, Generating, Files
  <2>9. Progress'
    BY <2>3, <2>4, <2>5 DEF CacheInv, TypeInv, TypeOK, Progress, Emitted, Before, Files
  <2>10. EntryTrue' /\ EntryForgotten'
    BY <2>1, <2>3, <2>4 DEF CacheInv, TypeInv, TypeOK, EntryTrue, EntryForgotten, Emitted, Before, Files, With
  <2> QED
    BY <1>0, <2>6, <2>7, <2>8, <2>9, <2>10 DEF CacheInv
<1>7. ASSUME NEW c \in Calls, Check(c) PROVE CacheInv'
  <2>1. pc[c] = "check" /\ UNCHANGED <<saved, src, last_hash, kind, loaded, observed>>
    BY <1>7 DEF Check
  <2>2. saved # None
    BY <2>1 DEF CacheInv, LoadedIsSaved, Reading, Loaded
  <2>3. \/ pc' = [pc EXCEPT ![c] = "skipped"]
        \/ pc' = [pc EXCEPT ![c] = "nodes"]
    BY <1>7 DEF Check
  <2>4. Serial' /\ KindFits' /\ LoadedIsSaved' /\ Progress'
    <3>1. CASE pc' = [pc EXCEPT ![c] = "skipped"]
      BY <2>1, <3>1, Ending DEF Over
    <3>2. CASE pc' = [pc EXCEPT ![c] = "nodes"]
      <4>1. Serial' /\ KindFits'
        BY <2>1, <3>2 DEF CacheInv, TypeInv, TypeOK, Serial, InFlight, Over, KindFits,
                          Reading, Loaded, Generating, Files
      <4>2. LoadedIsSaved' /\ Progress'
        BY <2>1, <3>2 DEF CacheInv, TypeInv, TypeOK, LoadedIsSaved, Progress,
                          Reading, Loaded, Generating, Files, Emitted, Before
      <4> QED
        BY <4>1, <4>2
    <3> QED
      BY <2>3, <3>1, <3>2
  <2>5. EntryTrue' /\ EntryForgotten'
    BY <2>1, <2>2, <2>3 DEF CacheInv, TypeInv, TypeOK, EntryTrue, EntryForgotten, Emitted, Before, Files, With
  <2> QED
    BY <1>0, <2>4, <2>5 DEF CacheInv
<1>8. ASSUME NEW c \in Calls, WriteFile(c) PROVE CacheInv'
  <2>1. pc[c] \in Generating /\ saved # None /\ loaded[c].tree = saved.tree
          /\ loaded[c].graphs = saved.graphs
    BY <1>8 DEF WriteFile, CacheInv, LoadedIsSaved, Reading, Loaded
  <2>2. src' = [src EXCEPT ![pc[c]] = Output(pc[c], saved)]
    <3>1. src' = [src EXCEPT ![pc[c]] =
                   Output(pc[c], [graphs |-> loaded[c].graphs,
                                  tree |-> loaded[c].tree, market |-> saved.market])]
      BY <1>8, <2>1 DEF WriteFile, Written
    <3>2. saved = [graphs |-> loaded[c].graphs, tree |-> loaded[c].tree,
                   market |-> saved.market]
      BY <2>1 DEF CacheInv, TypeInv, TypeOK, Project
    <3> QED
      BY <3>1, <3>2
  <2>3. \A f \in Files : src'[f] = IF f = pc[c] THEN Output(f, saved) ELSE src[f]
    BY <2>2 DEF CacheInv, TypeInv, TypeOK
  <2>4. pc' = [pc EXCEPT ![c] = AfterFile(c)]
          /\ UNCHANGED <<saved, last_hash, kind, loaded>>
    BY <1>8 DEF WriteFile
  <2>5. /\ pc[c] = "nodes" => AfterFile(c) = "rest"
        /\ pc[c] = "rest" => AfterFile(c) = "lib"
        /\ pc[c] = "lib" => AfterFile(c) = "cargo"
        /\ pc[c] = "cargo" =>
             AfterFile(c) = IF kind[c] = "build" THEN "insert" ELSE "generated"
    BY DEF AfterFile
  <2>6. Serial'
    BY <2>1, <2>4 DEF CacheInv, TypeInv, TypeOK, Serial, InFlight, Over, Generating, Files
  <2>7. KindFits'
    BY <2>1, <2>4, <2>5 DEF CacheInv, TypeInv, TypeOK, KindFits, Reading, Loaded, Generating, Files
  <2>8. LoadedIsSaved'
    BY <2>1, <2>4 DEF CacheInv, TypeInv, TypeOK, LoadedIsSaved, Reading, Loaded, Generating, Files
  <2>9. Progress'
    <3>1. Emitted(c)' \subseteq Emitted(c) \cup {pc[c]}
      BY <2>1, <2>4, <2>5 DEF Emitted, Before, Files, CacheInv, TypeInv, TypeOK
    <3>2. \A d \in Calls \ {c} : Emitted(d)' = Emitted(d)
      BY <2>4 DEF Emitted, CacheInv, TypeInv, TypeOK
    <3>3. \A d \in Calls : Emitted(d) \subseteq Files
      BY DEF Emitted, Before, Files
    <3>4. ASSUME NEW d \in Calls, NEW f \in Emitted(d)' PROVE src'[f] = Output(f, saved)
      <4>1. f \in Emitted(d) \/ f = pc[c]
        BY <3>1, <3>2, <3>4
      <4>2. f \in Files
        BY <2>1, <3>3, <4>1
      <4>3. f \in Emitted(d) => src[f] = Output(f, saved)
        BY DEF CacheInv, Progress
      <4> QED
        BY <2>3, <4>1, <4>2, <4>3
    <3> QED
      BY <2>4, <3>4 DEF Progress
  <2>10. EntryTrue'
    <3>1. SUFFICES ASSUME last_hash # None, ~upset', NEW f \in Files \ left,
                          last_hash = saved.graphs \/ \A d \in Calls : f \notin Emitted(d)'
                   PROVE  src'[f] = Output(f, With(last_hash))
      BY <1>8, <2>4 DEF WriteFile, EntryTrue, With
    <3>2. ~upset /\ kind[c] = "build"
      BY <1>8, <2>1, <3>1 DEF WriteFile, CacheInv, KindFits, Reading, Loaded
    <3>3. CASE last_hash = saved.graphs
      <4>1. saved = With(last_hash)
        BY <2>1, <3>3 DEF With, CacheInv, TypeInv, TypeOK, Project
      <4>2. src[f] = Output(f, With(last_hash))
        BY <2>1, <3>1, <3>2, <3>3 DEF CacheInv, EntryTrue
      <4> QED
        BY <2>3, <3>1, <4>1, <4>2
    <3>4. CASE \A d \in Calls : f \notin Emitted(d)'
      <4>1. Emitted(c)' = Emitted(c) \cup {pc[c]}
        BY <2>1, <2>4, <2>5, <3>2 DEF Emitted, Before, Files, CacheInv, TypeInv, TypeOK
      <4>2. \A d \in Calls \ {c} : Emitted(d)' = Emitted(d)
        BY <2>4 DEF Emitted, CacheInv, TypeInv, TypeOK
      <4>3. f # pc[c] /\ \A d \in Calls : f \notin Emitted(d)
        BY <3>4, <4>1, <4>2
      <4>4. src[f] = Output(f, With(last_hash))
        BY <2>1, <3>1, <3>2, <4>3 DEF CacheInv, EntryTrue
      <4> QED
        BY <2>3, <3>1, <4>3, <4>4
    <3> QED
      BY <3>1, <3>3, <3>4
  <2>11. EntryForgotten'
    BY <2>1, <2>4 DEF EntryForgotten
  <2> QED
    BY <1>0, <2>6, <2>7, <2>8, <2>9, <2>10, <2>11 DEF CacheInv
<1>9. ASSUME NEW c \in Calls, Fail(c) PROVE CacheInv'
  <2>1. Serial' /\ KindFits' /\ LoadedIsSaved' /\ Progress'
    BY <1>9, Ending DEF Fail, Over
  <2>2. EntryTrue'
    <3>1. pc[c] \in Files /\ saved # None /\ loaded[c].graphs = saved.graphs
            /\ UNCHANGED <<saved, src, last_hash, upset>>
      BY <1>9 DEF Fail, HashAfterFailure, CacheInv, LoadedIsSaved, Reading, Loaded
    <3>2. CASE last_hash = saved.graphs
      <4>1. left' = left
        BY <1>9, <3>1, <3>2 DEF Fail, Unchanged
      <4> QED
        BY <3>1, <3>2, <4>1 DEF CacheInv, EntryTrue, With
    <3>3. CASE last_hash # saved.graphs
      <4>1. left' = left \cup Before(pc[c])
        BY <1>9, <3>1, <3>3 DEF Fail, Unchanged
      <4>2. Emitted(c) = Before(pc[c])
        BY <3>1 DEF Emitted
      <4>3. \A d \in Calls \ {c} : Emitted(d)' = Emitted(d)
        BY <1>9 DEF Fail, Emitted, CacheInv, TypeInv, TypeOK
      <4>4. ASSUME last_hash # None, ~upset, NEW f \in Files \ left',
                   \A d \in Calls : f \notin Emitted(d)'
            PROVE  src[f] = Output(f, With(last_hash))
        <5>1. f \in Files \ left /\ \A d \in Calls : f \notin Emitted(d)
          BY <4>1, <4>2, <4>3, <4>4
        <5> QED
          BY <3>1, <4>4, <5>1 DEF CacheInv, EntryTrue
      <4> QED
        BY <3>1, <3>3, <4>4 DEF EntryTrue, With
    <3> QED
      BY <3>2, <3>3
  <2>3. EntryForgotten'
    BY <1>9 DEF Fail, EntryForgotten, CacheInv, LoadedIsSaved, Reading, Loaded
  <2> QED
    BY <1>0, <2>1, <2>2, <2>3 DEF CacheInv
<1>10. ASSUME NEW c \in Calls, Insert(c) PROVE CacheInv'
  <2>1. Serial' /\ KindFits' /\ LoadedIsSaved' /\ Progress'
    BY <1>10, Ending DEF Insert, Over
  <2>2. saved # None /\ loaded[c].graphs = saved.graphs
    BY <1>10 DEF Insert, CacheInv, LoadedIsSaved, Reading, Loaded
  <2>3. \A f \in Files : src[f] = Output(f, saved)
    BY <1>10 DEF Insert, CacheInv, Progress, Emitted, Before, Files
  <2>4. saved = With(saved.graphs)
    BY <2>2 DEF With, CacheInv, TypeInv, TypeOK, Project
  <2>5. EntryTrue'
    BY <1>10, <2>2, <2>3, <2>4 DEF Insert, EntryTrue, With
  <2>6. EntryForgotten'
    BY <1>10, <2>2 DEF Insert, EntryForgotten
  <2> QED
    BY <1>0, <2>1, <2>5, <2>6 DEF CacheInv
<1>11. CASE Crash
  <2>1. \A d \in Calls : pc'[d] \in Over \cup {"idle"}
    BY <1>11 DEF Crash, InFlight, Over
  <2>2. EntryTrue' /\ EntryForgotten'
    BY <1>11 DEF Crash, EntryTrue, EntryForgotten
  <2> QED
    BY <1>0, <2>1, <2>2, Quiet DEF CacheInv
<1>12. CASE UNCHANGED vars
  BY <1>0, <1>12 DEF vars, CacheInv, Serial, InFlight, KindFits, LoadedIsSaved,
                     Progress, EntryTrue, EntryForgotten, With, Emitted
<1> QED
  BY <1>1, <1>2, <1>3, <1>4, <1>5, <1>6, <1>7, <1>8, <1>9, <1>10, <1>11, <1>12
     DEF Next, Regen

(* What is true of the files, the entry and the calls in flight at every   *)
(* moment, and the reason for the two theorems below.                      *)
THEOREM CacheInvariance ==
  ASSUME OnlyBuildsOverlap
  PROVE  Spec => []CacheInv
<1>1. CacheInv /\ [Next]_vars => CacheInv'
  BY StepCache
<1> QED
  BY InitCache, <1>1, PTL DEF Spec


-----------------------------------------------------------------------------
(* A call that runs the generator to its end leaves the files of the       *)
(* project as it is saved, whatever failed, crashed, was deleted or was    *)
(* skipped before it, when only builds overlap.                            *)
THEOREM GenerationsAreFresh ==
  ASSUME OnlyBuildsOverlap
  PROVE  Spec => GenerationIsFresh
<1>1. ASSUME CacheInv, CacheInv', [Next]_vars, NEW c \in Calls, Ends(c, "generated")
      PROVE  Fresh'
  <2>1. CASE Insert(c)
    <3>1. saved # None /\ \A f \in Files : src[f] = Output(f, saved)
      BY <1>1, <2>1 DEF Insert, CacheInv, LoadedIsSaved, Progress, Reading, Loaded, Emitted, Before, Files
    <3> QED
      BY <2>1, <3>1 DEF Insert, Fresh
  <2>2. CASE WriteFile(c)
    <3>1. pc[c] = "cargo" /\ saved # None /\ UNCHANGED saved
      BY <1>1, <2>2 DEF Ends, WriteFile, AfterFile, Goto, Generating, Files, CacheInv, TypeInv,
                        TypeOK, LoadedIsSaved, Reading, Loaded
    <3>2. \A f \in Files \ {"cargo"} : src[f] = Output(f, saved)
      BY <1>1, <3>1 DEF CacheInv, Progress, Emitted, Before, Files
    <3>3. src' = [src EXCEPT !["cargo"] =
                   Output("cargo", [graphs |-> loaded[c].graphs,
                                    tree |-> loaded[c].tree, market |-> saved.market])]
      BY <2>2, <3>1 DEF WriteFile, Written
    <3>4. saved = [graphs |-> loaded[c].graphs, tree |-> loaded[c].tree,
                   market |-> saved.market]
      BY <1>1, <3>1 DEF CacheInv, TypeInv, TypeOK, Project, LoadedIsSaved, Reading,
                        Loaded, Generating, Files
    <3>5. src'["cargo"] = Output("cargo", saved)
      BY <1>1, <3>3, <3>4 DEF CacheInv, TypeInv, TypeOK, Files
    <3>6. \A f \in Files \ {"cargo"} : src'[f] = src[f]
      BY <1>1, <3>3 DEF CacheInv, TypeInv, TypeOK, Files
    <3> QED
      BY <3>1, <3>2, <3>5, <3>6 DEF Fresh, Files
  <2>3. ASSUME NEW d \in Calls, Regen(d), ~Insert(c), ~WriteFile(c) PROVE FALSE
    BY <1>1, <2>3 DEF Regen, LoadProject, LoadGraphs, Check, WriteFile, Fail, Insert,
                      Ends, Goto, AfterProject, AfterLoad, CacheInv, TypeInv, TypeOK
  <2>4. ASSUME NEW d \in Calls, Change(d) \/ Create(d) \/ Delete(d) \/ Forget(d)
        PROVE  FALSE
    BY <1>1, <2>4 DEF Change, Create, Delete, Forget, Ends, Goto, CacheInv, TypeInv, TypeOK
  <2>5. CASE Crash
    BY <1>1, <2>5 DEF Crash, Ends
  <2>6. CASE UNCHANGED vars
    BY <1>1, <2>6 DEF vars, Ends
  <2> QED
    BY <1>1, <2>1, <2>2, <2>3, <2>4, <2>5, <2>6 DEF Next
<1>2. CacheInv /\ CacheInv' /\ [Next]_vars =>
        [\A c \in Calls : Ends(c, "generated") => Fresh']_vars
  BY <1>1
<1> QED
  BY CacheInvariance, <1>2, PTL DEF Spec, GenerationIsFresh

(* A call that skips the generator skips nothing that matters, as long as  *)
(* only graphs changed since the hash was kept, but for the files that a   *)
(* generation for other graphs has written since and then failed: through  *)
(* edits and their undoing, a delete and a creation of the same slug,      *)
(* overlapping builds and restarts.                                        *)
THEOREM SkipsAreFresh ==
  ASSUME OnlyBuildsOverlap
  PROVE  Spec => SkipIsFresh
<1>1. ASSUME CacheInv, [Next]_vars, NEW c \in Calls, Ends(c, "skipped"), ~upset
      PROVE  saved' # None /\ \A f \in Files \ left : src'[f] = Output(f, saved')
  <2>1. CASE Check(c)
    <3>1. pc[c] = "check" /\ last_hash = loaded[c].graphs
            /\ UNCHANGED <<saved, src>>
      BY <1>1, <2>1 DEF Check, Ends, Goto, Unchanged, CacheInv, TypeInv, TypeOK
    <3>2. saved # None /\ last_hash = saved.graphs /\ last_hash # None
      BY <1>1, <3>1 DEF CacheInv, TypeInv, TypeOK, LoadedIsSaved, Reading, Loaded
    <3>3. saved = With(last_hash)
      BY <1>1, <3>2 DEF With, CacheInv, TypeInv, TypeOK, Project
    <3>4. \A f \in Files \ left : src[f] = Output(f, With(last_hash))
      BY <1>1, <3>2 DEF CacheInv, EntryTrue
    <3> QED
      BY <3>1, <3>2, <3>3, <3>4
  <2>2. ASSUME NEW d \in Calls, Regen(d), ~Check(c) PROVE FALSE
    BY <1>1, <2>2 DEF Regen, LoadProject, LoadGraphs, Check, WriteFile, AfterFile, Fail,
                      Insert, Ends, Goto, AfterProject, AfterLoad, Generating, Files, CacheInv,
                      TypeInv, TypeOK
  <2>3. ASSUME NEW d \in Calls, Change(d) \/ Create(d) \/ Delete(d) \/ Forget(d)
        PROVE  FALSE
    BY <1>1, <2>3 DEF Change, Create, Delete, Forget, Ends, Goto, CacheInv, TypeInv, TypeOK
  <2>4. CASE Crash
    BY <1>1, <2>4 DEF Crash, Ends
  <2>5. CASE UNCHANGED vars
    BY <1>1, <2>5 DEF vars, Ends
  <2> QED
    BY <1>1, <2>1, <2>2, <2>3, <2>4, <2>5 DEF Next
<1>2. CacheInv /\ [Next]_vars =>
        [\A c \in Calls : Ends(c, "skipped") /\ ~upset =>
            saved' # None /\ \A f \in Files \ left : src'[f] = Output(f, saved')]_vars
  BY <1>1
<1> QED
  BY CacheInvariance, <1>2, PTL DEF Spec, SkipIsFresh
================================================================================
