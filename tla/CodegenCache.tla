------------------------------ MODULE CodegenCache ------------------------------
(***************************************************************************)
(* CodegenCache (backend/src/codegen/cache.rs) and its callers in          *)
(* projects/handlers.rs: regen_project_tree_for_cargo, which Build, Run,   *)
(* Test and Debug call before they start cargo, regen_project, which       *)
(* generates without the cache, and delete_project, which forgets.         *)
(*                                                                         *)
(* What the generator reads of a project is its graphs, its package tree   *)
(* and its marketplace list; the hash is of the graphs alone.  A file it   *)
(* generates is the tuple of the inputs it is made from, and two hashes    *)
(* are equal when their graphs are.  The project is one slug.              *)
(*                                                                         *)
(* Not modelled: files of nodes that are gone, which stay; the text of     *)
(* lib.rs around its generated regions, which stays as the first           *)
(* generation made it; and the mod.rs of child packages, which keeps the   *)
(* lines of deleted children.                                              *)
(***************************************************************************)
EXTENDS Naturals

CONSTANTS
  Calls,    \* requests, each served once
  Graphs,   \* contents of the project's graph.json files
  Trees,    \* package trees
  Markets,  \* marketplace lists
  Kinds,    \* kinds of request the clients send
  Faults,   \* what clients and the server may do beyond the ordinary
  None      \* no project, no hash, no file

AllKinds == {"put_graph", "change_tree", "install", "create", "delete",
             "build", "regen"}

Project == [graphs : Graphs, tree : Trees, market : Markets]

ASSUME CacheAssumption ==
  /\ Kinds \subseteq AllKinds
  /\ Faults \subseteq {"overlap",  \* any requests overlap; without it, builds do
                       "fail",     \* the generator stops at an error
                       "crash"}    \* the server dies and starts again
  /\ None \notin Graphs \cup Trees \cup Project

VARIABLES
  saved,      \* the project as it is saved, or None
  src,        \* the generated files
  last_hash,  \* the graphs the cache's entry for the slug is the hash of, or None
  pc,         \* where each call is
  kind,       \* what each call is
  loaded,     \* the inputs each call has read
  upset,      \* has the tree or the list changed, or a generation run without
              \* the cache, since the entry was made
  left        \* the files that failed generations for other graphs than the
              \* entry's have written since it was made

\* upset and left only observe: no step depends on them.
observed == <<upset, left>>
vars == <<saved, src, last_hash, pc, kind, loaded, observed>>

-----------------------------------------------------------------------------
(* The modules of the first nodes, those of the others with main.rs, the   *)
(* regions of lib.rs, and Cargo.toml, in the order in which they are       *)
(* written.  Cargo.toml's list is read when it is written, the rest when   *)
(* the call loads the project.                                             *)
Files == {"nodes", "rest", "lib", "cargo"}
Output(f, p) == CASE f \in {"nodes", "rest"} -> <<p.graphs>>
                  [] f = "lib"   -> <<p.graphs, p.tree>>
                  [] f = "cargo" -> <<p.graphs, p.market>>

Before(f) == CASE f = "nodes" -> {}
               [] f = "rest"  -> {"nodes"}
               [] f = "lib"   -> {"nodes", "rest"}
               [] f = "cargo" -> {"nodes", "rest", "lib"}

Contents == {Output(f, p) : f \in Files, p \in Project}

Steps == {"idle", "load_graphs", "check", "nodes", "rest", "lib", "cargo", "insert",
          "forget", "skipped", "generated", "done", "failed"}
Over  == {"skipped", "generated", "done", "failed"}
Generating == Files

TypeOK ==
  /\ saved \in Project \cup {None}
  /\ src \in [Files -> Contents \cup {None}]
  /\ last_hash \in Graphs \cup {None}
  /\ pc \in [Calls -> Steps]
  /\ kind \in [Calls -> Kinds \cup {None}]
  /\ loaded \in [Calls -> [graphs : Graphs \cup {None}, tree : Trees \cup {None}]]
  /\ upset \in BOOLEAN
  /\ left \subseteq Files
  /\ \A c \in Calls : pc[c] \in {"check", "insert"} \cup Generating =>
                        loaded[c].graphs # None /\ loaded[c].tree # None

Init ==
  /\ saved \in Project \cup {None}
  /\ src = [f \in Files |-> None]
  /\ last_hash = None
  /\ pc = [c \in Calls |-> "idle"]
  /\ kind = [c \in Calls |-> None]
  /\ loaded = [c \in Calls |-> [graphs |-> None, tree |-> None]]
  /\ upset = FALSE
  /\ left = {}

-----------------------------------------------------------------------------
Goto(c, s) == pc' = [pc EXCEPT ![c] = s]

InFlight == {c \in Calls : pc[c] \notin Over \cup {"idle"}}

MayCall(k) ==
  "overlap" \in Faults \/ \A d \in InFlight : k = "build" /\ kind[d] = "build"

Call(c, k) ==
  /\ pc[c] = "idle"
  /\ k \in Kinds
  /\ MayCall(k)
  /\ kind' = [kind EXCEPT ![c] = k]

(* Requests that change what is saved, each in one step (ProjectStore and  *)
(* PackageTree have their steps).                                          *)
Change(c) ==
  /\ saved # None
  /\ \/ /\ Call(c, "put_graph")
        /\ \E g \in Graphs : saved' = [saved EXCEPT !.graphs = g]
        /\ UNCHANGED upset
     \/ /\ Call(c, "change_tree")
        /\ \E t \in Trees : saved' = [saved EXCEPT !.tree = t]
        /\ upset' = TRUE
     \/ /\ Call(c, "install")
        /\ \E m \in Markets : saved' = [saved EXCEPT !.market = m]
        /\ upset' = TRUE
  /\ Goto(c, "done")
  /\ UNCHANGED <<src, last_hash, loaded, left>>

Create(c) ==
  /\ Call(c, "create")
  /\ saved = None
  /\ saved' \in Project
  /\ Goto(c, "done")
  /\ UNCHANGED <<src, last_hash, loaded, observed>>

-----------------------------------------------------------------------------
(* delete_project                                                          *)

(* store.delete: the generated files go with the directory. *)
Delete(c) ==
  /\ Call(c, "delete")
  /\ saved # None
  /\ saved' = None
  /\ src' = [f \in Files |-> None]
  /\ Goto(c, "forget")
  /\ UNCHANGED <<last_hash, loaded, observed>>

(* What the cache holds after forget.  Mutant: forget is not called. *)
Forgotten_Kept == last_hash
Forgotten == None

Forget(c) ==
  /\ pc[c] = "forget"
  /\ last_hash' = Forgotten
  /\ Goto(c, "done")
  /\ UNCHANGED <<saved, src, kind, loaded, observed>>

-----------------------------------------------------------------------------
(* regen_project_tree_for_cargo ("build") and regen_project ("regen")      *)

AfterProject(c) == "load_graphs"

LoadProject(c) ==
  /\ \E k \in {"build", "regen"} : Call(c, k)
  /\ IF saved = None
       THEN Goto(c, "failed") /\ UNCHANGED loaded
       ELSE /\ Goto(c, AfterProject(c))
            /\ loaded' = [loaded EXCEPT ![c].tree = saved.tree]
  /\ UNCHANGED <<saved, src, last_hash, observed>>

AfterLoad(c) == IF kind[c] = "build" THEN "check" ELSE "nodes"

(* The graphs of a project deleted since are missing, which the handlers   *)
(* take for empty graphs: a value the model gives no name, so any one.     *)
LoadGraphs(c) ==
  /\ pc[c] = "load_graphs"
  /\ \E g \in Graphs :
       /\ saved # None => g = saved.graphs
       /\ loaded' = [loaded EXCEPT ![c].graphs = g]
  /\ Goto(c, AfterLoad(c))
  /\ UNCHANGED <<saved, src, last_hash, kind, observed>>

(* The cached hash is that of the loaded graphs.  Mutant: any hash will do.*)
Unchanged_Cached(c) == last_hash # None
Unchanged(c) == last_hash = loaded[c].graphs

Check(c) ==
  /\ pc[c] = "check"
  /\ Goto(c, IF Unchanged(c) THEN "skipped" ELSE "nodes")
  /\ UNCHANGED <<saved, src, last_hash, kind, loaded, observed>>

(* write_atomic_if_changed.  Mutant: a file that is there is not written.  *)
Written_IfAbsent(f, new) == IF src[f] = None THEN [src EXCEPT ![f] = new] ELSE src
Written(f, new) == [src EXCEPT ![f] = new]

AfterFile(c) ==
  CASE pc[c] = "nodes" -> "rest"
    [] pc[c] = "rest"  -> "lib"
    [] pc[c] = "lib"   -> "cargo"
    [] pc[c] = "cargo" -> IF kind[c] = "build" THEN "insert" ELSE "generated"

(* The generator writes its next file.  The directory is made again when   *)
(* it is gone; a list that cannot be read counts as empty.                 *)
WriteFile(c) ==
  /\ pc[c] \in Generating
  /\ \E m \in Markets :
       /\ saved # None => m = saved.market
       /\ src' = Written(pc[c], Output(pc[c], [graphs |-> loaded[c].graphs,
                                               tree |-> loaded[c].tree, market |-> m]))
  /\ Goto(c, AfterFile(c))
  /\ upset' = (upset \/ kind[c] = "regen")
  /\ UNCHANGED <<saved, last_hash, kind, loaded, left>>

(* "On generator failure the hash is not updated" (cache.rs 66).  Mutant:  *)
(* it is.                                                                  *)
HashAfterFailure_New(c) == loaded[c].graphs
HashAfterFailure(c) == last_hash

(* The generator stops at a node it cannot emit or a file it cannot write, *)
(* with the files before that one written.                                 *)
Fail(c) ==
  /\ "fail" \in Faults
  /\ pc[c] \in Generating
  /\ Goto(c, "failed")
  /\ last_hash' = HashAfterFailure(c)
  /\ left' = IF Unchanged(c) THEN left ELSE left \cup Before(pc[c])
  /\ UNCHANGED <<saved, src, kind, loaded, upset>>

Insert(c) ==
  /\ pc[c] = "insert"
  /\ last_hash' = loaded[c].graphs
  /\ Goto(c, "generated")
  /\ upset' = FALSE
  /\ left' = {}
  /\ UNCHANGED <<saved, src, kind, loaded>>

(* The cache is in memory only. *)
Crash ==
  /\ "crash" \in Faults
  /\ InFlight # {}
  /\ pc' = [c \in Calls |-> IF c \in InFlight THEN "failed" ELSE pc[c]]
  /\ last_hash' = None
  /\ UNCHANGED <<saved, src, kind, loaded, observed>>

Regen(c) == LoadProject(c) \/ LoadGraphs(c) \/ Check(c) \/ WriteFile(c) \/ Fail(c) \/ Insert(c)

Next ==
  \/ \E c \in Calls : Change(c) \/ Create(c) \/ Delete(c) \/ Forget(c) \/ Regen(c)
  \/ Crash

Spec == Init /\ [][Next]_vars

-----------------------------------------------------------------------------
(* The generated files are those of the project as it is saved. *)
Fresh == saved # None /\ \A f \in Files : src[f] = Output(f, saved)

Ends(c, s) == pc[c] # s /\ pc'[c] = s

(* A call that ran the generator leaves the files of the saved project,    *)
(* whatever failed, crashed or was skipped before it.                      *)
GenerationIsFresh ==
  [][\A c \in Calls : Ends(c, "generated") => Fresh']_vars

(* A call that skipped the generator found them so, as long as the graphs  *)
(* are all that changed since the entry was made: through edits and their  *)
(* undoing, deletes and creations of the same slug, overlapping builds and *)
(* failed ones.  "never a stale build" (cache.rs 20) is true of all files  *)
(* but those in left: build one graph, save another, let its build fail    *)
(* half-way, save the first again, and the next build is skipped over what *)
(* the failed one wrote (138), though 67 says that the next click retries. *)
SkipIsFresh ==
  [][\A c \in Calls : Ends(c, "skipped") /\ ~upset =>
        saved' # None /\ \A f \in Files \ left : src'[f] = Output(f, saved')]_vars
=============================================================================
