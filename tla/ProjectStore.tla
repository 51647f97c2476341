----------------------------- MODULE ProjectStore -----------------------------
(***************************************************************************)
(* ProjectStore (backend/src/projects/store.rs) seen by concurrent calls   *)
(* on one project slug: the directory on disk, the per-slug write locks,   *)
(* and each call cut at its awaits.  Calls on other slugs share nothing.   *)
(*                                                                         *)
(* A file is written by write_json_atomic, one atomic rename here, which   *)
(* fails when its directory is gone.  A graph is named by the call that    *)
(* wrote it.  Updates of the tree stand for any use of mutate_project;     *)
(* PackageTree models the handlers that use it, and per-package folders.   *)
(***************************************************************************)
EXTENDS Naturals

CONSTANTS
  Calls,      \* requests to the server, each served once
  Children,   \* slugs of child packages
  Items,      \* marketplace packages
  Kinds,      \* kinds of request the clients send
  Faults,     \* what may happen beyond the ordinary
  SlugLength, \* the number of characters of the slug
  Old,        \* names what was on disk before the first call
  None        \* no file, no mutex, no request

AllKinds == {"load", "save_graph", "add", "drop", "install", "uninstall",
             "delete", "create", "import"}

(* Slug::new takes no longer one. *)
MaxSlugLength == 40

(* project.json, of which the child packages below the root are kept. *)
Documents == [tree : SUBSET Children]

ASSUME StoreAssumption ==
  /\ Kinds \subseteq AllKinds
  /\ Faults \subseteq {"crash"}
  /\ SlugLength \in 1..MaxSlugLength
  /\ Old \notin Calls \cup {None}
  /\ None \notin Calls \cup Documents

VARIABLES
  dir,       \* the project directory exists
  project,   \* project.json
  legacy,    \* graph.json of the layout before packages
  folder,    \* the directory packages/main exists
  graph,     \* packages/main/graph.json
  market,    \* marketplace.json
  locks,     \* the locks map's mutex for the slug, named by its first taker
  pc,        \* where each call is
  req,       \* what each call was asked
  lock,      \* the mutex each call was given
  doc,       \* the project.json each call has read
  list,      \* the marketplace packages each call has read
  todo,      \* the directory entries each delete has still to remove
  seen       \* the deletes that had ended when each call asked for its mutex

disk  == <<dir, project, legacy, folder, graph, market>>
local == <<lock, doc, list, todo, seen>>
vars  == <<disk, locks, pc, req, local>>

-----------------------------------------------------------------------------
Graphs    == Calls \cup {Old}
Entries   == {"project.json", "graph.json", "packages", "marketplace.json"}

Request ==
  [kind : {"load", "save_graph", "delete", "create", "import"}]
    \cup [kind : {"add", "drop"}, pkg : Children]
    \cup [kind : {"install", "uninstall"}, item : Items]

(* Inside the critical section, when the call holds a mutex. *)
SectionSteps == {"probe_new", "probe_legacy", "migrate_folder", "migrate_rename",
                 "make_folder", "write_graph", "read_project", "write_project",
                 "save_market"}
ActiveSteps  == SectionSteps \cup
                {"peek_market", "probe", "lock_for", "waiting", "list_dir",
                 "remove_entry", "forget_lock", "create_dir",
                 "write_seed_market", "pick_slug", "next_suffix", "claim_dir",
                 "write_new_project"}
Steps        == ActiveSteps \cup {"idle", "done", "failed"}

(* A directory that is gone has nothing in it. *)
DiskOK ==
  /\ dir \in BOOLEAN
  /\ project \in Documents \cup {None}
  /\ legacy \in {Old, None}
  /\ folder \in BOOLEAN
  /\ graph \in Graphs \cup {None}
  /\ market \in (SUBSET Items) \cup {None}
  /\ ~dir => project = None /\ legacy = None /\ ~folder /\ market = None
  /\ ~folder => graph = None

CallsOK ==
  /\ locks \in Calls \cup {None}
  /\ pc \in [Calls -> Steps]
  /\ req \in [Calls -> Request \cup {None}]
  /\ lock \in [Calls -> Calls \cup {None}]
  /\ doc \in [Calls -> Documents \cup {None}]
  /\ list \in [Calls -> SUBSET Items]
  /\ todo \in [Calls -> SUBSET Entries]
  /\ seen \in [Calls -> SUBSET Calls]

TypeOK == DiskOK /\ CallsOK

(* The server has started.  The project is absent, or was left by an older *)
(* studio in the legacy layout, or by this one, or half made by a crash.   *)
Init ==
  /\ dir \in BOOLEAN
  /\ project \in Documents \cup {None}
  /\ legacy \in {Old, None}
  /\ folder \in BOOLEAN
  /\ graph \in {Old, None}
  /\ ~dir => project = None /\ legacy = None /\ ~folder
  /\ ~folder => graph = None
  /\ market = None
  /\ locks = None
  /\ pc = [c \in Calls |-> "idle"]
  /\ req = [c \in Calls |-> None]
  /\ lock = [c \in Calls |-> None]
  /\ doc = [c \in Calls |-> None]
  /\ list = [c \in Calls |-> {}]
  /\ todo = [c \in Calls |-> {}]
  /\ seen = [c \in Calls |-> {}]

-----------------------------------------------------------------------------
Kind(c) == req[c].kind

Goto(c, s) == pc' = [pc EXCEPT ![c] = s]

(* The call goes from step s to step t and to nothing else. *)
Move(c, s, t) == pc[c] = s /\ Goto(c, t)

InSection(c) == lock[c] # None /\ pc[c] \in SectionSteps

ItemsIn(m) == IF m = None THEN {} ELSE m

FirstStep(kind) ==
  CASE kind = "load" -> "probe_new"
    [] kind \in {"save_graph", "add", "drop"} -> "probe"
    [] kind \in {"install", "uninstall"} -> "peek_market"
    [] kind = "delete" -> "list_dir"
    [] kind = "create" -> "create_dir"
    [] kind = "import" -> "pick_slug"

Begin(c) ==
  /\ pc[c] = "idle"
  /\ \E q \in Request :
       /\ q.kind \in Kinds
       /\ req' = [req EXCEPT ![c] = q]
       /\ Goto(c, FirstStep(q.kind))
  /\ UNCHANGED <<disk, locks, local>>

-----------------------------------------------------------------------------
(* The existence probe and the per-slug lock                               *)

Probe(c) ==
  /\ Move(c, "probe", IF dir THEN "lock_for" ELSE "failed")
  /\ UNCHANGED <<disk, locks, req, local>>

(* entry().or_insert_with(new mutex).  Mutant: the insert is unconditional. *)
Registered_Replaced(c) == c
Registered(c) == IF locks = None THEN c ELSE locks

Deleted == {c \in Calls : pc[c] = "done" /\ Kind(c) = "delete"}

(* lock_for.  (seen only observes: no step depends on it.) *)
LockFor(c) ==
  /\ Move(c, "lock_for", "waiting")
  /\ locks' = Registered(c)
  /\ lock' = [lock EXCEPT ![c] = locks']
  /\ seen' = [seen EXCEPT ![c] = Deleted]
  /\ UNCHANGED <<disk, req, doc, list, todo>>

FirstInSection(kind) ==
  CASE kind = "save_graph" -> "probe_new"
    [] kind \in {"add", "drop"} -> "read_project"
    [] kind \in {"install", "uninstall"} -> "save_market"

(* The mutex is free.  Mutants: the call goes on without waiting; a guard  *)
(* outlives its call.                                                      *)
MutexFree_Ignored(m) == TRUE
MutexFree_Leaked(m) == \A d \in Calls : lock[d] = m => pc[d] = "waiting"
MutexFree(m) == \A d \in Calls : ~(InSection(d) /\ lock[d] = m)

(* lock().await returns the guard, which is dropped when the call ends. *)
Acquire(c) ==
  /\ MutexFree(lock[c])
  /\ Move(c, "waiting", FirstInSection(Kind(c)))
  /\ UNCHANGED <<disk, locks, req, local>>

-----------------------------------------------------------------------------
(* migrate_legacy_graph_if_needed, called with the lock by save_graph and  *)
(* without it by every load.                                               *)

AfterMigration(c) == IF Kind(c) = "load" THEN "done" ELSE "make_folder"

ProbeNew(c) ==
  /\ Move(c, "probe_new", IF graph # None THEN AfterMigration(c) ELSE "probe_legacy")
  /\ UNCHANGED <<disk, locks, req, local>>

ProbeLegacy(c) ==
  /\ Move(c, "probe_legacy", IF legacy # None THEN "migrate_folder"
                                              ELSE AfterMigration(c))
  /\ UNCHANGED <<disk, locks, req, local>>

MigrateFolder(c) ==
  /\ Move(c, "migrate_folder", "migrate_rename")
  /\ dir' = TRUE
  /\ folder' = TRUE
  /\ UNCHANGED <<project, legacy, graph, market, locks, req, local>>

(* The legacy file once it was moved.  Mutant: it is copied instead. *)
LegacyMoved_Copied == legacy
LegacyMoved == None

(* NotFound means that another loader won the race. *)
MigrateRename(c) ==
  /\ Move(c, "migrate_rename", AfterMigration(c))
  /\ IF legacy # None /\ folder
       THEN graph' = legacy /\ legacy' = LegacyMoved
       ELSE UNCHANGED <<graph, legacy>>
  /\ UNCHANGED <<dir, project, folder, market, locks, req, local>>

-----------------------------------------------------------------------------
(* save_graph, mutate_project and save_marketplace inside their section    *)

(* create_dir_all(packages/main), which makes the project directory too. *)
MakeFolder(c) ==
  /\ Move(c, "make_folder", "write_graph")
  /\ dir' = TRUE
  /\ folder' = TRUE
  /\ UNCHANGED <<project, legacy, graph, market, locks, req, local>>

AfterGraph(c) ==
  CASE Kind(c) = "save_graph" -> "read_project"
    [] Kind(c) = "create" -> "write_seed_market"
    [] Kind(c) = "import" -> "done"

WriteGraph(c) ==
  /\ Move(c, "write_graph", IF folder THEN AfterGraph(c) ELSE "failed")
  /\ graph' = IF folder THEN c ELSE graph
  /\ UNCHANGED <<dir, project, legacy, folder, market, locks, req, local>>

(* The mutator's own refusals: Conflict, NotFound. *)
Refused(c) ==
  \/ Kind(c) = "add" /\ req[c].pkg \in project.tree
  \/ Kind(c) = "drop" /\ req[c].pkg \notin project.tree

(* A missing project.json fails mutate_project; save_graph logs it, since  *)
(* the graph is saved.                                                     *)
ReadProject(c) ==
  /\ Move(c, "read_project",
          IF project = None THEN IF Kind(c) = "save_graph" THEN "done" ELSE "failed"
          ELSE IF Refused(c) THEN "failed" ELSE "write_project")
  /\ doc' = [doc EXCEPT ![c] = project]
  /\ UNCHANGED <<disk, locks, req, lock, list, todo, seen>>

Updated(c) ==
  CASE Kind(c) = "add"  -> [doc[c] EXCEPT !.tree = @ \cup {req[c].pkg}]
    [] Kind(c) = "drop" -> [doc[c] EXCEPT !.tree = @ \ {req[c].pkg}]
    [] OTHER            -> doc[c]

(* The document with updated_at bumped and, for mutate_project, the tree   *)
(* the closure made of it.                                                 *)
WriteProject(c) ==
  /\ Move(c, "write_project",
          IF dir \/ Kind(c) = "save_graph" THEN "done" ELSE "failed")
  /\ project' = IF dir THEN Updated(c) ELSE project
  /\ UNCHANGED <<dir, legacy, folder, graph, market, locks, req, local>>

-----------------------------------------------------------------------------
(* The marketplace handlers: load_marketplace takes no lock, and only the  *)
(* list it read decides what save_marketplace writes.                      *)

Wanted(c) ==
  IF Kind(c) = "install" THEN list[c] \cup {req[c].item} ELSE list[c] \ {req[c].item}

PeekMarket(c) ==
  /\ list' = [list EXCEPT ![c] = ItemsIn(market)]
  /\ Move(c, "peek_market",
          IF req[c].item \in ItemsIn(market) <=> Kind(c) = "install"
            THEN "done" ELSE "probe")
  /\ UNCHANGED <<disk, locks, req, lock, doc, todo, seen>>

SaveMarket(c) ==
  /\ Move(c, "save_market", IF dir THEN "done" ELSE "failed")
  /\ market' = IF dir THEN Wanted(c) ELSE market
  /\ UNCHANGED <<dir, project, legacy, folder, graph, locks, req, local>>

-----------------------------------------------------------------------------
(* delete: remove_dir_all, without the lock, then locks.remove             *)

Present ==
  {e \in Entries : \/ e = "project.json" /\ project # None
                   \/ e = "graph.json" /\ legacy # None
                   \/ e = "packages" /\ folder
                   \/ e = "marketplace.json" /\ market # None}

ListDir(c) ==
  /\ Move(c, "list_dir", IF dir THEN "remove_entry" ELSE "failed")
  /\ todo' = [todo EXCEPT ![c] = Present]
  /\ UNCHANGED <<disk, locks, req, lock, doc, list, seen>>

RemoveEntry(c) ==
  /\ pc[c] = "remove_entry"
  /\ \E e \in todo[c] :
       /\ todo' = [todo EXCEPT ![c] = @ \ {e}]
       /\ project' = IF e = "project.json" THEN None ELSE project
       /\ legacy' = IF e = "graph.json" THEN None ELSE legacy
       /\ folder' = IF e = "packages" THEN FALSE ELSE folder
       /\ graph' = IF e = "packages" THEN None ELSE graph
       /\ market' = IF e = "marketplace.json" THEN None ELSE market
  /\ UNCHANGED <<dir, locks, pc, req, lock, doc, list, seen>>

(* The last rmdir: NotFound when another delete was faster, an error when  *)
(* something was written since the listing.                                *)
Removable == dir /\ Present = {}

RemoveDir(c) ==
  /\ todo[c] = {}
  /\ Move(c, "remove_entry", IF Removable THEN "forget_lock" ELSE "failed")
  /\ dir' = (dir /\ ~Removable)
  /\ UNCHANGED <<project, legacy, folder, graph, market, locks, req, local>>

ForgetLock(c) ==
  /\ Move(c, "forget_lock", "done")
  /\ locks' = None
  /\ UNCHANGED <<disk, req, local>>

-----------------------------------------------------------------------------
(* create and import_archive, neither of which takes the lock              *)

(* create_dir: AlreadyExists when the directory is there. *)
CreateDir(c) ==
  /\ Move(c, "create_dir", IF dir THEN "failed" ELSE "write_new_project")
  /\ dir' = TRUE
  /\ UNCHANGED <<project, legacy, folder, graph, market, locks, req, local>>

(* The new document has the tree of the archive, or the root alone. *)
WriteNewProject(c) ==
  /\ Move(c, "write_new_project",
          IF ~dir THEN "failed"
          ELSE IF Kind(c) = "create" THEN "make_folder" ELSE "write_graph")
  /\ IF dir
       THEN \E t \in (IF Kind(c) = "create" THEN {{}} ELSE SUBSET Children) :
              project' = [tree |-> t]
       ELSE UNCHANGED project
  /\ UNCHANGED <<dir, legacy, folder, graph, market, locks, req, local>>

(* The packages the chosen template brings, if it brings any. *)
WriteSeedMarket(c) ==
  /\ \/ /\ Move(c, "write_seed_market", "done")
        /\ UNCHANGED market
     \/ /\ Move(c, "write_seed_market", IF dir THEN "done" ELSE "failed")
        /\ \E s \in (SUBSET Items) \ {{}} : market' = IF dir THEN s ELSE market
  /\ UNCHANGED <<dir, project, legacy, folder, graph, locks, req, local>>

(* exists(): a taken slug makes import_archive try it with a suffix. *)
PickSlug(c) ==
  /\ Move(c, "pick_slug", IF dir THEN "next_suffix" ELSE "claim_dir")
  /\ UNCHANGED <<disk, locks, req, local>>

(* The shortest suffix, "-1", makes a legal slug.                        *)
SuffixFits == SlugLength + 2 <= MaxSlugLength

(* A slug with a suffix is another project's, where the call has left this *)
(* one.  When every suffix makes the slug too long the loop goes round and *)
(* round, and never back to the slug itself.                               *)
NextSuffix(c) ==
  /\ Move(c, "next_suffix", IF SuffixFits THEN "failed" ELSE "next_suffix")
  /\ UNCHANGED <<disk, locks, req, local>>

(* create_dir_all, twice: it takes a directory that is there as well. *)
ClaimDir(c) ==
  /\ Move(c, "claim_dir", "write_new_project")
  /\ dir' = TRUE
  /\ folder' = TRUE
  /\ UNCHANGED <<project, legacy, graph, market, locks, req, local>>

-----------------------------------------------------------------------------
(* The server dies and starts again: the calls in flight and the locks map *)
(* are lost.                                                               *)
Crash ==
  /\ "crash" \in Faults
  /\ \E c \in Calls : pc[c] \in ActiveSteps
  /\ pc' = [c \in Calls |-> IF pc[c] \in ActiveSteps THEN "failed" ELSE pc[c]]
  /\ locks' = None
  /\ UNCHANGED <<disk, req, local>>

LockStep(c)    == Probe(c) \/ LockFor(c) \/ Acquire(c)
MigrateStep(c) == ProbeNew(c) \/ ProbeLegacy(c) \/ MigrateFolder(c) \/ MigrateRename(c)
SaveStep(c)    == MakeFolder(c) \/ WriteGraph(c) \/ ReadProject(c) \/ WriteProject(c)
MarketStep(c)  == PeekMarket(c) \/ SaveMarket(c)
DeleteStep(c)  == ListDir(c) \/ RemoveEntry(c) \/ RemoveDir(c) \/ ForgetLock(c)
CreateStep(c)  == CreateDir(c) \/ WriteNewProject(c) \/ WriteSeedMarket(c)
                  \/ PickSlug(c) \/ NextSuffix(c) \/ ClaimDir(c)

Work(c) == LockStep(c) \/ MigrateStep(c) \/ SaveStep(c) \/ MarketStep(c)
           \/ DeleteStep(c) \/ CreateStep(c)

Next == (\E c \in Calls : Begin(c) \/ Work(c)) \/ Crash

Spec == Init /\ [][Next]_vars

(* The runtime runs every call that is ready, and tokio's mutex is fair.   *)
(* (It has a worker for them: fewer imports loop than it has workers.)     *)
FairSpec == Spec /\ \A c \in Calls : WF_vars(Work(c))

-----------------------------------------------------------------------------
(* Two writers of a project are never both inside their critical sections  *)
(* (store.rs 13: "Two PUT requests racing on the same project must not     *)
(* interleave").  True of a project nobody deletes.                        *)
OneWriter == \A c, d \in Calls : InSection(c) /\ InSection(d) => c = d

(* Two writers are in their critical sections together, which store.rs 13  *)
(* rules out, only if a delete took the mutex out of the table after the   *)
(* one had asked for it and before the other did (store.rs 1858): calls    *)
(* that asked between the same two deletes exclude each other.             *)
OneWriterBetweenDeletes ==
  \A c, d \in Calls : InSection(c) /\ InSection(d) /\ seen[c] = seen[d] => c = d

(* A graph that a PUT has saved is never replaced by the legacy graph of a *)
(* migration that began before, in whatever order loads and saves run.     *)
LegacyNeverReturns ==
  (\E c \in Calls : pc[c] = "done" /\ Kind(c) = "save_graph") => graph # Old

(* What mutate_project acknowledges is applied to the tree, once and on    *)
(* top of every earlier update, whatever save_graph writes meanwhile and   *)
(* across crashes.  (For a project that exists and is not deleted.)        *)
Acknowledged == {c \in Calls : pc[c] = "done" /\ Kind(c) \in {"add", "drop"}}
Tree == IF project = None THEN {} ELSE project.tree
Updates == INSTANCE AtomicTree WITH tree <- Tree, applied <- Acknowledged
AtomicUpdates == Updates!Spec

(* Every call comes to an end: no lock is left held, no wait is for ever.  *)
(* The exception is an import of a taken slug too long for a suffix, which *)
(* looks for a free one for ever (store.rs 2266), though 2218 says that it *)
(* resolves collisions and returns.                                        *)
Ended(c) == pc[c] \in {"done", "failed"}
LooksForEver(c) == pc[c] = "next_suffix" /\ ~SuffixFits
EveryCallEnds == \A c \in Calls : pc[c] # "idle" ~> Ended(c) \/ LooksForEver(c)

=============================================================================
