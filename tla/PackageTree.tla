------------------------------ MODULE PackageTree ------------------------------
(***************************************************************************)
(* The package tree of one project: create_package, rename_package and     *)
(* delete_package (backend/src/projects/handlers.rs), the graphs saved     *)
(* under packages/<slug>/, and validate_package_tree (types.rs).           *)
(*                                                                         *)
(* mutate_project is one step here, as ProjectStoreProofs shows it to be   *)
(* while nobody deletes the project: it reads, changes, validates and      *)
(* writes project.json under the project's lock.  The handlers move and    *)
(* remove package folders after that lock is released.  A package's id is  *)
(* named by the call that created it, a graph by the call that saved it or *)
(* by the package that has had it from the start.                          *)
(***************************************************************************)
EXTENDS Naturals, FiniteSets, SequencesExt

CONSTANTS
  Calls,   \* requests, each served once
  Slugs,   \* package slugs
  Main,    \* the slug the root starts with
  Kinds,   \* kinds of request the clients send
  FaultSets,      \* in each run one of these sets: what clients and the server
                  \* may do beyond the ordinary
  MaxRequests(_), \* bound on the requests that are made when that is allowed
  Root,    \* id of the root package
  First,   \* id of a package that is there from the start
  None     \* no parent, no graph, no request

AllKinds == {"create", "rename", "delete", "save", "save_root"}

ASSUME TreeAssumption ==
  /\ Main \in Slugs
  /\ Kinds \subseteq AllKinds
  /\ UNION FaultSets \subseteq {"overlap",      \* requests may overlap
                       "nested",       \* packages below packages other than the root
                       "main_again",   \* packages below the root that have its slug
                       "rename_root",  \* the root is renamed
                       "crash"}        \* the server dies between two steps
  /\ Root # First /\ {Root, First} \cap (Calls \cup {None}) = {}
  /\ None \notin Calls

VARIABLES
  faults,    \* what may go wrong this time, one of FaultSets
  packages,  \* Project.packages of project.json, in its order
  folders,   \* the directories under packages/
  graph,     \* the graph.json in each of them
  holder,    \* the save that holds the project's lock, or None
  pc,        \* where each call is
  req,       \* what each call was asked
  todo,      \* the folders each delete has still to remove
  saved      \* the graph last acknowledged for each package

vars == <<faults, packages, folders, graph, holder, pc, req, todo, saved>>

-----------------------------------------------------------------------------
Ids     == Calls \cup {Root, First}
Graphs  == Ids
PackageDoc == [id : Ids, slug : Slugs, parent : Ids \cup {None}]

Request ==
  [kind : {"create"}, slug : Slugs, parent : Ids]
    \cup [kind : {"rename"}, slug : Slugs, to : Slugs]
    \cup [kind : {"delete", "save"}, slug : Slugs]
    \cup [kind : {"save_root"}]

Steps == {"idle", "update", "probe_from", "probe_to", "move", "rollback",
          "clean", "lock", "make_folder", "write", "done", "failed", "conflict"}

(* A project with the root, or with one package below it. *)
Init ==
  /\ faults \in FaultSets
  /\ \E s \in Slugs \ {Main} :
       packages \in {<<[id |-> Root, slug |-> Main, parent |-> None]>>,
                     <<[id |-> Root, slug |-> Main, parent |-> None],
                       [id |-> First, slug |-> s, parent |-> Root]>>}
  /\ folders = {p.slug : p \in ToSet(packages)}
  /\ graph = [s \in Slugs |-> IF s = Main THEN Root ELSE IF s \in folders THEN First ELSE None]
  /\ holder = None
  /\ pc = [c \in Calls |-> "idle"]
  /\ req = [c \in Calls |-> None]
  /\ todo = [c \in Calls |-> {}]
  /\ saved = [i \in Ids |-> IF \E p \in ToSet(packages) : p.id = i THEN i ELSE None]

-----------------------------------------------------------------------------
(* validate_package_tree                                                   *)

IdsOf(ps) == {p.id : p \in ToSet(ps)}

(* The ids below the given ones after n rounds, the ids themselves included. *)
Below(ps, ids) ==
  LET D[n \in 0..Len(ps)] ==
        IF n = 0 THEN ids
        ELSE D[n - 1] \cup {p.id : p \in {q \in ToSet(ps) : q.parent \in D[n - 1]}}
  IN  D[Len(ps)]

Valid(ps) ==
  /\ ps # <<>>
  /\ \A i, j \in DOMAIN ps : ps[i].id = ps[j].id => i = j
  /\ \E r \in DOMAIN ps : \A i \in DOMAIN ps : ps[i].parent = None <=> i = r
  /\ \A p \in ToSet(ps) : p.parent \in IdsOf(ps) \cup {None}
  /\ \A i, j \in DOMAIN ps :
       ps[i].parent = ps[j].parent /\ ps[i].slug = ps[j].slug => i = j
  /\ IdsOf(ps) \subseteq Below(ps, {p.id : p \in {q \in ToSet(ps) : q.parent = None}})

-----------------------------------------------------------------------------
(* The closures that the handlers give to mutate_project.  Packages are    *)
(* found by slug, and the first one in the document's order is taken.      *)

Find(s)   == SelectInSeq(packages, LAMBDA p : p.slug = s)
Found(s)  == Find(s) # 0
Target(s) == packages[Find(s)]

Sibling(parent, s) == \E p \in ToSet(packages) : p.parent = parent /\ p.slug = s

(* Mutant: a sibling of that slug is overlooked when one is renamed. *)
RenameAllowed_Siblings(q) == Found(q.slug)
RenameAllowed(q) ==
  /\ Found(q.slug)
  /\ q.to # q.slug => ~Sibling(Target(q.slug).parent, q.to)

Allowed(q) ==
  CASE q.kind = "create" -> q.parent \in IdsOf(packages) /\ ~Sibling(q.parent, q.slug)
    [] q.kind = "rename" -> RenameAllowed(q)
    [] q.kind = "delete" -> Found(q.slug) /\ Target(q.slug).parent # None

(* The package and all its descendants.  Mutant: its children only. *)
Doomed_Children(q) ==
  {p.id : p \in {r \in ToSet(packages) :
                   Target(q.slug).id \in {r.id, r.parent}}}
Doomed(q) == Below(packages, {Target(q.slug).id})

(* The folders to remove.  Mutant: those of the descendants only. *)
DoomedSlugs_Below(q) == {p.slug : p \in {r \in ToSet(packages) : r.id \in Doomed(q)}} \ {q.slug}
DoomedSlugs(q) == {p.slug : p \in {r \in ToSet(packages) : r.id \in Doomed(q)}}

(* The packages that have none of the ids, in their order (retain). *)
Without(ps, ids) ==
  LET F[n \in 0..Len(ps)] ==
        IF n = 0 THEN <<>>
        ELSE IF ps[n].id \in ids THEN F[n - 1] ELSE Append(F[n - 1], ps[n])
  IN  F[Len(ps)]

Mutated(c, q) ==
  CASE q.kind = "create" ->
         Append(packages, [id |-> c, slug |-> q.slug, parent |-> q.parent])
    [] q.kind = "rename" ->
         [packages EXCEPT ![Find(q.slug)].slug = q.to]
    [] q.kind = "delete" ->
         Without(packages, Doomed(q))

-----------------------------------------------------------------------------
(* Requests and their handlers                                             *)

Over == {"done", "failed", "conflict"}
Quiet == \A c \in Calls : pc[c] \in Over \cup {"idle"}

Goto(c, s) == pc' = [pc EXCEPT ![c] = s]

(* The request gives a package the slug s. *)
Takes(q, s) == \/ q.kind = "create" /\ q.slug = s
               \/ q.kind = "rename" /\ q.slug # s /\ q.to = s

Begin(c) ==
  /\ pc[c] = "idle"
  /\ "overlap" \in faults \/ Quiet
  /\ Cardinality({d \in Calls : pc[d] # "idle"}) < MaxRequests(faults)
  /\ \E q \in Request :
       /\ q.kind \in Kinds
       /\ q.kind = "create" => q.parent = Root \/ "nested" \in faults
       /\ Takes(q, Main) => "main_again" \in faults
       /\ q.kind = "rename" => q.slug # Main \/ "rename_root" \in faults
       /\ req' = [req EXCEPT ![c] = q]
       /\ Goto(c, IF q.kind \in {"save", "save_root"} THEN "lock" ELSE "update")
  /\ UNCHANGED <<packages, folders, graph, holder, todo, saved>>

AfterUpdate(q) ==
  CASE q.kind = "create" -> "done"
    [] q.kind = "rename" -> IF q.to = q.slug THEN "done" ELSE "probe_from"
    [] q.kind = "delete" -> "clean"

(* mutate_project: refused by the closure, by the validator, or written. *)
Verdict(c, q) ==
  IF ~Allowed(q) THEN "failed"
  ELSE IF ~Valid(Mutated(c, q)) THEN "conflict"
  ELSE AfterUpdate(q)

Update(c) ==
  LET q       == req[c]
      verdict == Verdict(c, q)
      written == verdict \notin {"failed", "conflict"}
  IN
  /\ pc[c] = "update"
  /\ holder = None
  /\ Goto(c, verdict)
  /\ packages' = IF written THEN Mutated(c, q) ELSE packages
  /\ todo' = IF written /\ q.kind = "delete"
               THEN [todo EXCEPT ![c] = DoomedSlugs(q)]
               ELSE todo
  /\ UNCHANGED <<folders, graph, holder, req, saved>>

-----------------------------------------------------------------------------
(* rename_package after the update: rename_package_dir, without the lock   *)

(* A package that was never saved has no folder to move. *)
ProbeFrom(c) ==
  /\ pc[c] = "probe_from"
  /\ Goto(c, IF req[c].slug \in folders THEN "probe_to" ELSE "done")
  /\ UNCHANGED <<packages, folders, graph, holder, req, todo, saved>>

ProbeTo(c) ==
  /\ pc[c] = "probe_to"
  /\ Goto(c, IF req[c].to \in folders THEN "rollback" ELSE "move")
  /\ UNCHANGED <<packages, folders, graph, holder, req, todo, saved>>

(* The graph of the folder that was moved.  Mutants: it is lost; it stays  *)
(* where it was, too.                                                      *)
MovedGraph_Lost(from, to) == [graph EXCEPT ![from] = None]
MovedGraph(from, to) == [graph EXCEPT ![to] = graph[from], ![from] = None]

(* fs::rename fails when the source is gone or the target is not empty.    *)
Move(c) ==
  LET from == req[c].slug
      to   == req[c].to
  IN
  /\ pc[c] = "move"
  /\ \/ /\ from \in folders /\ graph[to] = None
        /\ Goto(c, "done")
        /\ folders' = (folders \ {from}) \cup {to}
        /\ graph' = MovedGraph(from, to)
     \/ /\ ~(from \in folders /\ graph[to] = None)
        /\ Goto(c, "rollback")
        /\ UNCHANGED <<folders, graph>>
  /\ UNCHANGED <<packages, holder, req, todo, saved>>

(* The slug is put back, on the first package that has the new one; a tree *)
(* that is then not valid is not written, and the error is not reported.   *)
Rollback(c) ==
  LET back == [packages EXCEPT ![Find(req[c].to)].slug = req[c].slug] IN
  /\ pc[c] = "rollback"
  /\ holder = None
  /\ Goto(c, "failed")
  /\ packages' = IF Found(req[c].to) /\ Valid(back) THEN back ELSE packages
  /\ UNCHANGED <<folders, graph, holder, req, todo, saved>>

-----------------------------------------------------------------------------
(* delete_package after the update: delete_package_dir for each package    *)
(* that is gone, without the lock; one folder is removed in one step.      *)
CleanFolder(c) ==
  /\ pc[c] = "clean"
  /\ \E s \in todo[c] :
       /\ todo' = [todo EXCEPT ![c] = @ \ {s}]
       /\ folders' = folders \ {s}
       /\ graph' = [graph EXCEPT ![s] = None]
  /\ UNCHANGED <<packages, holder, pc, req, saved>>

CleanEnd(c) ==
  /\ pc[c] = "clean"
  /\ todo[c] = {}
  /\ Goto(c, "done")
  /\ UNCHANGED <<packages, folders, graph, holder, req, todo, saved>>

-----------------------------------------------------------------------------
(* save_graph_for_package, and save_graph, which is for the root           *)

FolderOf(q) == IF q.kind = "save_root" THEN Main ELSE q.slug
IdOf(q)     == IF q.kind = "save_root" THEN Root ELSE Target(q.slug).id

(* The lock is taken; an unknown package is NotFound. *)
SaveLock(c) ==
  /\ pc[c] = "lock"
  /\ holder = None
  /\ \/ /\ req[c].kind = "save" => Found(req[c].slug)
        /\ holder' = c
        /\ Goto(c, "make_folder")
     \/ /\ req[c].kind = "save" /\ ~Found(req[c].slug)
        /\ Goto(c, "failed")
        /\ UNCHANGED holder
  /\ UNCHANGED <<packages, folders, graph, req, todo, saved>>

MakeFolder(c) ==
  /\ pc[c] = "make_folder"
  /\ folders' = folders \cup {FolderOf(req[c])}
  /\ Goto(c, "write")
  /\ UNCHANGED <<packages, graph, holder, req, todo, saved>>

(* The write fails when the folder was removed meanwhile. *)
SaveWrite(c) ==
  LET s == FolderOf(req[c]) IN
  /\ pc[c] = "write"
  /\ holder' = None
  /\ \/ /\ s \in folders
        /\ graph' = [graph EXCEPT ![s] = c]
        /\ saved' = [saved EXCEPT ![IdOf(req[c])] = c]
        /\ Goto(c, "done")
     \/ /\ s \notin folders
        /\ Goto(c, "failed")
        /\ UNCHANGED <<graph, saved>>
  /\ UNCHANGED <<packages, folders, req, todo>>

-----------------------------------------------------------------------------
Crash ==
  /\ "crash" \in faults
  /\ ~Quiet
  /\ pc' = [c \in Calls |-> IF pc[c] \in Over \cup {"idle"} THEN pc[c] ELSE "failed"]
  /\ holder' = None
  /\ UNCHANGED <<packages, folders, graph, req, todo, saved>>

RenameStep(c) == ProbeFrom(c) \/ ProbeTo(c) \/ Move(c) \/ Rollback(c)
DeleteStep(c) == CleanFolder(c) \/ CleanEnd(c)
SaveStep(c)   == SaveLock(c) \/ MakeFolder(c) \/ SaveWrite(c)

Next ==
  /\ \/ \E c \in Calls : Begin(c) \/ Update(c) \/ RenameStep(c) \/ DeleteStep(c) \/ SaveStep(c)
     \/ Crash
  /\ UNCHANGED faults

Spec == Init /\ [][Next]_vars

-----------------------------------------------------------------------------
(* The tree on disk always satisfies the five invariants of Package,       *)
(* and the handlers' own checks leave the validator nothing to refuse: a   *)
(* client never gets its generic conflict.                                 *)
TreeAlwaysValid == Valid(packages) /\ \A c \in Calls : pc[c] # "conflict"

(* One request at a time, of a client that nests no packages and leaves the  *)
(* root and its slug alone, and no crash.                                    *)
Ordinary == faults = {} /\ Quiet

(* Then the graph of a package's folder is the one last saved for that       *)
(* package, through every rename and delete ...                              *)
GraphFollowsPackage ==
  Ordinary => \A p \in ToSet(packages) :
                saved[p.id] # None => graph[p.slug] = saved[p.id]

(* ... and every folder belongs to a package.                                *)
NoStrayFolder == Ordinary => folders \subseteq {p.slug : p \in ToSet(packages)}
=============================================================================
