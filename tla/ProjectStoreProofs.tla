-------------------------- MODULE ProjectStoreProofs --------------------------
(***************************************************************************)
(* What holds of ProjectStore for any number of calls, packages and items: *)
(* types, that without deletes one writer at a time is in its critical     *)
(* section, that mutate_project then implements AtomicTree and that the    *)
(* legacy graph never comes back; and with deletes, between which calls    *)
(* writing is still exclusive.                                             *)
(***************************************************************************)
EXTENDS ProjectStore, TLAPS

LockedKinds == {"save_graph", "add", "drop", "install", "uninstall"}

(* A call at step s was asked something that leads there. *)
LeadsTo(q, s) ==
  /\ s # "idle" => q \in Request /\ q.kind \in Kinds
  /\ s \in {"probe", "lock_for", "waiting"} => q.kind \in LockedKinds
  /\ s \in {"probe_new", "probe_legacy", "migrate_folder", "migrate_rename"} =>
       q.kind \in {"load", "save_graph"}
  /\ s \in {"make_folder", "write_graph"} => q.kind \in {"save_graph", "create", "import"}
  /\ s \in {"read_project", "write_project"} => q.kind \in {"save_graph", "add", "drop"}
  /\ s \in {"peek_market", "save_market"} => q.kind \in {"install", "uninstall"}
  /\ s \in {"list_dir", "remove_entry", "forget_lock"} => q.kind = "delete"
  /\ s \in {"create_dir", "write_seed_market"} => q.kind = "create"
  /\ s \in {"pick_slug", "next_suffix", "claim_dir"} => q.kind = "import"
  /\ s = "write_new_project" => q.kind \in {"create", "import"}

OnPath == \A c \in Calls : LeadsTo(req[c], pc[c])

(* A document is in hand when it is about to be written. *)
DocInHand == \A c \in Calls : pc[c] = "write_project" => doc[c] \in Documents

TypeInv == TypeOK /\ OnPath /\ DocInHand

LEMMA InitTypes == Init => TypeInv
<1> SUFFICES ASSUME Init PROVE TypeInv
  OBVIOUS
<1>1. project \in Documents \cup {None} /\ graph \in Graphs \cup {None}
  BY DEF Init, Documents, Graphs
<1>2. DiskOK
  <2>1. market = None
    BY DEF Init
  <2>2. dir \in BOOLEAN /\ folder \in BOOLEAN /\ legacy \in {Old, None}
    BY DEF Init
  <2>3. ~dir => project = None /\ legacy = None /\ ~folder
    BY DEF Init
  <2>4. ~folder => graph = None
    BY DEF Init
  <2> HIDE DEF Init
  <2> QED
    BY <1>1, <2>1, <2>2, <2>3, <2>4 DEF DiskOK
<1>3. CallsOK
  BY DEF Init, CallsOK, Steps
<1>4. OnPath /\ DocInHand
  BY DEF Init, OnPath, LeadsTo, DocInHand
<1> QED
  BY <1>2, <1>3, <1>4 DEF TypeInv, TypeOK

LEMMA StepDisk == TypeInv /\ [Next]_vars => DiskOK'
<1> SUFFICES ASSUME TypeInv, [Next]_vars PROVE DiskOK'
  OBVIOUS
<1> USE StoreAssumption DEF TypeInv, TypeOK, DiskOK, vars, disk, local
<1>1. ASSUME NEW c \in Calls, Begin(c) PROVE DiskOK'
  BY <1>1 DEF Begin
<1>2. ASSUME NEW c \in Calls, Probe(c) PROVE DiskOK'
  BY <1>2 DEF Probe
<1>3. ASSUME NEW c \in Calls, LockFor(c) PROVE DiskOK'
  BY <1>3 DEF LockFor
<1>4. ASSUME NEW c \in Calls, Acquire(c) PROVE DiskOK'
  BY <1>4 DEF Acquire
<1>5. ASSUME NEW c \in Calls, ProbeNew(c) PROVE DiskOK'
  BY <1>5 DEF ProbeNew
<1>6. ASSUME NEW c \in Calls, ProbeLegacy(c) PROVE DiskOK'
  BY <1>6 DEF ProbeLegacy
<1>7. ASSUME NEW c \in Calls, MigrateFolder(c) PROVE DiskOK'
  BY <1>7 DEF MigrateFolder
<1>8. ASSUME NEW c \in Calls, MigrateRename(c) PROVE DiskOK'
  BY <1>8 DEF MigrateRename, LegacyMoved, Graphs
<1>9. ASSUME NEW c \in Calls, MakeFolder(c) PROVE DiskOK'
  BY <1>9 DEF MakeFolder
<1>10. ASSUME NEW c \in Calls, WriteGraph(c) PROVE DiskOK'
  BY <1>10 DEF WriteGraph, Graphs
<1>11. ASSUME NEW c \in Calls, ReadProject(c) PROVE DiskOK'
  BY <1>11 DEF ReadProject
<1>12. ASSUME NEW c \in Calls, WriteProject(c) PROVE DiskOK'
  <2>1. dir => Updated(c) \in Documents
    <3>1. pc[c] = "write_project" /\ doc[c] \in Documents /\ req[c] \in Request
      BY <1>12 DEF WriteProject, Move, DocInHand, OnPath, LeadsTo
    <3>2. Kind(c) \in {"add", "drop"} => req[c].pkg \in Children
      BY <3>1 DEF Request, Kind
    <3> QED
      BY <3>1, <3>2 DEF Updated, Documents
  <2> QED
    BY <1>12, <2>1 DEF WriteProject
<1>13. ASSUME NEW c \in Calls, PeekMarket(c) PROVE DiskOK'
  BY <1>13 DEF PeekMarket
<1>14. ASSUME NEW c \in Calls, SaveMarket(c) PROVE DiskOK'
  <2>1. Wanted(c) \in SUBSET Items
    <3>1. list[c] \in SUBSET Items /\ pc[c] = "save_market"
      BY <1>14 DEF SaveMarket, Move, CallsOK
    <3>2. req[c] \in Request /\ Kind(c) \in {"install", "uninstall"}
      BY <3>1 DEF OnPath, LeadsTo, Kind
    <3>3. req[c].item \in Items
      BY <3>2 DEF Request, Kind
    <3> QED
      BY <3>1, <3>3 DEF Wanted
  <2> QED
    BY <1>14, <2>1 DEF SaveMarket
<1>15. ASSUME NEW c \in Calls, ListDir(c) PROVE DiskOK'
  BY <1>15 DEF ListDir, Present
<1>16. ASSUME NEW c \in Calls, RemoveEntry(c) PROVE DiskOK'
  <2>1. PICK e \in todo[c] :
         /\ project' = IF e = "project.json" THEN None ELSE project
         /\ legacy' = IF e = "graph.json" THEN None ELSE legacy
         /\ folder' = IF e = "packages" THEN FALSE ELSE folder
         /\ graph' = IF e = "packages" THEN None ELSE graph
         /\ market' = IF e = "marketplace.json" THEN None ELSE market
    BY <1>16 DEF RemoveEntry
  <2>2. UNCHANGED dir
    BY <1>16 DEF RemoveEntry
  <2> HIDE DEF RemoveEntry
  <2>3. project' \in Documents \cup {None} /\ legacy' \in {Old, None} /\ folder' \in BOOLEAN
    BY <2>1
  <2>4. graph' \in Graphs \cup {None} /\ market' \in (SUBSET Items) \cup {None}
    BY <2>1
  <2>5. ~dir => project' = None /\ legacy' = None /\ ~folder' /\ market' = None
    BY <2>1
  <2>6. ~folder' => graph' = None
    BY <2>1
  <2> QED
    BY <2>2, <2>3, <2>4, <2>5, <2>6
<1>17. ASSUME NEW c \in Calls, RemoveDir(c) PROVE DiskOK'
  BY <1>17 DEF RemoveDir, Removable, Present, Entries
<1>18. ASSUME NEW c \in Calls, ForgetLock(c) PROVE DiskOK'
  BY <1>18 DEF ForgetLock
<1>19. ASSUME NEW c \in Calls, CreateDir(c) PROVE DiskOK'
  BY <1>19 DEF CreateDir
<1>20. ASSUME NEW c \in Calls, WriteNewProject(c) PROVE DiskOK'
  <2>1. \A t \in SUBSET Children : [tree |-> t] \in Documents
    BY DEF Documents
  <2>2. project' \in Documents \cup {None}
    BY <1>20, <2>1 DEF WriteNewProject
  <2> QED
    BY <1>20, <2>2 DEF WriteNewProject
<1>21. ASSUME NEW c \in Calls, WriteSeedMarket(c) PROVE DiskOK'
  BY <1>21 DEF WriteSeedMarket
<1>22. ASSUME NEW c \in Calls, PickSlug(c) PROVE DiskOK'
  BY <1>22 DEF PickSlug
<1>26. ASSUME NEW c \in Calls, NextSuffix(c) PROVE DiskOK'
  BY <1>26 DEF NextSuffix
<1>23. ASSUME NEW c \in Calls, ClaimDir(c) PROVE DiskOK'
  BY <1>23 DEF ClaimDir
<1>24. CASE Crash
  BY <1>24 DEF Crash
<1>25. CASE UNCHANGED vars
  BY <1>25
<1> QED
  BY <1>1, <1>2, <1>3, <1>4, <1>5, <1>6, <1>7, <1>8, <1>9, <1>10,
     <1>11, <1>12, <1>13, <1>14, <1>15, <1>16, <1>17, <1>18, <1>19, <1>20,
     <1>21, <1>22, <1>26, <1>23, <1>24, <1>25
  DEF Next, Work, LockStep, MigrateStep, SaveStep, MarketStep, DeleteStep, CreateStep

LEMMA StepCalls == TypeInv /\ [Next]_vars => CallsOK'
<1> SUFFICES ASSUME TypeInv, [Next]_vars PROVE CallsOK'
  OBVIOUS
<1> USE StoreAssumption DEF TypeInv, TypeOK, CallsOK, vars, local, Move, Goto, Steps, ActiveSteps,
        SectionSteps
<1>1. ASSUME NEW c \in Calls, Begin(c) PROVE CallsOK'
  BY <1>1 DEF Begin, FirstStep, AllKinds, Request
<1>2. ASSUME NEW c \in Calls, Probe(c) PROVE CallsOK'
  BY <1>2 DEF Probe
<1>3. ASSUME NEW c \in Calls, LockFor(c) PROVE CallsOK'
  <2>1. locks' \in Calls /\ Deleted \in SUBSET Calls
    BY <1>3 DEF LockFor, Registered, Deleted
  <2>2. /\ pc' = [pc EXCEPT ![c] = "waiting"] /\ lock' = [lock EXCEPT ![c] = locks']
        /\ seen' = [seen EXCEPT ![c] = Deleted] /\ UNCHANGED <<req, doc, list, todo>>
    BY <1>3 DEF LockFor
  <2> QED
    BY <2>1, <2>2
<1>4. ASSUME NEW c \in Calls, Acquire(c) PROVE CallsOK'
  <2>1. Kind(c) \in LockedKinds
    BY <1>4 DEF Acquire, OnPath, LeadsTo, Kind
  <2> QED
    BY <1>4, <2>1 DEF Acquire, FirstInSection, LockedKinds
<1>5. ASSUME NEW c \in Calls, ProbeNew(c) PROVE CallsOK'
  BY <1>5 DEF ProbeNew, AfterMigration
<1>6. ASSUME NEW c \in Calls, ProbeLegacy(c) PROVE CallsOK'
  BY <1>6 DEF ProbeLegacy, AfterMigration
<1>7. ASSUME NEW c \in Calls, MigrateFolder(c) PROVE CallsOK'
  BY <1>7 DEF MigrateFolder
<1>8. ASSUME NEW c \in Calls, MigrateRename(c) PROVE CallsOK'
  BY <1>8 DEF MigrateRename, AfterMigration
<1>9. ASSUME NEW c \in Calls, MakeFolder(c) PROVE CallsOK'
  BY <1>9 DEF MakeFolder
<1>10. ASSUME NEW c \in Calls, WriteGraph(c) PROVE CallsOK'
  <2>1. Kind(c) \in {"save_graph", "create", "import"}
    BY <1>10 DEF WriteGraph, OnPath, LeadsTo, Kind
  <2> QED
    BY <1>10, <2>1 DEF WriteGraph, AfterGraph
<1>11. ASSUME NEW c \in Calls, ReadProject(c) PROVE CallsOK'
  BY <1>11 DEF ReadProject, DiskOK
<1>12. ASSUME NEW c \in Calls, WriteProject(c) PROVE CallsOK'
  BY <1>12 DEF WriteProject
<1>13. ASSUME NEW c \in Calls, PeekMarket(c) PROVE CallsOK'
  <2>1. PICK t \in {"done", "probe"} : Move(c, "peek_market", t)
    BY <1>13 DEF PeekMarket
  <2>2. ItemsIn(market) \in SUBSET Items
    BY DEF ItemsIn, DiskOK
  <2>3. UNCHANGED <<locks, req, lock, doc, todo, seen>> /\ list' = [list EXCEPT ![c] = ItemsIn(market)]
    BY <1>13 DEF PeekMarket
  <2> QED
    BY <2>1, <2>2, <2>3
<1>14. ASSUME NEW c \in Calls, SaveMarket(c) PROVE CallsOK'
  BY <1>14 DEF SaveMarket
<1>15. ASSUME NEW c \in Calls, ListDir(c) PROVE CallsOK'
  BY <1>15 DEF ListDir, Present, Entries
<1>16. ASSUME NEW c \in Calls, RemoveEntry(c) PROVE CallsOK'
  BY <1>16 DEF RemoveEntry
<1>17. ASSUME NEW c \in Calls, RemoveDir(c) PROVE CallsOK'
  BY <1>17 DEF RemoveDir
<1>18. ASSUME NEW c \in Calls, ForgetLock(c) PROVE CallsOK'
  BY <1>18 DEF ForgetLock
<1>19. ASSUME NEW c \in Calls, CreateDir(c) PROVE CallsOK'
  BY <1>19 DEF CreateDir
<1>20. ASSUME NEW c \in Calls, WriteNewProject(c) PROVE CallsOK'
  BY <1>20 DEF WriteNewProject
<1>21. ASSUME NEW c \in Calls, WriteSeedMarket(c) PROVE CallsOK'
  BY <1>21 DEF WriteSeedMarket
<1>22. ASSUME NEW c \in Calls, PickSlug(c) PROVE CallsOK'
  BY <1>22 DEF PickSlug
<1>26. ASSUME NEW c \in Calls, NextSuffix(c) PROVE CallsOK'
  BY <1>26 DEF NextSuffix
<1>23. ASSUME NEW c \in Calls, ClaimDir(c) PROVE CallsOK'
  BY <1>23 DEF ClaimDir
<1>24. CASE Crash
  BY <1>24 DEF Crash
<1>25. CASE UNCHANGED vars
  BY <1>25
<1> QED
  BY <1>1, <1>2, <1>3, <1>4, <1>5, <1>6, <1>7, <1>8, <1>9, <1>10,
     <1>11, <1>12, <1>13, <1>14, <1>15, <1>16, <1>17, <1>18, <1>19, <1>20,
     <1>21, <1>22, <1>26, <1>23, <1>24, <1>25
  DEF Next, Work, LockStep, MigrateStep, SaveStep, MarketStep, DeleteStep, CreateStep

LEMMA StepPath == TypeInv /\ [Next]_vars => OnPath'
<1> SUFFICES ASSUME TypeInv, [Next]_vars PROVE OnPath'
  OBVIOUS
<1> USE StoreAssumption DEF TypeInv, TypeOK, CallsOK, OnPath, vars, local, Move, Goto, Kind
<1>1. ASSUME NEW c \in Calls, Begin(c) PROVE OnPath'
  BY <1>1 DEF Begin, FirstStep, AllKinds, LeadsTo, LockedKinds, Request
<1>2. ASSUME NEW c \in Calls, Probe(c) PROVE OnPath'
  BY <1>2 DEF Probe, LeadsTo
<1>3. ASSUME NEW c \in Calls, LockFor(c) PROVE OnPath'
  BY <1>3 DEF LockFor, LeadsTo
<1>4. ASSUME NEW c \in Calls, Acquire(c) PROVE OnPath'
  BY <1>4 DEF Acquire, LeadsTo, FirstInSection, LockedKinds
<1>5. ASSUME NEW c \in Calls, ProbeNew(c) PROVE OnPath'
  BY <1>5 DEF ProbeNew, LeadsTo, AfterMigration
<1>6. ASSUME NEW c \in Calls, ProbeLegacy(c) PROVE OnPath'
  BY <1>6 DEF ProbeLegacy, LeadsTo, AfterMigration
<1>7. ASSUME NEW c \in Calls, MigrateFolder(c) PROVE OnPath'
  BY <1>7 DEF MigrateFolder, LeadsTo
<1>8. ASSUME NEW c \in Calls, MigrateRename(c) PROVE OnPath'
  BY <1>8 DEF MigrateRename, LeadsTo, AfterMigration
<1>9. ASSUME NEW c \in Calls, MakeFolder(c) PROVE OnPath'
  BY <1>9 DEF MakeFolder, LeadsTo
<1>10. ASSUME NEW c \in Calls, WriteGraph(c) PROVE OnPath'
  BY <1>10 DEF WriteGraph, LeadsTo, AfterGraph
<1>11. ASSUME NEW c \in Calls, ReadProject(c) PROVE OnPath'
  BY <1>11 DEF ReadProject, LeadsTo
<1>12. ASSUME NEW c \in Calls, WriteProject(c) PROVE OnPath'
  BY <1>12 DEF WriteProject, LeadsTo
<1>13. ASSUME NEW c \in Calls, PeekMarket(c) PROVE OnPath'
  <2>1. PICK t \in {"done", "probe"} : Move(c, "peek_market", t)
    BY <1>13 DEF PeekMarket
  <2>2. UNCHANGED req
    BY <1>13 DEF PeekMarket
  <2> QED
    BY <2>1, <2>2 DEF LeadsTo, LockedKinds
<1>14. ASSUME NEW c \in Calls, SaveMarket(c) PROVE OnPath'
  BY <1>14 DEF SaveMarket, LeadsTo
<1>15. ASSUME NEW c \in Calls, ListDir(c) PROVE OnPath'
  BY <1>15 DEF ListDir, LeadsTo
<1>16. ASSUME NEW c \in Calls, RemoveEntry(c) PROVE OnPath'
  BY <1>16 DEF RemoveEntry, LeadsTo
<1>17. ASSUME NEW c \in Calls, RemoveDir(c) PROVE OnPath'
  BY <1>17 DEF RemoveDir, LeadsTo
<1>18. ASSUME NEW c \in Calls, ForgetLock(c) PROVE OnPath'
  BY <1>18 DEF ForgetLock, LeadsTo
<1>19. ASSUME NEW c \in Calls, CreateDir(c) PROVE OnPath'
  BY <1>19 DEF CreateDir, LeadsTo
<1>20. ASSUME NEW c \in Calls, WriteNewProject(c) PROVE OnPath'
  BY <1>20 DEF WriteNewProject, LeadsTo
<1>21. ASSUME NEW c \in Calls, WriteSeedMarket(c) PROVE OnPath'
  BY <1>21 DEF WriteSeedMarket, LeadsTo
<1>22. ASSUME NEW c \in Calls, PickSlug(c) PROVE OnPath'
  BY <1>22 DEF PickSlug, LeadsTo
<1>26. ASSUME NEW c \in Calls, NextSuffix(c) PROVE OnPath'
  BY <1>26 DEF NextSuffix, LeadsTo
<1>23. ASSUME NEW c \in Calls, ClaimDir(c) PROVE OnPath'
  BY <1>23 DEF ClaimDir, LeadsTo
<1>24. CASE Crash
  BY <1>24 DEF Crash, LeadsTo, ActiveSteps, SectionSteps
<1>25. CASE UNCHANGED vars
  BY <1>25
<1> QED
  BY <1>1, <1>2, <1>3, <1>4, <1>5, <1>6, <1>7, <1>8, <1>9, <1>10,
     <1>11, <1>12, <1>13, <1>14, <1>15, <1>16, <1>17, <1>18, <1>19, <1>20,
     <1>21, <1>22, <1>26, <1>23, <1>24, <1>25
  DEF Next, Work, LockStep, MigrateStep, SaveStep, MarketStep, DeleteStep, CreateStep

LEMMA StepDoc == TypeInv /\ [Next]_vars => DocInHand'
<1> SUFFICES ASSUME TypeInv, [Next]_vars PROVE DocInHand'
  OBVIOUS
<1> USE StoreAssumption DEF TypeInv, TypeOK, CallsOK, DocInHand, vars, local, Move, Goto
<1>1. ASSUME NEW c \in Calls, Begin(c) PROVE DocInHand'
  BY <1>1 DEF Begin, FirstStep, AllKinds, Request
<1>2. ASSUME NEW c \in Calls, Probe(c) PROVE DocInHand'
  BY <1>2 DEF Probe
<1>3. ASSUME NEW c \in Calls, LockFor(c) PROVE DocInHand'
  BY <1>3 DEF LockFor
<1>4. ASSUME NEW c \in Calls, Acquire(c) PROVE DocInHand'
  BY <1>4 DEF Acquire, FirstInSection, OnPath, LeadsTo, Kind, LockedKinds
<1>5. ASSUME NEW c \in Calls, ProbeNew(c) PROVE DocInHand'
  BY <1>5 DEF ProbeNew, AfterMigration
<1>6. ASSUME NEW c \in Calls, ProbeLegacy(c) PROVE DocInHand'
  BY <1>6 DEF ProbeLegacy, AfterMigration
<1>7. ASSUME NEW c \in Calls, MigrateFolder(c) PROVE DocInHand'
  BY <1>7 DEF MigrateFolder
<1>8. ASSUME NEW c \in Calls, MigrateRename(c) PROVE DocInHand'
  BY <1>8 DEF MigrateRename, AfterMigration
<1>9. ASSUME NEW c \in Calls, MakeFolder(c) PROVE DocInHand'
  BY <1>9 DEF MakeFolder
<1>10. ASSUME NEW c \in Calls, WriteGraph(c) PROVE DocInHand'
  BY <1>10 DEF WriteGraph, AfterGraph, OnPath, LeadsTo, Kind
<1>11. ASSUME NEW c \in Calls, ReadProject(c) PROVE DocInHand'
  BY <1>11 DEF ReadProject, DiskOK
<1>12. ASSUME NEW c \in Calls, WriteProject(c) PROVE DocInHand'
  BY <1>12 DEF WriteProject
<1>13. ASSUME NEW c \in Calls, PeekMarket(c) PROVE DocInHand'
  BY <1>13 DEF PeekMarket
<1>14. ASSUME NEW c \in Calls, SaveMarket(c) PROVE DocInHand'
  BY <1>14 DEF SaveMarket
<1>15. ASSUME NEW c \in Calls, ListDir(c) PROVE DocInHand'
  BY <1>15 DEF ListDir
<1>16. ASSUME NEW c \in Calls, RemoveEntry(c) PROVE DocInHand'
  BY <1>16 DEF RemoveEntry
<1>17. ASSUME NEW c \in Calls, RemoveDir(c) PROVE DocInHand'
  BY <1>17 DEF RemoveDir
<1>18. ASSUME NEW c \in Calls, ForgetLock(c) PROVE DocInHand'
  BY <1>18 DEF ForgetLock
<1>19. ASSUME NEW c \in Calls, CreateDir(c) PROVE DocInHand'
  BY <1>19 DEF CreateDir
<1>20. ASSUME NEW c \in Calls, WriteNewProject(c) PROVE DocInHand'
  BY <1>20 DEF WriteNewProject
<1>21. ASSUME NEW c \in Calls, WriteSeedMarket(c) PROVE DocInHand'
  BY <1>21 DEF WriteSeedMarket
<1>22. ASSUME NEW c \in Calls, PickSlug(c) PROVE DocInHand'
  BY <1>22 DEF PickSlug
<1>26. ASSUME NEW c \in Calls, NextSuffix(c) PROVE DocInHand'
  BY <1>26 DEF NextSuffix
<1>23. ASSUME NEW c \in Calls, ClaimDir(c) PROVE DocInHand'
  BY <1>23 DEF ClaimDir
<1>24. CASE Crash
  BY <1>24 DEF Crash
<1>25. CASE UNCHANGED vars
  BY <1>25
<1> QED
  BY <1>1, <1>2, <1>3, <1>4, <1>5, <1>6, <1>7, <1>8, <1>9, <1>10,
     <1>11, <1>12, <1>13, <1>14, <1>15, <1>16, <1>17, <1>18, <1>19, <1>20,
     <1>21, <1>22, <1>26, <1>23, <1>24, <1>25
  DEF Next, Work, LockStep, MigrateStep, SaveStep, MarketStep, DeleteStep, CreateStep

(* Every file, lock and local value keeps its type, and a directory that   *)
(* is gone has nothing in it.                                              *)
THEOREM TypeCorrect == Spec => []TypeOK
<1>1. TypeInv /\ [Next]_vars => TypeInv'
  BY StepDisk, StepCalls, StepPath, StepDoc DEF TypeInv, TypeOK
<1>2. TypeInv => TypeOK
  BY DEF TypeInv
<1> QED
  BY InitTypes, <1>1, <1>2, PTL DEF Spec

-----------------------------------------------------------------------------
(* Without deletes the slug has one mutex for good.                        *)

(* A call has a mutex from lock_for on, if it takes one at all. *)
OwnLock ==
  \A c \in Calls :
    /\ pc[c] \in {"idle", "peek_market", "probe", "lock_for"} => lock[c] = None
    /\ pc[c] # "idle" /\ Kind(c) \notin LockedKinds => lock[c] = None
    /\ pc[c] \in SectionSteps \cup {"waiting"} /\ Kind(c) \in LockedKinds => lock[c] # None

(* It is the one the map still has. *)
SameLock ==
  \A c \in Calls : pc[c] = "waiting" \/ InSection(c) => lock[c] = locks

WriterInv == TypeInv /\ OwnLock /\ SameLock /\ OneWriter

LEMMA StepOwnLock == TypeInv /\ OwnLock /\ [Next]_vars => OwnLock'
<1> SUFFICES ASSUME TypeInv, OwnLock, [Next]_vars PROVE OwnLock'
  OBVIOUS
<1> USE StoreAssumption DEF TypeInv, TypeOK, CallsOK, OnPath, OwnLock, LockedKinds, SectionSteps,
        vars, local, Move, Goto, Kind
<1>1. ASSUME NEW c \in Calls, Begin(c) PROVE OwnLock'
  BY <1>1 DEF Begin, FirstStep, AllKinds, LeadsTo, Request
<1>2. ASSUME NEW c \in Calls, Probe(c) PROVE OwnLock'
  BY <1>2 DEF Probe, LeadsTo
<1>3. ASSUME NEW c \in Calls, LockFor(c) PROVE OwnLock'
  BY <1>3 DEF LockFor, LeadsTo, Registered
<1>4. ASSUME NEW c \in Calls, Acquire(c) PROVE OwnLock'
  BY <1>4 DEF Acquire, LeadsTo, FirstInSection
<1>5. ASSUME NEW c \in Calls, ProbeNew(c) PROVE OwnLock'
  BY <1>5 DEF ProbeNew, LeadsTo, AfterMigration
<1>6. ASSUME NEW c \in Calls, ProbeLegacy(c) PROVE OwnLock'
  BY <1>6 DEF ProbeLegacy, LeadsTo, AfterMigration
<1>7. ASSUME NEW c \in Calls, MigrateFolder(c) PROVE OwnLock'
  BY <1>7 DEF MigrateFolder, LeadsTo
<1>8. ASSUME NEW c \in Calls, MigrateRename(c) PROVE OwnLock'
  BY <1>8 DEF MigrateRename, LeadsTo, AfterMigration
<1>9. ASSUME NEW c \in Calls, MakeFolder(c) PROVE OwnLock'
  BY <1>9 DEF MakeFolder, LeadsTo
<1>10. ASSUME NEW c \in Calls, WriteGraph(c) PROVE OwnLock'
  BY <1>10 DEF WriteGraph, LeadsTo, AfterGraph
<1>11. ASSUME NEW c \in Calls, ReadProject(c) PROVE OwnLock'
  BY <1>11 DEF ReadProject, LeadsTo
<1>12. ASSUME NEW c \in Calls, WriteProject(c) PROVE OwnLock'
  BY <1>12 DEF WriteProject, LeadsTo
<1>13. ASSUME NEW c \in Calls, PeekMarket(c) PROVE OwnLock'
  BY <1>13 DEF PeekMarket, LeadsTo
<1>14. ASSUME NEW c \in Calls, SaveMarket(c) PROVE OwnLock'
  BY <1>14 DEF SaveMarket, LeadsTo
<1>15. ASSUME NEW c \in Calls, ListDir(c) PROVE OwnLock'
  BY <1>15 DEF ListDir, LeadsTo
<1>16. ASSUME NEW c \in Calls, RemoveEntry(c) PROVE OwnLock'
  BY <1>16 DEF RemoveEntry, LeadsTo
<1>17. ASSUME NEW c \in Calls, RemoveDir(c) PROVE OwnLock'
  BY <1>17 DEF RemoveDir, LeadsTo
<1>18. ASSUME NEW c \in Calls, ForgetLock(c) PROVE OwnLock'
  BY <1>18 DEF ForgetLock, LeadsTo
<1>19. ASSUME NEW c \in Calls, CreateDir(c) PROVE OwnLock'
  BY <1>19 DEF CreateDir, LeadsTo
<1>20. ASSUME NEW c \in Calls, WriteNewProject(c) PROVE OwnLock'
  BY <1>20 DEF WriteNewProject, LeadsTo
<1>21. ASSUME NEW c \in Calls, WriteSeedMarket(c) PROVE OwnLock'
  BY <1>21 DEF WriteSeedMarket, LeadsTo
<1>22. ASSUME NEW c \in Calls, PickSlug(c) PROVE OwnLock'
  BY <1>22 DEF PickSlug, LeadsTo
<1>26. ASSUME NEW c \in Calls, NextSuffix(c) PROVE OwnLock'
  BY <1>26 DEF NextSuffix, LeadsTo
<1>23. ASSUME NEW c \in Calls, ClaimDir(c) PROVE OwnLock'
  BY <1>23 DEF ClaimDir, LeadsTo
<1>24. CASE Crash
  BY <1>24 DEF Crash
<1>25. CASE UNCHANGED vars
  BY <1>25
<1> QED
  BY <1>1, <1>2, <1>3, <1>4, <1>5, <1>6, <1>7, <1>8, <1>9, <1>10,
     <1>11, <1>12, <1>13, <1>14, <1>15, <1>16, <1>17, <1>18, <1>19, <1>20,
     <1>21, <1>22, <1>26, <1>23, <1>24, <1>25
  DEF Next, Work, LockStep, MigrateStep, SaveStep, MarketStep, DeleteStep, CreateStep

LEMMA StepSameLock ==
  ASSUME "delete" \notin Kinds, TypeInv, OwnLock, SameLock, [Next]_vars
  PROVE  SameLock'
<1> USE StoreAssumption DEF TypeInv, TypeOK, CallsOK, OnPath, OwnLock, SameLock, InSection, LockedKinds,
        SectionSteps, vars, local, Move, Goto, Kind
<1>1. ASSUME NEW c \in Calls, Begin(c) PROVE SameLock'
  BY <1>1 DEF Begin, FirstStep, AllKinds, LeadsTo, Request
<1>2. ASSUME NEW c \in Calls, Probe(c) PROVE SameLock'
  BY <1>2 DEF Probe, LeadsTo
<1>3. ASSUME NEW c \in Calls, LockFor(c) PROVE SameLock'
  BY <1>3 DEF LockFor, LeadsTo, Registered
<1>4. ASSUME NEW c \in Calls, Acquire(c) PROVE SameLock'
  BY <1>4 DEF Acquire, LeadsTo, FirstInSection
<1>5. ASSUME NEW c \in Calls, ProbeNew(c) PROVE SameLock'
  BY <1>5 DEF ProbeNew, LeadsTo, AfterMigration
<1>6. ASSUME NEW c \in Calls, ProbeLegacy(c) PROVE SameLock'
  BY <1>6 DEF ProbeLegacy, LeadsTo, AfterMigration
<1>7. ASSUME NEW c \in Calls, MigrateFolder(c) PROVE SameLock'
  BY <1>7 DEF MigrateFolder, LeadsTo
<1>8. ASSUME NEW c \in Calls, MigrateRename(c) PROVE SameLock'
  BY <1>8 DEF MigrateRename, LeadsTo, AfterMigration
<1>9. ASSUME NEW c \in Calls, MakeFolder(c) PROVE SameLock'
  BY <1>9 DEF MakeFolder, LeadsTo
<1>10. ASSUME NEW c \in Calls, WriteGraph(c) PROVE SameLock'
  BY <1>10 DEF WriteGraph, LeadsTo, AfterGraph
<1>11. ASSUME NEW c \in Calls, ReadProject(c) PROVE SameLock'
  BY <1>11 DEF ReadProject, LeadsTo
<1>12. ASSUME NEW c \in Calls, WriteProject(c) PROVE SameLock'
  BY <1>12 DEF WriteProject, LeadsTo
<1>13. ASSUME NEW c \in Calls, PeekMarket(c) PROVE SameLock'
  BY <1>13 DEF PeekMarket, LeadsTo
<1>14. ASSUME NEW c \in Calls, SaveMarket(c) PROVE SameLock'
  BY <1>14 DEF SaveMarket, LeadsTo
<1>15. ASSUME NEW c \in Calls, ListDir(c) PROVE SameLock'
  BY <1>15 DEF ListDir, LeadsTo
<1>16. ASSUME NEW c \in Calls, RemoveEntry(c) PROVE SameLock'
  BY <1>16 DEF RemoveEntry, LeadsTo
<1>17. ASSUME NEW c \in Calls, RemoveDir(c) PROVE SameLock'
  BY <1>17 DEF RemoveDir, LeadsTo
<1>18. ASSUME NEW c \in Calls, ForgetLock(c) PROVE SameLock'
  BY <1>18 DEF ForgetLock, LeadsTo
<1>19. ASSUME NEW c \in Calls, CreateDir(c) PROVE SameLock'
  BY <1>19 DEF CreateDir, LeadsTo
<1>20. ASSUME NEW c \in Calls, WriteNewProject(c) PROVE SameLock'
  BY <1>20 DEF WriteNewProject, LeadsTo
<1>21. ASSUME NEW c \in Calls, WriteSeedMarket(c) PROVE SameLock'
  BY <1>21 DEF WriteSeedMarket, LeadsTo
<1>22. ASSUME NEW c \in Calls, PickSlug(c) PROVE SameLock'
  BY <1>22 DEF PickSlug, LeadsTo
<1>26. ASSUME NEW c \in Calls, NextSuffix(c) PROVE SameLock'
  BY <1>26 DEF NextSuffix, LeadsTo
<1>23. ASSUME NEW c \in Calls, ClaimDir(c) PROVE SameLock'
  BY <1>23 DEF ClaimDir, LeadsTo
<1>24. CASE Crash
  BY <1>24 DEF Crash, ActiveSteps
<1>25. CASE UNCHANGED vars
  BY <1>25
<1> QED
  BY <1>1, <1>2, <1>3, <1>4, <1>5, <1>6, <1>7, <1>8, <1>9, <1>10,
     <1>11, <1>12, <1>13, <1>14, <1>15, <1>16, <1>17, <1>18, <1>19, <1>20,
     <1>21, <1>22, <1>26, <1>23, <1>24, <1>25
  DEF Next, Work, LockStep, MigrateStep, SaveStep, MarketStep, DeleteStep, CreateStep

LEMMA StepOneWriter ==
  ASSUME WriterInv, [Next]_vars
  PROVE  OneWriter'
<1> USE StoreAssumption DEF WriterInv, TypeInv, TypeOK, CallsOK, OnPath, OwnLock, OneWriter, InSection,
        LockedKinds, SectionSteps, vars, local, Move, Goto, Kind
<1>1. ASSUME NEW c \in Calls, Begin(c) PROVE OneWriter'
  BY <1>1 DEF Begin, FirstStep, AllKinds, LeadsTo, Request
<1>2. ASSUME NEW c \in Calls, Probe(c) PROVE OneWriter'
  BY <1>2 DEF Probe, LeadsTo
<1>3. ASSUME NEW c \in Calls, LockFor(c) PROVE OneWriter'
  BY <1>3 DEF LockFor, LeadsTo, Registered
<1>4. ASSUME NEW c \in Calls, Acquire(c) PROVE OneWriter'
  BY <1>4 DEF Acquire, MutexFree, SameLock
<1>5. ASSUME NEW c \in Calls, ProbeNew(c) PROVE OneWriter'
  BY <1>5 DEF ProbeNew, LeadsTo, AfterMigration
<1>6. ASSUME NEW c \in Calls, ProbeLegacy(c) PROVE OneWriter'
  BY <1>6 DEF ProbeLegacy, LeadsTo, AfterMigration
<1>7. ASSUME NEW c \in Calls, MigrateFolder(c) PROVE OneWriter'
  BY <1>7 DEF MigrateFolder, LeadsTo
<1>8. ASSUME NEW c \in Calls, MigrateRename(c) PROVE OneWriter'
  BY <1>8 DEF MigrateRename, LeadsTo, AfterMigration
<1>9. ASSUME NEW c \in Calls, MakeFolder(c) PROVE OneWriter'
  BY <1>9 DEF MakeFolder, LeadsTo
<1>10. ASSUME NEW c \in Calls, WriteGraph(c) PROVE OneWriter'
  BY <1>10 DEF WriteGraph, LeadsTo, AfterGraph
<1>11. ASSUME NEW c \in Calls, ReadProject(c) PROVE OneWriter'
  BY <1>11 DEF ReadProject, LeadsTo
<1>12. ASSUME NEW c \in Calls, WriteProject(c) PROVE OneWriter'
  BY <1>12 DEF WriteProject, LeadsTo
<1>13. ASSUME NEW c \in Calls, PeekMarket(c) PROVE OneWriter'
  BY <1>13 DEF PeekMarket, LeadsTo
<1>14. ASSUME NEW c \in Calls, SaveMarket(c) PROVE OneWriter'
  BY <1>14 DEF SaveMarket, LeadsTo
<1>15. ASSUME NEW c \in Calls, ListDir(c) PROVE OneWriter'
  BY <1>15 DEF ListDir, LeadsTo
<1>16. ASSUME NEW c \in Calls, RemoveEntry(c) PROVE OneWriter'
  BY <1>16 DEF RemoveEntry, LeadsTo
<1>17. ASSUME NEW c \in Calls, RemoveDir(c) PROVE OneWriter'
  BY <1>17 DEF RemoveDir, LeadsTo
<1>18. ASSUME NEW c \in Calls, ForgetLock(c) PROVE OneWriter'
  BY <1>18 DEF ForgetLock, LeadsTo
<1>19. ASSUME NEW c \in Calls, CreateDir(c) PROVE OneWriter'
  BY <1>19 DEF CreateDir, LeadsTo
<1>20. ASSUME NEW c \in Calls, WriteNewProject(c) PROVE OneWriter'
  BY <1>20 DEF WriteNewProject, LeadsTo
<1>21. ASSUME NEW c \in Calls, WriteSeedMarket(c) PROVE OneWriter'
  BY <1>21 DEF WriteSeedMarket, LeadsTo
<1>22. ASSUME NEW c \in Calls, PickSlug(c) PROVE OneWriter'
  BY <1>22 DEF PickSlug, LeadsTo
<1>26. ASSUME NEW c \in Calls, NextSuffix(c) PROVE OneWriter'
  BY <1>26 DEF NextSuffix, LeadsTo
<1>23. ASSUME NEW c \in Calls, ClaimDir(c) PROVE OneWriter'
  BY <1>23 DEF ClaimDir, LeadsTo
<1>24. CASE Crash
  BY <1>24 DEF Crash, ActiveSteps
<1>25. CASE UNCHANGED vars
  BY <1>25
<1> QED
  BY <1>1, <1>2, <1>3, <1>4, <1>5, <1>6, <1>7, <1>8, <1>9, <1>10,
     <1>11, <1>12, <1>13, <1>14, <1>15, <1>16, <1>17, <1>18, <1>19, <1>20,
     <1>21, <1>22, <1>26, <1>23, <1>24, <1>25
  DEF Next, Work, LockStep, MigrateStep, SaveStep, MarketStep, DeleteStep, CreateStep

LEMMA InitWriter == Init => WriterInv
<1>1. Init => OwnLock /\ SameLock /\ OneWriter
  BY DEF Init, OwnLock, SameLock, OneWriter, InSection, SectionSteps
<1> QED
  BY <1>1, InitTypes DEF WriterInv

LEMMA StepWriter ==
  ASSUME "delete" \notin Kinds
  PROVE  WriterInv /\ [Next]_vars => WriterInv'
<1>1. TypeInv /\ [Next]_vars => TypeInv'
  BY StepDisk, StepCalls, StepPath, StepDoc DEF TypeInv, TypeOK
<1> QED
  BY <1>1, StepOwnLock, StepSameLock, StepOneWriter DEF WriterInv

(* As long as nobody deletes the project, two of its writers are never in  *)
(* their critical sections together, across crashes and with loads,        *)
(* creations and imports running beside them.                              *)
THEOREM WritersExcludeEachOther ==
  ASSUME "delete" \notin Kinds
  PROVE  Spec => []OneWriter
<1>1. WriterInv => OneWriter
  BY DEF WriterInv
<1> QED
  BY InitWriter, StepWriter, <1>1, PTL DEF Spec

-----------------------------------------------------------------------------
(* mutate_project implements AtomicTree                                    *)

UpdateKinds == {"load", "save_graph", "add", "drop", "install", "uninstall"}

(* What a call read under its mutex is still what is on disk when it       *)
(* writes, and the update it makes was not refused.                        *)
DocCurrent ==
  \A c \in Calls : pc[c] = "write_project" =>
    /\ doc[c] = project
    /\ Kind(c) = "add" => req[c].pkg \notin project.tree
    /\ Kind(c) = "drop" => req[c].pkg \in project.tree

(* A writer of project.json is inside its critical section. *)
LEMMA WriterInSection ==
  ASSUME WriterInv, NEW c \in Calls, pc[c] = "write_project"
  PROVE  InSection(c)
<1>1. Kind(c) \in LockedKinds
  BY DEF WriterInv, TypeInv, OnPath, LeadsTo, Kind, LockedKinds
<1> QED
  BY <1>1 DEF WriterInv, OwnLock, InSection, SectionSteps

(* Only WriteProject changes project.json where nobody creates or deletes. *)
LEMMA ProjectKept ==
  ASSUME Kinds \subseteq UpdateKinds, WriterInv, [Next]_vars,
         \A c \in Calls : ~WriteProject(c)
  PROVE  project' = project
<1> USE DEF vars, disk, local, Move, Kind, UpdateKinds, WriterInv, TypeInv, OnPath, LeadsTo
<1>1. ASSUME NEW c \in Calls, Begin(c) PROVE project' = project
  BY <1>1 DEF Begin
<1>2. ASSUME NEW c \in Calls, Probe(c) PROVE project' = project
  BY <1>2 DEF Probe
<1>3. ASSUME NEW c \in Calls, LockFor(c) PROVE project' = project
  BY <1>3 DEF LockFor
<1>4. ASSUME NEW c \in Calls, Acquire(c) PROVE project' = project
  BY <1>4 DEF Acquire
<1>5. ASSUME NEW c \in Calls, ProbeNew(c) PROVE project' = project
  BY <1>5 DEF ProbeNew
<1>6. ASSUME NEW c \in Calls, ProbeLegacy(c) PROVE project' = project
  BY <1>6 DEF ProbeLegacy
<1>7. ASSUME NEW c \in Calls, MigrateFolder(c) PROVE project' = project
  BY <1>7 DEF MigrateFolder
<1>8. ASSUME NEW c \in Calls, MigrateRename(c) PROVE project' = project
  BY <1>8 DEF MigrateRename
<1>9. ASSUME NEW c \in Calls, MakeFolder(c) PROVE project' = project
  BY <1>9 DEF MakeFolder
<1>10. ASSUME NEW c \in Calls, WriteGraph(c) PROVE project' = project
  BY <1>10 DEF WriteGraph
<1>11. ASSUME NEW c \in Calls, ReadProject(c) PROVE project' = project
  BY <1>11 DEF ReadProject
<1>12. ASSUME NEW c \in Calls, WriteProject(c) PROVE project' = project
  BY <1>12
<1>13. ASSUME NEW c \in Calls, PeekMarket(c) PROVE project' = project
  BY <1>13 DEF PeekMarket
<1>14. ASSUME NEW c \in Calls, SaveMarket(c) PROVE project' = project
  BY <1>14 DEF SaveMarket
<1>15. ASSUME NEW c \in Calls, ListDir(c) PROVE project' = project
  BY <1>15 DEF ListDir
<1>16. ASSUME NEW c \in Calls, RemoveEntry(c) PROVE project' = project
  BY <1>16 DEF RemoveEntry
<1>17. ASSUME NEW c \in Calls, RemoveDir(c) PROVE project' = project
  BY <1>17 DEF RemoveDir
<1>18. ASSUME NEW c \in Calls, ForgetLock(c) PROVE project' = project
  BY <1>18 DEF ForgetLock
<1>19. ASSUME NEW c \in Calls, CreateDir(c) PROVE project' = project
  BY <1>19 DEF CreateDir
<1>20. ASSUME NEW c \in Calls, WriteNewProject(c) PROVE project' = project
  BY <1>20 DEF WriteNewProject
<1>21. ASSUME NEW c \in Calls, WriteSeedMarket(c) PROVE project' = project
  BY <1>21 DEF WriteSeedMarket
<1>22. ASSUME NEW c \in Calls, PickSlug(c) PROVE project' = project
  BY <1>22 DEF PickSlug
<1>26. ASSUME NEW c \in Calls, NextSuffix(c) PROVE project' = project
  BY <1>26 DEF NextSuffix
<1>23. ASSUME NEW c \in Calls, ClaimDir(c) PROVE project' = project
  BY <1>23 DEF ClaimDir
<1>24. CASE Crash
  BY <1>24 DEF Crash
<1>25. CASE UNCHANGED vars
  BY <1>25
<1> QED
  BY <1>1, <1>2, <1>3, <1>4, <1>5, <1>6, <1>7, <1>8, <1>9, <1>10,
     <1>11, <1>12, <1>13, <1>14, <1>15, <1>16, <1>17, <1>18, <1>19, <1>20,
     <1>21, <1>22, <1>26, <1>23, <1>24, <1>25
  DEF Next, Work, LockStep, MigrateStep, SaveStep, MarketStep, DeleteStep, CreateStep

(* Only WriteProject acknowledges an update. *)
LEMMA AcknowledgedKept ==
  ASSUME WriterInv, [Next]_vars, \A c \in Calls : ~WriteProject(c)
  PROVE  Acknowledged' = Acknowledged
<1> USE DEF Acknowledged, vars, local, Move, Goto, Kind, WriterInv, TypeInv, TypeOK, CallsOK, OnPath, LeadsTo
<1>1. ASSUME NEW c \in Calls, Begin(c) PROVE Acknowledged' = Acknowledged
  BY <1>1 DEF Begin, FirstStep, AllKinds
<1>2. ASSUME NEW c \in Calls, Probe(c) PROVE Acknowledged' = Acknowledged
  BY <1>2 DEF Probe
<1>3. ASSUME NEW c \in Calls, LockFor(c) PROVE Acknowledged' = Acknowledged
  BY <1>3 DEF LockFor
<1>4. ASSUME NEW c \in Calls, Acquire(c) PROVE Acknowledged' = Acknowledged
  BY <1>4 DEF Acquire, FirstInSection, LockedKinds
<1>5. ASSUME NEW c \in Calls, ProbeNew(c) PROVE Acknowledged' = Acknowledged
  BY <1>5 DEF ProbeNew, AfterMigration
<1>6. ASSUME NEW c \in Calls, ProbeLegacy(c) PROVE Acknowledged' = Acknowledged
  BY <1>6 DEF ProbeLegacy, AfterMigration
<1>7. ASSUME NEW c \in Calls, MigrateFolder(c) PROVE Acknowledged' = Acknowledged
  BY <1>7 DEF MigrateFolder
<1>8. ASSUME NEW c \in Calls, MigrateRename(c) PROVE Acknowledged' = Acknowledged
  BY <1>8 DEF MigrateRename, AfterMigration
<1>9. ASSUME NEW c \in Calls, MakeFolder(c) PROVE Acknowledged' = Acknowledged
  BY <1>9 DEF MakeFolder
<1>10. ASSUME NEW c \in Calls, WriteGraph(c) PROVE Acknowledged' = Acknowledged
  BY <1>10 DEF WriteGraph, AfterGraph
<1>11. ASSUME NEW c \in Calls, ReadProject(c) PROVE Acknowledged' = Acknowledged
  BY <1>11 DEF ReadProject
<1>12. ASSUME NEW c \in Calls, WriteProject(c) PROVE Acknowledged' = Acknowledged
  BY <1>12
<1>13. ASSUME NEW c \in Calls, PeekMarket(c) PROVE Acknowledged' = Acknowledged
  BY <1>13 DEF PeekMarket
<1>14. ASSUME NEW c \in Calls, SaveMarket(c) PROVE Acknowledged' = Acknowledged
  BY <1>14 DEF SaveMarket
<1>15. ASSUME NEW c \in Calls, ListDir(c) PROVE Acknowledged' = Acknowledged
  BY <1>15 DEF ListDir
<1>16. ASSUME NEW c \in Calls, RemoveEntry(c) PROVE Acknowledged' = Acknowledged
  BY <1>16 DEF RemoveEntry
<1>17. ASSUME NEW c \in Calls, RemoveDir(c) PROVE Acknowledged' = Acknowledged
  BY <1>17 DEF RemoveDir
<1>18. ASSUME NEW c \in Calls, ForgetLock(c) PROVE Acknowledged' = Acknowledged
  BY <1>18 DEF ForgetLock
<1>19. ASSUME NEW c \in Calls, CreateDir(c) PROVE Acknowledged' = Acknowledged
  BY <1>19 DEF CreateDir
<1>20. ASSUME NEW c \in Calls, WriteNewProject(c) PROVE Acknowledged' = Acknowledged
  BY <1>20 DEF WriteNewProject
<1>21. ASSUME NEW c \in Calls, WriteSeedMarket(c) PROVE Acknowledged' = Acknowledged
  BY <1>21 DEF WriteSeedMarket
<1>22. ASSUME NEW c \in Calls, PickSlug(c) PROVE Acknowledged' = Acknowledged
  BY <1>22 DEF PickSlug
<1>26. ASSUME NEW c \in Calls, NextSuffix(c) PROVE Acknowledged' = Acknowledged
  BY <1>26 DEF NextSuffix
<1>23. ASSUME NEW c \in Calls, ClaimDir(c) PROVE Acknowledged' = Acknowledged
  BY <1>23 DEF ClaimDir
<1>24. CASE Crash
  BY <1>24 DEF Crash, ActiveSteps, SectionSteps
<1>25. CASE UNCHANGED vars
  BY <1>25
<1> QED
  BY <1>1, <1>2, <1>3, <1>4, <1>5, <1>6, <1>7, <1>8, <1>9, <1>10,
     <1>11, <1>12, <1>13, <1>14, <1>15, <1>16, <1>17, <1>18, <1>19, <1>20,
     <1>21, <1>22, <1>26, <1>23, <1>24, <1>25
  DEF Next, Work, LockStep, MigrateStep, SaveStep, MarketStep, DeleteStep, CreateStep

LEMMA StepDocCurrent ==
  ASSUME Kinds \subseteq UpdateKinds, WriterInv, DocCurrent, [Next]_vars
  PROVE  DocCurrent'
<1>1. CASE \E c \in Calls : WriteProject(c)
  <2>1. PICK c \in Calls : WriteProject(c)
    BY <1>1
  <2>2. ASSUME NEW d \in Calls, pc'[d] = "write_project" PROVE FALSE
    <3>1. d # c /\ pc[d] = "write_project"
      BY <2>1, <2>2 DEF WriteProject, Move, Goto, WriterInv, TypeInv, TypeOK, CallsOK
    <3>2. InSection(c) /\ InSection(d)
      BY <2>1, <3>1, WriterInSection DEF WriteProject, Move
    <3> QED
      BY <3>1, <3>2 DEF WriterInv, OneWriter
  <2> QED
    BY <2>2 DEF DocCurrent
<1>2. CASE \A c \in Calls : ~WriteProject(c)
  <2>1. project' = project
    BY <1>2, ProjectKept
  <2> USE <2>1 DEF DocCurrent, WriterInv, TypeInv, TypeOK, CallsOK, OnPath, vars, local, Move, Goto, Kind
  <2>2. ASSUME NEW c \in Calls, Begin(c) PROVE DocCurrent'
    BY <2>2 DEF Begin, FirstStep, AllKinds, UpdateKinds
  <2>3. ASSUME NEW c \in Calls, Probe(c) PROVE DocCurrent'
    BY <2>3 DEF Probe
  <2>4. ASSUME NEW c \in Calls, LockFor(c) PROVE DocCurrent'
    BY <2>4 DEF LockFor
  <2>5. ASSUME NEW c \in Calls, Acquire(c) PROVE DocCurrent'
    BY <2>5 DEF Acquire, FirstInSection, LeadsTo, LockedKinds
  <2>6. ASSUME NEW c \in Calls, ProbeNew(c) PROVE DocCurrent'
    BY <2>6 DEF ProbeNew, AfterMigration
  <2>7. ASSUME NEW c \in Calls, ProbeLegacy(c) PROVE DocCurrent'
    BY <2>7 DEF ProbeLegacy, AfterMigration
  <2>8. ASSUME NEW c \in Calls, MigrateFolder(c) PROVE DocCurrent'
    BY <2>8 DEF MigrateFolder
  <2>9. ASSUME NEW c \in Calls, MigrateRename(c) PROVE DocCurrent'
    BY <2>9 DEF MigrateRename, AfterMigration
  <2>10. ASSUME NEW c \in Calls, MakeFolder(c) PROVE DocCurrent'
    BY <2>10 DEF MakeFolder
  <2>11. ASSUME NEW c \in Calls, WriteGraph(c) PROVE DocCurrent'
    BY <2>11 DEF WriteGraph, AfterGraph, LeadsTo
  <2>12. ASSUME NEW c \in Calls, ReadProject(c) PROVE DocCurrent'
    BY <2>12 DEF ReadProject, Refused
  <2>13. ASSUME NEW c \in Calls, WriteProject(c) PROVE DocCurrent'
    BY <1>2, <2>13
  <2>14. ASSUME NEW c \in Calls, PeekMarket(c) PROVE DocCurrent'
    BY <2>14 DEF PeekMarket
  <2>15. ASSUME NEW c \in Calls, SaveMarket(c) PROVE DocCurrent'
    BY <2>15 DEF SaveMarket
  <2>16. ASSUME NEW c \in Calls, ListDir(c) PROVE DocCurrent'
    BY <2>16 DEF ListDir
  <2>17. ASSUME NEW c \in Calls, RemoveEntry(c) PROVE DocCurrent'
    BY <2>17 DEF RemoveEntry
  <2>18. ASSUME NEW c \in Calls, RemoveDir(c) PROVE DocCurrent'
    BY <2>18 DEF RemoveDir
  <2>19. ASSUME NEW c \in Calls, ForgetLock(c) PROVE DocCurrent'
    BY <2>19 DEF ForgetLock
  <2>20. ASSUME NEW c \in Calls, CreateDir(c) PROVE DocCurrent'
    BY <2>20 DEF CreateDir
  <2>21. ASSUME NEW c \in Calls, WriteNewProject(c) PROVE DocCurrent'
    BY <2>21 DEF WriteNewProject
  <2>22. ASSUME NEW c \in Calls, WriteSeedMarket(c) PROVE DocCurrent'
    BY <2>22 DEF WriteSeedMarket
  <2>23. ASSUME NEW c \in Calls, PickSlug(c) PROVE DocCurrent'
    BY <2>23 DEF PickSlug
  <2>24. ASSUME NEW c \in Calls, ClaimDir(c) PROVE DocCurrent'
    BY <2>24 DEF ClaimDir
  <2>25. CASE Crash
    BY <2>25 DEF Crash
  <2>27. ASSUME NEW c \in Calls, NextSuffix(c) PROVE DocCurrent'
    BY <2>27 DEF NextSuffix
  <2>26. CASE UNCHANGED vars
    BY <2>26
  <2> QED
    BY <2>2, <2>3, <2>4, <2>5, <2>6, <2>7, <2>8, <2>9, <2>10, <2>11,
       <2>12, <2>13, <2>14, <2>15, <2>16, <2>17, <2>18, <2>19, <2>20, <2>21,
       <2>22, <2>23, <2>24, <2>25, <2>26, <2>27
    DEF Next, Work, LockStep, MigrateStep, SaveStep, MarketStep, DeleteStep, CreateStep
<1> QED
  BY <1>1, <1>2

LEMMA StepRefines ==
  ASSUME Kinds \subseteq UpdateKinds, WriterInv, DocCurrent, [Next]_vars
  PROVE  [Updates!Next]_<<Tree, Acknowledged>>
<1>1. CASE \E c \in Calls : WriteProject(c)
  <2>1. PICK c \in Calls : WriteProject(c)
    BY <1>1
  <2>2. pc[c] = "write_project"
    BY <2>1 DEF WriteProject, Move
  <2>3. doc[c] = project /\ project \in Documents /\ project # None
    BY <2>2, StoreAssumption DEF DocCurrent, WriterInv, TypeInv, DocInHand
  <2>4. dir = TRUE
    BY <2>3 DEF WriterInv, TypeInv, TypeOK, DiskOK
  <2>5. req[c] \in Request /\ Kind(c) \in {"save_graph", "add", "drop"}
    BY <2>2 DEF WriterInv, TypeInv, OnPath, LeadsTo, Kind
  <2>6. project' = Updated(c) /\ pc' = [pc EXCEPT ![c] = "done"] /\ req' = req
    BY <2>1, <2>4 DEF WriteProject, Move, Goto
  <2>7. pc \in [Calls -> Steps]
    BY DEF WriterInv, TypeInv, TypeOK, CallsOK
  <2>8. CASE Kind(c) = "save_graph"
    <3>1. project' = project
      BY <2>3, <2>6, <2>8 DEF Updated
    <3>2. Acknowledged' = Acknowledged
      BY <2>2, <2>6, <2>7, <2>8 DEF Acknowledged, Kind
    <3> QED
      BY <3>1, <3>2 DEF Tree
  <2>9. CASE Kind(c) \in {"add", "drop"}
    <3>1. req[c].pkg \in Children
      BY <2>5, <2>9 DEF Request, Kind
    <3>2. Acknowledged' = Acknowledged \cup {c} /\ c \notin Acknowledged
      BY <2>2, <2>6, <2>7, <2>9 DEF Acknowledged, Kind
    <3>3. Tree = project.tree
      BY <2>3 DEF Tree
    <3>4. project' \in Documents /\ Tree' = project'.tree
      <4>1. project' \in Documents
        BY <2>3, <2>6, <3>1 DEF Updated, Documents
      <4> QED
        BY <4>1, StoreAssumption DEF Tree
    <3>5. CASE Kind(c) = "add"
      <4>1. Tree' = Tree \cup {req[c].pkg} /\ req[c].pkg \in Children \ Tree
        BY <2>2, <2>3, <2>6, <3>1, <3>3, <3>4, <3>5 DEF Updated, Documents, DocCurrent
      <4> QED
        BY <4>1, <3>2 DEF Updates!Next, Updates!Add, Updates!Acknowledge
    <3>6. CASE Kind(c) = "drop"
      <4>1. Tree' = Tree \ {req[c].pkg} /\ req[c].pkg \in Tree
        BY <2>2, <2>3, <2>6, <3>1, <3>3, <3>4, <3>6 DEF Updated, Documents, DocCurrent
      <4> QED
        BY <4>1, <3>2 DEF Updates!Next, Updates!Drop, Updates!Acknowledge
    <3> QED
      BY <2>9, <3>5, <3>6
  <2> QED
    BY <2>5, <2>8, <2>9
<1>2. CASE \A c \in Calls : ~WriteProject(c)
  <2>1. Tree' = Tree
    BY <1>2, ProjectKept DEF Tree
  <2>2. Acknowledged' = Acknowledged
    BY <1>2, AcknowledgedKept
  <2> QED
    BY <2>1, <2>2
<1> QED
  BY <1>1, <1>2

(* Where nobody creates or deletes the project, every update of its tree   *)
(* that mutate_project acknowledges is applied once, to the tree as it     *)
(* was, and neither save_graph's own rewriting of project.json nor a crash *)
(* loses one.                                                              *)
THEOREM UpdatesAreAtomic ==
  ASSUME Kinds \subseteq UpdateKinds
  PROVE  Spec => AtomicUpdates
<1>1. Init => Updates!Init /\ DocCurrent
  <2>1. Init => Tree \in SUBSET Children
    BY StoreAssumption DEF Init, Tree, Documents
  <2>2. Init => Acknowledged = {}
    BY DEF Init, Acknowledged
  <2>3. Init => DocCurrent
    BY DEF Init, DocCurrent
  <2> QED
    BY <2>1, <2>2, <2>3 DEF Updates!Init
<1>2. WriterInv /\ [Next]_vars => WriterInv'
  BY StepWriter DEF UpdateKinds
<1>3. WriterInv /\ DocCurrent /\ [Next]_vars => DocCurrent'
  BY StepDocCurrent
<1>4. WriterInv /\ DocCurrent /\ [Next]_vars => [Updates!Next]_<<Tree, Acknowledged>>
  BY StepRefines
<1> QED
  BY InitWriter, <1>1, <1>2, <1>3, <1>4, PTL DEF Spec, AtomicUpdates, Updates!Spec

-----------------------------------------------------------------------------
(* A migration never brings the legacy graph back                          *)

(* The call is a save_graph that has written its graph. *)
Saved(c) ==
  pc[c] \in {"read_project", "write_project", "done"} /\ Kind(c) = "save_graph"

(* Who is about to move the legacy graph found no graph in its place. *)
MigratorSawNone ==
  \A c \in Calls :
    pc[c] \in {"probe_legacy", "migrate_folder", "migrate_rename"} /\ legacy # None =>
      graph = None

FolderMade == \A c \in Calls : pc[c] = "migrate_rename" => folder

(* Who is about to write a graph has the migration behind it, or made the  *)
(* directory itself.                                                       *)
MigratedFirst ==
  \A c \in Calls :
    /\ pc[c] \in {"make_folder", "write_graph"} /\ legacy # None => graph # None
    /\ pc[c] \in {"claim_dir", "write_new_project"} => legacy = None

SavedStands == \A c \in Calls : Saved(c) => graph \in Calls

LegacyInv == TypeInv /\ MigratorSawNone /\ FolderMade /\ MigratedFirst /\ SavedStands

(* Nobody moves the legacy graph onto a saved one: the migration was       *)
(* finished, or not begun, when the graph was written.                     *)
LEMMA StepLegacy ==
  ASSUME "delete" \notin Kinds, LegacyInv, [Next]_vars
  PROVE  MigratorSawNone' /\ FolderMade' /\ MigratedFirst' /\ SavedStands'
<1> DEFINE Goal == MigratorSawNone /\ FolderMade /\ MigratedFirst /\ SavedStands
<1> USE StoreAssumption DEF LegacyInv, TypeInv, TypeOK, CallsOK, DiskOK, OnPath, MigratorSawNone,
        FolderMade, MigratedFirst, SavedStands, Saved, vars, disk, local, Move, Goto, Kind
<1>1. ASSUME NEW c \in Calls, Begin(c) PROVE Goal'
  BY <1>1 DEF Begin, FirstStep, AllKinds, LeadsTo, Request
<1>2. ASSUME NEW c \in Calls, Probe(c) PROVE Goal'
  BY <1>2 DEF Probe
<1>3. ASSUME NEW c \in Calls, LockFor(c) PROVE Goal'
  BY <1>3 DEF LockFor
<1>4. ASSUME NEW c \in Calls, Acquire(c) PROVE Goal'
  BY <1>4 DEF Acquire, FirstInSection, LeadsTo, LockedKinds
<1>5. ASSUME NEW c \in Calls, ProbeNew(c) PROVE Goal'
  BY <1>5 DEF ProbeNew, AfterMigration, LeadsTo
<1>6. ASSUME NEW c \in Calls, ProbeLegacy(c) PROVE Goal'
  BY <1>6 DEF ProbeLegacy, AfterMigration, LeadsTo
<1>7. ASSUME NEW c \in Calls, MigrateFolder(c) PROVE Goal'
  BY <1>7 DEF MigrateFolder
<1>8. ASSUME NEW c \in Calls, MigrateRename(c) PROVE Goal'
  BY <1>8 DEF MigrateRename, AfterMigration, LeadsTo, LegacyMoved
<1>9. ASSUME NEW c \in Calls, MakeFolder(c) PROVE Goal'
  BY <1>9 DEF MakeFolder
<1>10. ASSUME NEW c \in Calls, WriteGraph(c) PROVE Goal'
  BY <1>10 DEF WriteGraph, AfterGraph, LeadsTo
<1>11. ASSUME NEW c \in Calls, ReadProject(c) PROVE Goal'
  BY <1>11 DEF ReadProject, LeadsTo
<1>12. ASSUME NEW c \in Calls, WriteProject(c) PROVE Goal'
  BY <1>12 DEF WriteProject, LeadsTo
<1>13. ASSUME NEW c \in Calls, PeekMarket(c) PROVE Goal'
  BY <1>13 DEF PeekMarket, LeadsTo
<1>14. ASSUME NEW c \in Calls, SaveMarket(c) PROVE Goal'
  BY <1>14 DEF SaveMarket, LeadsTo
<1>15. ASSUME NEW c \in Calls, ListDir(c) PROVE Goal'
  BY <1>15 DEF ListDir, LeadsTo
<1>16. ASSUME NEW c \in Calls, RemoveEntry(c) PROVE Goal'
  BY <1>16 DEF RemoveEntry, LeadsTo
<1>17. ASSUME NEW c \in Calls, RemoveDir(c) PROVE Goal'
  BY <1>17 DEF RemoveDir, LeadsTo
<1>18. ASSUME NEW c \in Calls, ForgetLock(c) PROVE Goal'
  BY <1>18 DEF ForgetLock, LeadsTo
<1>19. ASSUME NEW c \in Calls, CreateDir(c) PROVE Goal'
  BY <1>19 DEF CreateDir
<1>20. ASSUME NEW c \in Calls, WriteNewProject(c) PROVE Goal'
  BY <1>20 DEF WriteNewProject
<1>21. ASSUME NEW c \in Calls, WriteSeedMarket(c) PROVE Goal'
  BY <1>21 DEF WriteSeedMarket, LeadsTo
<1>22. ASSUME NEW c \in Calls, PickSlug(c) PROVE Goal'
  BY <1>22 DEF PickSlug
<1>26. ASSUME NEW c \in Calls, NextSuffix(c) PROVE Goal'
  BY <1>26 DEF NextSuffix
<1>23. ASSUME NEW c \in Calls, ClaimDir(c) PROVE Goal'
  BY <1>23 DEF ClaimDir
<1>24. CASE Crash
  BY <1>24 DEF Crash
<1>25. CASE UNCHANGED vars
  BY <1>25
<1> QED
  BY <1>1, <1>2, <1>3, <1>4, <1>5, <1>6, <1>7, <1>8, <1>9, <1>10,
     <1>11, <1>12, <1>13, <1>14, <1>15, <1>16, <1>17, <1>18, <1>19, <1>20,
     <1>21, <1>22, <1>26, <1>23, <1>24, <1>25
  DEF Next, Work, LockStep, MigrateStep, SaveStep, MarketStep, DeleteStep, CreateStep

(* As long as nobody deletes the project: a graph that a PUT has saved is  *)
(* never replaced by the legacy one, whatever loads were in the middle of  *)
(* moving it, and across crashes.                                          *)
THEOREM LegacyStaysGone ==
  ASSUME "delete" \notin Kinds
  PROVE  Spec => []LegacyNeverReturns
<1>1. Init => LegacyInv
  BY InitTypes DEF Init, LegacyInv, MigratorSawNone, FolderMade, MigratedFirst, SavedStands, Saved
<1>2. LegacyInv /\ [Next]_vars => LegacyInv'
  <2>1. TypeInv /\ [Next]_vars => TypeInv'
    BY StepDisk, StepCalls, StepPath, StepDoc DEF TypeInv, TypeOK
  <2> QED
    BY <2>1, StepLegacy DEF LegacyInv
<1>3. LegacyInv => LegacyNeverReturns
  BY StoreAssumption DEF LegacyInv, SavedStands, Saved, LegacyNeverReturns
<1> QED
  BY <1>1, <1>2, <1>3, PTL DEF Spec

-----------------------------------------------------------------------------
(* With deletes                                                            *)

(* Calls that hold a mutex or wait for one. *)
Lockers == {c \in Calls : pc[c] = "waiting" \/ InSection(c)}

(* The mutex of a call is the one in the table until the next delete ends, *)
(* and two calls that asked between the same deletes were given the same.  *)
SameTable ==
  /\ \A c \in Lockers : seen[c] \subseteq Deleted /\ (seen[c] = Deleted => lock[c] = locks)
  /\ \A c, d \in Lockers : seen[c] = seen[d] => lock[c] = lock[d]

(* A mutex, forgotten or not, admits one call. *)
OnePerMutex ==
  \A c, d \in Calls : InSection(c) /\ InSection(d) /\ lock[c] = lock[d] => c = d

TableInv == TypeInv /\ OwnLock /\ OnePerMutex /\ SameTable

(* Acquire waits until nobody is inside with the mutex. *)
LEMMA StepOnePerMutex ==
  ASSUME TypeInv, OwnLock, OnePerMutex, [Next]_vars
  PROVE  OnePerMutex'
<1> USE StoreAssumption DEF TypeInv, TypeOK, CallsOK, OnPath, OwnLock, OnePerMutex, InSection,
        LockedKinds, SectionSteps, vars, local, Move, Goto, Kind
<1>1. ASSUME NEW c \in Calls, Begin(c) PROVE OnePerMutex'
  BY <1>1 DEF Begin, FirstStep, AllKinds, LeadsTo, Request
<1>2. ASSUME NEW c \in Calls, Probe(c) PROVE OnePerMutex'
  BY <1>2 DEF Probe, LeadsTo
<1>3. ASSUME NEW c \in Calls, LockFor(c) PROVE OnePerMutex'
  BY <1>3 DEF LockFor, LeadsTo, Registered
<1>4. ASSUME NEW c \in Calls, Acquire(c) PROVE OnePerMutex'
  BY <1>4 DEF Acquire, MutexFree
<1>5. ASSUME NEW c \in Calls, ProbeNew(c) PROVE OnePerMutex'
  BY <1>5 DEF ProbeNew, AfterMigration, LeadsTo
<1>6. ASSUME NEW c \in Calls, ProbeLegacy(c) PROVE OnePerMutex'
  BY <1>6 DEF ProbeLegacy, AfterMigration, LeadsTo
<1>7. ASSUME NEW c \in Calls, MigrateFolder(c) PROVE OnePerMutex'
  BY <1>7 DEF MigrateFolder, LeadsTo
<1>8. ASSUME NEW c \in Calls, MigrateRename(c) PROVE OnePerMutex'
  BY <1>8 DEF MigrateRename, AfterMigration, LeadsTo
<1>9. ASSUME NEW c \in Calls, MakeFolder(c) PROVE OnePerMutex'
  BY <1>9 DEF MakeFolder, LeadsTo
<1>10. ASSUME NEW c \in Calls, WriteGraph(c) PROVE OnePerMutex'
  BY <1>10 DEF WriteGraph, AfterGraph, LeadsTo
<1>11. ASSUME NEW c \in Calls, ReadProject(c) PROVE OnePerMutex'
  BY <1>11 DEF ReadProject, LeadsTo
<1>12. ASSUME NEW c \in Calls, WriteProject(c) PROVE OnePerMutex'
  BY <1>12 DEF WriteProject, LeadsTo
<1>13. ASSUME NEW c \in Calls, PeekMarket(c) PROVE OnePerMutex'
  BY <1>13 DEF PeekMarket, LeadsTo
<1>14. ASSUME NEW c \in Calls, SaveMarket(c) PROVE OnePerMutex'
  BY <1>14 DEF SaveMarket, LeadsTo
<1>15. ASSUME NEW c \in Calls, ListDir(c) PROVE OnePerMutex'
  BY <1>15 DEF ListDir, LeadsTo
<1>16. ASSUME NEW c \in Calls, RemoveEntry(c) PROVE OnePerMutex'
  BY <1>16 DEF RemoveEntry, LeadsTo
<1>17. ASSUME NEW c \in Calls, RemoveDir(c) PROVE OnePerMutex'
  BY <1>17 DEF RemoveDir, LeadsTo
<1>18. ASSUME NEW c \in Calls, ForgetLock(c) PROVE OnePerMutex'
  BY <1>18 DEF ForgetLock, LeadsTo
<1>19. ASSUME NEW c \in Calls, CreateDir(c) PROVE OnePerMutex'
  BY <1>19 DEF CreateDir, LeadsTo
<1>20. ASSUME NEW c \in Calls, WriteNewProject(c) PROVE OnePerMutex'
  BY <1>20 DEF WriteNewProject, LeadsTo
<1>21. ASSUME NEW c \in Calls, WriteSeedMarket(c) PROVE OnePerMutex'
  BY <1>21 DEF WriteSeedMarket, LeadsTo
<1>22. ASSUME NEW c \in Calls, PickSlug(c) PROVE OnePerMutex'
  BY <1>22 DEF PickSlug, LeadsTo
<1>26. ASSUME NEW c \in Calls, NextSuffix(c) PROVE OnePerMutex'
  BY <1>26 DEF NextSuffix, LeadsTo
<1>23. ASSUME NEW c \in Calls, ClaimDir(c) PROVE OnePerMutex'
  BY <1>23 DEF ClaimDir, LeadsTo
<1>24. CASE Crash
  BY <1>24 DEF Crash, ActiveSteps
<1>25. CASE UNCHANGED vars
  BY <1>25
<1> QED
  BY <1>1, <1>2, <1>3, <1>4, <1>5, <1>6, <1>7, <1>8, <1>9, <1>10,
     <1>11, <1>12, <1>13, <1>14, <1>15, <1>16, <1>17, <1>18, <1>19, <1>20,
     <1>21, <1>22, <1>26, <1>23, <1>24, <1>25
  DEF Next, Work, LockStep, MigrateStep, SaveStep, MarketStep, DeleteStep, CreateStep

(* Only ForgetLock changes the table while somebody waits or writes, and   *)
(* it ends a delete.                                                       *)
LEMMA StepSameTable ==
  ASSUME TypeInv, OwnLock, SameTable, [Next]_vars
  PROVE  SameTable'
<1> USE StoreAssumption DEF Lockers, Deleted, TypeInv, TypeOK, CallsOK, OnPath, OwnLock, SameTable, InSection,
        LockedKinds, SectionSteps, vars, local, Move, Goto, Kind
<1>1. ASSUME NEW c \in Calls, Begin(c) PROVE SameTable'
  BY <1>1 DEF Begin, FirstStep, AllKinds, LeadsTo, Request
<1>2. ASSUME NEW c \in Calls, Probe(c) PROVE SameTable'
  BY <1>2 DEF Probe, LeadsTo
<1>3. ASSUME NEW c \in Calls, LockFor(c) PROVE SameTable'
  BY <1>3 DEF LockFor, LeadsTo, Registered
<1>4. ASSUME NEW c \in Calls, Acquire(c) PROVE SameTable'
  BY <1>4 DEF Acquire, MutexFree
<1>5. ASSUME NEW c \in Calls, ProbeNew(c) PROVE SameTable'
  BY <1>5 DEF ProbeNew, AfterMigration, LeadsTo
<1>6. ASSUME NEW c \in Calls, ProbeLegacy(c) PROVE SameTable'
  BY <1>6 DEF ProbeLegacy, AfterMigration, LeadsTo
<1>7. ASSUME NEW c \in Calls, MigrateFolder(c) PROVE SameTable'
  BY <1>7 DEF MigrateFolder, LeadsTo
<1>8. ASSUME NEW c \in Calls, MigrateRename(c) PROVE SameTable'
  BY <1>8 DEF MigrateRename, AfterMigration, LeadsTo
<1>9. ASSUME NEW c \in Calls, MakeFolder(c) PROVE SameTable'
  BY <1>9 DEF MakeFolder, LeadsTo
<1>10. ASSUME NEW c \in Calls, WriteGraph(c) PROVE SameTable'
  BY <1>10 DEF WriteGraph, AfterGraph, LeadsTo
<1>11. ASSUME NEW c \in Calls, ReadProject(c) PROVE SameTable'
  BY <1>11 DEF ReadProject, LeadsTo
<1>12. ASSUME NEW c \in Calls, WriteProject(c) PROVE SameTable'
  BY <1>12 DEF WriteProject, LeadsTo
<1>13. ASSUME NEW c \in Calls, PeekMarket(c) PROVE SameTable'
  BY <1>13 DEF PeekMarket, LeadsTo
<1>14. ASSUME NEW c \in Calls, SaveMarket(c) PROVE SameTable'
  BY <1>14 DEF SaveMarket, LeadsTo
<1>15. ASSUME NEW c \in Calls, ListDir(c) PROVE SameTable'
  BY <1>15 DEF ListDir, LeadsTo
<1>16. ASSUME NEW c \in Calls, RemoveEntry(c) PROVE SameTable'
  BY <1>16 DEF RemoveEntry, LeadsTo
<1>17. ASSUME NEW c \in Calls, RemoveDir(c) PROVE SameTable'
  BY <1>17 DEF RemoveDir, LeadsTo
<1>18. ASSUME NEW c \in Calls, ForgetLock(c) PROVE SameTable'
  BY <1>18 DEF ForgetLock, LeadsTo
<1>19. ASSUME NEW c \in Calls, CreateDir(c) PROVE SameTable'
  BY <1>19 DEF CreateDir, LeadsTo
<1>20. ASSUME NEW c \in Calls, WriteNewProject(c) PROVE SameTable'
  BY <1>20 DEF WriteNewProject, LeadsTo
<1>21. ASSUME NEW c \in Calls, WriteSeedMarket(c) PROVE SameTable'
  BY <1>21 DEF WriteSeedMarket, LeadsTo
<1>22. ASSUME NEW c \in Calls, PickSlug(c) PROVE SameTable'
  BY <1>22 DEF PickSlug, LeadsTo
<1>26. ASSUME NEW c \in Calls, NextSuffix(c) PROVE SameTable'
  BY <1>26 DEF NextSuffix, LeadsTo
<1>23. ASSUME NEW c \in Calls, ClaimDir(c) PROVE SameTable'
  BY <1>23 DEF ClaimDir, LeadsTo
<1>24. CASE Crash
  BY <1>24 DEF Crash, ActiveSteps
<1>25. CASE UNCHANGED vars
  BY <1>25
<1> QED
  BY <1>1, <1>2, <1>3, <1>4, <1>5, <1>6, <1>7, <1>8, <1>9, <1>10,
     <1>11, <1>12, <1>13, <1>14, <1>15, <1>16, <1>17, <1>18, <1>19, <1>20,
     <1>21, <1>22, <1>26, <1>23, <1>24, <1>25
  DEF Next, Work, LockStep, MigrateStep, SaveStep, MarketStep, DeleteStep, CreateStep

(* However many deletes overlap the saves of a project: calls that asked   *)
(* for their mutex between the same two deletes never write together.      *)
THEOREM DeletesPartWriters == Spec => []OneWriterBetweenDeletes
<1>1. Init => TableInv
  BY InitTypes, InitWriter
     DEF WriterInv, OnePerMutex, OneWriter, TableInv, SameTable, Lockers, InSection,
         SectionSteps, Init
<1>2. TableInv /\ [Next]_vars => TableInv'
  BY StepDisk, StepCalls, StepPath, StepDoc, StepOwnLock, StepOnePerMutex, StepSameTable
     DEF TypeInv, TypeOK, TableInv
<1>3. TableInv => OneWriterBetweenDeletes
  BY DEF TableInv, OnePerMutex, SameTable, OneWriterBetweenDeletes, Lockers
<1> QED
  BY <1>1, <1>2, <1>3, PTL DEF Spec

=============================================================================
