----------------------------- MODULE Generator -----------------------------
(* The code generator (backend/src/codegen/mod.rs), over the edits of one    *)
(* project: graphs are saved or imported, packages come and go, below the    *)
(* root and from the marketplace, the user edits lib.rs, and each generation *)
(* works on the files of the ones before.                                    *)
(*                                                                           *)
(* A generation is a sequence of file writes, each atomic. It stops at the   *)
(* first failure, or anywhere when the server crashes, and leaves what it    *)
(* has written. Generations do not overlap here; CodegenCache has that. Only *)
(* the root package's graph is emitted; other packages are folders.          *)
EXTENDS Dataflow, Regions

CONSTANTS
  Seeds,        \* saved graphs that are generated as they are
  Starts,       \* saved graphs that a session of edits starts from
  Palette,      \* nodes the user adds in a session
  Imports,      \* graphs that import_archive brings, which nobody validates
  SortedSlugs,  \* the slugs of packages, in the order of a BTreeMap
  Packages,     \* packages that may exist below the root: sequences of slugs
  Offers,       \* what the marketplace has for a session
  MaxEdits,     \* bounds the edits and the crashes of a session
  MaxHands,     \* bounds the edits of lib.rs by hand
  Faults        \* a subset of {"crash"}

(* A list of nodes and finitely many edges between them. *)
IsGraph(g) ==
    /\ g = [nodes |-> g.nodes, edges |-> g.edges]
    /\ g.nodes \in Seq(NodesOf(g)) /\ IsFiniteSet(g.edges)

(* What a server can hold when a session starts: graphs, and those that      *)
(* nobody imported went through PUT graph. The templates are registered in   *)
(* the others too: a node without one is passed over (mod.rs 268), and these *)
(* graphs leave it out.                                                      *)
ASSUME GraphsAssumption ==
    /\ \A g \in Seeds \cup Starts \cup Imports : IsGraph(g)
    /\ \A g \in Seeds \cup Starts : Savable(g)
    /\ \A g \in Imports : \A n \in NodesOf(g) : n.t \in Registry

(* ... and whatever else matters in a config is one of the template's        *)
(* variants, which tell apart all that the code tells apart.                 *)
ASSUME VariantsAssumption ==
    /\ \A n \in Palette : n.var \in n.t.variants
    /\ \A g \in Seeds \cup Starts \cup Imports : \A n \in NodesOf(g) : n.var \in n.t.variants

ASSUME PackagesAssumption ==
    /\ SortedSlugs \in Seq(Range(SortedSlugs)) /\ IsInjective(SortedSlugs)
    /\ \A p \in Packages : p \in Seq(Range(SortedSlugs)) /\ p # <<>>

VARIABLES
  graph,        \* the root package's graph
  saved,        \* it went through PUT graph and was not imported
  packages,     \* the packages below the root
  market,       \* what is installed from the marketplace (marketplace.json)
  disk,         \* the generated files, see Empty
  last,         \* how the last generation ended, if nothing was edited since
  edits, hands

vars == <<graph, saved, packages, market, disk, last, edits, hands>>

Lib == <<>>                         \* src/lib.rs, as the path of src/
Mod(name) == <<"mod", name>>        \* the line `pub mod <name>;`
Folder(name) == Mod(<<"", name>>)   \* ... for a folder or file of that name

(* modules: dir and name -> what the file exports; texts: path -> the lines  *)
(* of lib.rs or of a folder's mod.rs; main, cargo, errors: what is generated *)
(* whole.                                                                    *)
Empty == [modules |-> <<>>, texts |-> <<>>, main |-> [entry |-> "", spawns |-> <<>>],
          cargo |-> {}, errors |-> ""]
-----------------------------------------------------------------------------
(* What a node emits.                                                        *)

Key(n) == LET T == n.t IN
    CASE T.stem = "id" -> n.id
      [] T.stem # "id" /\ n.name = Absent -> T.other
      [] T.stem = "raw" /\ n.name # Absent -> n.name
      [] OTHER -> Snake(n.name)
ModuleName(n) == <<n.t.prefix, Key(n)>>
Emits(n) == n.t.dir # ""
File(n) == <<n.t.dir, ModuleName(n)>>

Spelled(c, name) ==
    CASE c.spell = "lower" -> Lower(name) [] c.spell = "snake" -> Snake(name) [] OTHER -> name

(* The calls in the emission of n: to the nodes its ports are wired to, and, *)
(* for a handler without code, to the services wired to it.                  *)
CallsOf(g, n) ==
    {<<x[1], NodeOf(g, x[2].d)>> : x \in
       {y \in n.t.calls \X g.edges :
          /\ y[2].s = n.id /\ y[2].sp = y[1].port
          /\ NodeOf(g, y[2].d).t.id = y[1].t
          /\ y[1].into = {} \/ y[2].dp \in y[1].into}}
    \cup
    {<<x[1], NodeOf(g, x[2].s)>> : x \in
       {y \in n.t.pulls \X g.edges :
          /\ n.var # "code"
          /\ y[2].d = n.id /\ y[2].dp = y[1].port
          /\ NodeOf(g, y[2].s).t.id = y[1].t}}

(* unwrap on the name of a target that has none.                             *)
Panics(g, n) == \E x \in CallsOf(g, n) : x[1].missing = "panic" /\ x[2].name = Absent

(* Mutant: a template that refuses its config is passed over. *)
Refused_Skips(g, n) == FALSE

(* The emission is refused by the template, or does not parse: a keyword as  *)
(* the name of its function, or of a module it uses.                         *)
Refused(g, n) ==
    /\ Emits(n)
    /\ \/ n.name \notin n.t.accepts
       \/ n.var = "bad"
       \/ n.t.fn = OwnName /\ n.var \notin {"code", "execute"} /\ Keyword(n.name)
       \/ \E x \in CallsOf(g, n) : Keyword(Spelled(x[1], x[2].name))

InputWired(g, n) == \E e \in g.edges : e.d = n.id /\ e.dp = "input"

Exports(g, n) == LET T == n.t IN
    {<<s, 1>> : s \in T.sends}
    \cup (IF T.fn = "" THEN {}
          ELSE {<<IF T.fn # OwnName THEN T.fn ELSE IF n.var = "execute" THEN "execute" ELSE n.name,
                  IF T.wired /\ InputWired(g, n) THEN 1 ELSE T.args>>})
-----------------------------------------------------------------------------
(* What a graph makes.                                                       *)

OfType(g, t) == Those(g.nodes, {n \in NodesOf(g) : n.t.id = t})
HasRoutes(g) == OfType(g, "http.route") # <<>>
EntryFramework(g) ==
    IF OfType(g, "core.entry_point") = <<>> THEN "axum" ELSE OfType(g, "core.entry_point")[1].var
Framework(g) == IF HasRoutes(g) THEN EntryFramework(g) ELSE "none"

(* dir_mods, and the order of a BTreeMap.                                    *)
SortedDirs == <<"consumers", "dto", "functions", "grpc", "handlers", "integrations", "loggers",
                "marketplace", "middlewares", "parsers", "runtime", "schedulers", "services",
                "src/functions", "streams", "types">>
ModulesIn(g, d) ==
    LET inDir == Those(g.nodes, {n \in NodesOf(g) : n.t.dir = d})
    IN  [i \in DOMAIN inDir |-> ModuleName(inDir[i])]
Dirs(g) == Those(SortedDirs, {n.t.dir : n \in NodesOf(g)})

(* Mutant: what is spawned is what an entry point starts. *)
Spawns_AllModules(g) ==
    LET runners == Those(g.nodes, {n \in NodesOf(g) : Emits(n)})
    IN  [i \in DOMAIN runners |-> File(runners[i])]

Spawns(g) ==
    LET runners == Those(g.nodes, {n \in NodesOf(g) : Emits(n) /\ RunsForever(n.t)})
    IN  [i \in DOMAIN runners |-> File(runners[i])]

Main(g) == [entry |-> Framework(g), spawns |-> Spawns(g)]

Nowhere == ""       \* no edge leads on
Wired(g, id, port) ==
    IF \E e \in g.edges : e.s = id /\ e.sp = port
    THEN (CHOOSE e \in g.edges : e.s = id /\ e.sp = port).d ELSE Nowhere

(* The walk from a route through its middlewares to a handler. The code has  *)
(* no other end than the chain's: a walk that is longer than the graph goes  *)
(* in circles.                                                               *)
WalkStep(g, w) ==
    CASE w.at = Nowhere -> w
      [] w.at # Nowhere /\ NodeOf(g, w.at).t.id = "http.middleware" ->
           [w EXCEPT !.at = Wired(g, w.at, "handler"), !.wraps = Append(@, NodeOf(g, w.at).name)]
      [] w.at # Nowhere /\ NodeOf(g, w.at).t.id = "http.handler" ->
           [w EXCEPT !.at = Nowhere, !.handler = NodeOf(g, w.at).name]
      [] OTHER -> [w EXCEPT !.at = Nowhere]

Walk(g, route) ==
    LET W[n \in 0..Len(g.nodes) + 1] ==
          IF n = 0 THEN [at |-> Wired(g, route.id, "request"), wraps |-> <<>>, handler |-> Absent]
          ELSE WalkStep(g, W[n - 1])
    IN  W[Len(g.nodes) + 1]
Walks(g) == [i \in DOMAIN OfType(g, "http.route") |-> Walk(g, OfType(g, "http.route")[i])]
NeverEnds(g) == \E i \in DOMAIN Walks(g) : Walks(g)[i].at # Nowhere

Routes(g) ==
    LET mounted == Those(Walks(g), {w \in Range(Walks(g)) : w.handler # Absent})
    IN  [i \in DOMAIN mounted |-> <<"route", <<Framework(g), mounted[i].handler, mounted[i].wraps>>>>]

Children(pk, p) ==
    LET below == {q \in pk : Len(q) = Len(p) + 1 /\ SubSeq(q, 1, Len(p)) = p}
    IN  {q[Len(q)] : q \in below}
Declare(names, sorted) ==
    LET here == Those(sorted, names)
    IN  [i \in DOMAIN here |-> Folder(here[i])]

(* The files of every project.                                               *)
Given == <<"errors", "debug">>

(* Mutant: the packages are declared without a look at the directories. *)
LibDecls_Twice(g, pk) ==
    [i \in DOMAIN Given |-> Folder(Given[i])]
      \o Declare(Range(Dirs(g)), SortedDirs) \o Declare(Children(pk, Lib), SortedSlugs)

(* module_decls of lib.rs: a package named like a directory of modules, or   *)
(* like a given file, is not declared a second time.                         *)
LibDecls(g, pk) ==
    [i \in DOMAIN Given |-> Folder(Given[i])]
      \o Declare(Range(Dirs(g)), SortedDirs)
      \o Declare(Children(pk, Lib) \ (Range(Dirs(g)) \cup Range(Given)), SortedSlugs)

LibRegions(g, pk) ==
    [id \in {"module_decls"} \cup (IF Routes(g) = <<>> THEN {} ELSE {"routes"}) |->
       IF id = "routes" THEN Routes(g) ELSE LibDecls(g, pk)]

(* lib_rs: the scaffold of a project without lib.rs.                         *)
RouterFn(fw) == IF fw = "actix" THEN "fn configure_routes" ELSE "fn router"
LibScaffold(fw) ==
    <<Text("head"), Begin("module_decls"), End("module_decls")>>
      \o (IF fw = "none" THEN <<>>
          ELSE <<Text(RouterFn(fw)), Begin("routes"), End("routes"), Text("end fn")>>)

(* The crates of what is installed; another package brings none.             *)
OfferCrates == [scylla |-> "scylla", mongodb |-> "mongodb", nats |-> "async-nats",
                surrealdb |-> "surrealdb", clickhouse |-> "clickhouse", s3 |-> "aws-sdk-s3",
                webrtc |-> "webrtc", rabbitmq |-> "lapin"]
MarketCrates == {OfferCrates[x] : x \in market \cap DOMAIN OfferCrates}

(* cargo_toml::render, with what the templates, the marketplace and the      *)
(* framework bring, without the versions.                                    *)
Baseline == {"tokio", "serde", "serde_json", "tracing", "tracing-subscriber", "thiserror", "anyhow"}
CratesOf(n) == n.t.crates \cup (IF n.var = "code" THEN n.t.codeCrates ELSE {})

(* Mutant: the dependencies of nodes with code are forgotten. *)
Cargo_PlainOnly(g) ==
    Baseline \cup (UNION {n.t.crates : n \in NodesOf(g)}) \cup MarketCrates
      \cup (CASE Framework(g) = "axum" -> {"axum"}
              [] Framework(g) = "actix" -> {"actix-web", "actix-web-lab"}
              [] OTHER -> {})
Cargo(g) ==
    Baseline \cup (UNION {CratesOf(n) : n \in NodesOf(g)}) \cup MarketCrates
      \cup (CASE Framework(g) = "axum" -> {"axum"}
              [] Framework(g) = "actix" -> {"actix-web", "actix-web-lab"}
              [] OTHER -> {})

-----------------------------------------------------------------------------
(* The writes of a generation, in their order.                               *)

Step(op, arg) == <<op, arg>>
Steps(g, pk) ==
    <<Step("errors", 0)>>
      \o [i \in DOMAIN g.nodes |-> Step("node", g.nodes[i])]
      \o <<Step("main", 0), Step("lib", 0)>>
      \o [i \in DOMAIN Dirs(g) |-> Step("dir", Dirs(g)[i])]
      \o <<Step("cargo", 0)>>
      \o LET paths == SetToSeq(pk) IN [i \in DOMAIN paths |-> Step("package", paths[i])]

Put(f, k, v) == [x \in DOMAIN f \cup {k} |-> IF x = k THEN v ELSE f[x]]

WriteNode(r, g, n) ==
    CASE Panics(g, n) -> [r EXCEPT !.status = "panicked"]
      [] ~Panics(g, n) /\ Refused(g, n) -> [r EXCEPT !.status = "failed"]
      [] ~Panics(g, n) /\ ~Refused(g, n) /\ Emits(n) ->
           [r EXCEPT !.disk.modules = Put(@, File(n), Exports(g, n))]
      [] OTHER -> r

(* lib.rs: routes are looked for after main.rs was written. A region that is *)
(* not emitted any more, or whose lines are none, goes from the file.        *)
WriteLib(r, g, pk) ==
    LET base == IF Lib \in DOMAIN r.disk.texts THEN r.disk.texts[Lib]
                ELSE LibScaffold(Framework(g))
    IN  CASE NeverEnds(g) -> [r EXCEPT !.status = "hung"]
          [] ~NeverEnds(g) /\ ~WellFormed(base) -> [r EXCEPT !.status = "failed"]
          [] OTHER -> [r EXCEPT !.disk.texts = Put(@, Lib, Merge(base, LibRegions(g, pk)))]

WriteDir(r, g, d) ==
    LET base == IF <<d>> \in DOMAIN r.disk.texts THEN r.disk.texts[<<d>>]
                ELSE <<Begin("mods"), End("mods")>>
        mods == [i \in DOMAIN ModulesIn(g, d) |-> Mod(ModulesIn(g, d)[i])]
    IN  IF ~WellFormed(base) THEN [r EXCEPT !.status = "failed"]
        ELSE [r EXCEPT !.disk.texts = Put(@, <<d>>, Merge(base, [id \in {"mods"} |-> mods]))]

(* Mutant: the children are added to what the file declares. *)
PackageText_KeepsAll(text, ours) ==
    IF Begin("module_decls") \in Range(text) /\ WellFormed(text)
    THEN Merge(text, [id \in {"module_decls"} |-> Body(text, id) \o ours])
    ELSE text

(* The mod.rs of a package. In a file with the region, what it declares that *)
(* is not a child now is kept before the children, without the blank lines;  *)
(* a file without it is let alone.                                           *)
PackageText(text, ours) ==
    LET kept == Those(Body(text, "module_decls"), Range(text) \ (Range(ours) \cup {Blank}))
    IN  IF Begin("module_decls") \in Range(text) /\ WellFormed(text)
        THEN Merge(text, [id \in {"module_decls"} |-> kept \o ours])
        ELSE text

Stub(ours) == <<Text("stub"), Begin("module_decls")>> \o ours \o <<End("module_decls")>>

WritePackage(r, pk, p) ==
    LET ours == Declare(Children(pk, p), SortedSlugs)
        new == IF p \in DOMAIN r.disk.texts THEN PackageText(r.disk.texts[p], ours)
               ELSE Stub(ours)
    IN  [r EXCEPT !.disk.texts = Put(@, p, new)]

Write(r, s, g, pk) ==
    CASE r.status # "running" -> r
      [] r.status = "running" /\ s[1] = "errors" -> [r EXCEPT !.disk.errors = Framework(g)]
      [] r.status = "running" /\ s[1] = "node" -> WriteNode(r, g, s[2])
      [] r.status = "running" /\ s[1] = "main" -> [r EXCEPT !.disk.main = Main(g)]
      [] r.status = "running" /\ s[1] = "lib" -> WriteLib(r, g, pk)
      [] r.status = "running" /\ s[1] = "dir" -> WriteDir(r, g, s[2])
      [] r.status = "running" /\ s[1] = "cargo" -> [r EXCEPT !.disk.cargo = Cargo(g)]
      [] OTHER -> WritePackage(r, pk, s[2])

Run(steps) ==
    LET R[n \in 0..Len(steps)] ==
          IF n = 0 THEN [disk |-> disk, status |-> "running"]
          ELSE Write(R[n - 1], steps[n], graph, packages)
    IN  R[Len(steps)]
-----------------------------------------------------------------------------
Init ==
    /\ \/ graph \in Starts /\ edits = 0
       \/ graph \in Seeds \cup Imports /\ edits = MaxEdits
    /\ saved = (graph \notin Imports)
    /\ packages = {} /\ market = {}
    /\ disk = Empty
    /\ last = "none"
    /\ hands = 0

(* PUT graph; a graph that is not savable is answered with an error.         *)
Save(g) ==
    /\ edits < MaxEdits
    /\ Savable(g)
    /\ graph' = g /\ saved' = TRUE
    /\ edits' = edits + 1 /\ last' = "none"
    /\ UNCHANGED <<packages, market, disk, hands>>

AddNode == \E n \in Palette :
    ~HasNode(graph, n.id) /\ Save([graph EXCEPT !.nodes = Append(@, n)])
RemoveNode == \E n \in NodesOf(graph) :
    Save([nodes |-> Those(graph.nodes, NodesOf(graph) \ {n}),
          edges |-> {e \in graph.edges : n.id \notin {e.s, e.d}}])
Connect ==
    \E n \in NodesOf(graph), m \in NodesOf(graph) :
      \E p \in PortSpecs(n).outs, q \in PortSpecs(m).ins :
        LET e == [s |-> n.id, sp |-> p.name, d |-> m.id, dp |-> q.name]
        IN  e \notin graph.edges /\ Save([graph EXCEPT !.edges = @ \cup {e}])
Disconnect == \E e \in graph.edges : Save([graph EXCEPT !.edges = @ \ {e}])

(* POST and DELETE of a package; its folder under src/ is not removed.       *)
ChangePackages ==
    /\ edits < MaxEdits
    /\ \/ \E p \in Packages \ packages :
            /\ Len(p) > 1 => SubSeq(p, 1, Len(p) - 1) \in packages
            /\ packages' = packages \cup {p}
       \/ \E p \in packages :
            packages' = {q \in packages : Len(q) < Len(p) \/ SubSeq(q, 1, Len(p)) # p}
    /\ edits' = edits + 1 /\ last' = "none"
    /\ UNCHANGED <<graph, saved, market, disk, hands>>

(* POST marketplace/install and uninstall, of what is not there, or is.      *)
ChangeMarket ==
    /\ edits < MaxEdits
    /\ \/ \E x \in Offers \ market : market' = market \cup {x}
       \/ \E x \in market : market' = market \ {x}
    /\ edits' = edits + 1 /\ last' = "none"
    /\ UNCHANGED <<graph, saved, packages, disk, hands>>

(* The user writes at the end of lib.rs, or deletes a marker in it.          *)
HandEdit ==
    /\ hands < MaxHands /\ edits < MaxEdits
    /\ Lib \in DOMAIN disk.texts
    /\ LET lib == disk.texts[Lib] IN
       \E new \in {Append(lib, Text("user"))}
                   \cup {RemoveAt(lib, i) : i \in {k \in DOMAIN lib : IsMarker(lib[k])}} :
         disk' = [disk EXCEPT !.texts[Lib] = new]
    /\ hands' = hands + 1 /\ last' = "none"
    /\ UNCHANGED <<graph, saved, packages, market, edits>>

Generate ==
    LET r == Run(Steps(graph, packages)) IN
    /\ disk' = r.disk
    /\ last' = IF r.status = "running" THEN "ok" ELSE r.status
    /\ UNCHANGED <<graph, saved, packages, market, edits, hands>>

Crash ==
    /\ "crash" \in Faults /\ edits < MaxEdits
    /\ \E k \in 0..Len(Steps(graph, packages)) - 1 :
         disk' = Run(SubSeq(Steps(graph, packages), 1, k)).disk
    /\ edits' = edits + 1 /\ last' = "crashed"
    /\ UNCHANGED <<graph, saved, packages, market, hands>>

Next ==
    \/ AddNode \/ RemoveNode \/ Connect \/ Disconnect \/ ChangePackages \/ ChangeMarket
    \/ HandEdit \/ Generate \/ Crash

Spec == Init /\ [][Next]_vars
-----------------------------------------------------------------------------
(* Properties.                                                               *)

(* No generation, whole, failed or cut off, touches what the user wrote      *)
(* outside the regions: the lines of lib.rs and of every mod.rs that are not *)
(* generated stay, in their order (regions.rs 27, merge).                    *)
UserTextKept ==
    [][(Generate \/ Crash) =>
         \A p \in DOMAIN disk.texts :
           p \in DOMAIN disk'.texts /\ TextLines(disk'.texts[p]) = TextLines(disk.texts[p])]_vars

(* After a generation that ended well, whatever the ones before left behind, *)
(* the files are those of this graph and these packages: main.rs, errors.rs  *)
(* and Cargo.toml, with the crates of what is installed and of no other,     *)
(* what every module exports (of two nodes with one file, the later one's),  *)
(* the routes, and the declarations of lib.rs and of each directory.         *)
LastWith(g, f) ==
    LET here == Those(g.nodes, {n \in NodesOf(g) : Emits(n) /\ File(n) = f}) IN here[Len(here)]

OutputIsCurrent ==
    last = "ok" =>
      /\ disk.main.entry = Framework(graph) /\ disk.errors = Framework(graph)
      /\ Range(disk.main.spawns) =
           {File(n) : n \in {m \in NodesOf(graph) : Emits(m) /\ RunsForever(m.t)}}
      /\ disk.cargo = Cargo(graph)
      /\ Body(disk.texts[Lib], "routes") = Routes(graph)
      /\ \A n \in NodesOf(graph) :
           Emits(n) => disk.modules[File(n)] = Exports(graph, LastWith(graph, File(n)))
      /\ Range(Body(disk.texts[Lib], "module_decls")) =
           {Folder(x) : x \in Range(Given) \cup Range(Dirs(graph)) \cup Children(packages, Lib)}
      /\ \A n \in NodesOf(graph) :
           Emits(n) => Mod(ModuleName(n)) \in
                         Range(Body(disk.texts[<<n.t.dir>>], "mods"))

(* ... and what the regions declare is there, once: two declarations of one  *)
(* name would not compile. The nodes of a directory that emit one file are   *)
(* the exception, and, in the file of a package, what an earlier generation  *)
(* declared: it is kept, whether or not that one got to write the child.     *)
Resolves(p, line) ==
    \/ p = Lib /\ line[2][2] \in Range(Given)
    \/ Append(p, line[2][2]) \in DOMAIN disk.texts
    \/ Len(p) = 1 /\ <<p[1], line[2]>> \in DOMAIN disk.modules

OneFileEach(g) ==
    \A i, j \in DOMAIN g.nodes :
      Emits(g.nodes[i]) /\ Emits(g.nodes[j]) /\ File(g.nodes[i]) = File(g.nodes[j]) => i = j

LibResolves ==
    LET decls == Body(disk.texts[Lib], "module_decls")
    IN  IsInjective(decls) /\ \A i \in DOMAIN decls : Resolves(Lib, decls[i])

DirResolves(d) ==
    LET decls == Body(disk.texts[<<d>>], "mods")
    IN  /\ OneFileEach(graph) => IsInjective(decls)
        /\ \A i \in DOMAIN decls : Resolves(<<d>>, decls[i])

PackageResolves(p) ==
    LET text == disk.texts[p]
        decls == Body(text, "module_decls")
    IN  \A x \in Children(packages, p) :
          /\ Resolves(p, Folder(x))
          /\ Begin("module_decls") \in Range(text) /\ WellFormed(text) =>
               \E i \in DOMAIN decls : \A j \in DOMAIN decls : decls[j] = Folder(x) <=> i = j

DeclarationsResolve ==
    last = "ok" =>
      /\ LibResolves
      /\ \A d \in Range(Dirs(graph)) : DirResolves(d)
      /\ \A p \in packages : PackageResolves(p)

(* The templates agree with each other: what main.rs spawns is a run() of    *)
(* its module, and what an emission calls is a function of the module it     *)
(* names, with that many arguments. Names that differ in snake case and as   *)
(* written do not resolve (core.service's users and its file), and a service *)
(* without code takes no payload, although a consumer or stream passes one;  *)
(* the function of a custom block is the user's.                             *)
Agreed(c, n) ==
    /\ n.name \in SnakeNames
    /\ ~(c.t = "core.service" /\ c.args = 1)
    /\ c.t = "custom.block" => c.fn = (IF n.var = "execute" THEN "execute" ELSE OwnName)

CallsResolve ==
    last = "ok" /\ saved =>
      /\ \A i \in DOMAIN disk.main.spawns :
           OneFileEach(graph) => <<"run", 0>> \in disk.modules[disk.main.spawns[i]]
      /\ \A n \in NodesOf(graph) : \A x \in CallsOf(graph, n) :
           LET name == Spelled(x[1], x[2].name) IN
           Agreed(x[1], x[2]) /\ OneFileEach(graph) =>
             <<IF x[1].fn = OwnName THEN name ELSE x[1].fn, x[1].args>>
               \in disk.modules[<<x[1].dir, <<"", name>>>>]

(* Cargo.toml has every crate the sources name. axum and actix are there for *)
(* a graph with a route; a handler without one does not compile.             *)
WebCrate(g) == IF EntryFramework(g) = "actix" THEN "actix-web" ELSE "axum"
DependenciesDeclared ==
    last = "ok" =>
      \A n \in NodesOf(graph) :
        /\ CratesOf(n) \subseteq disk.cargo
        /\ n.t.axum /\ HasRoutes(graph) => WebCrate(graph) \in disk.cargo

TemplatesAgree == CallsResolve /\ DependenciesDeclared

(* A generation of what was just generated changes nothing (regions.rs 194,  *)
(* files.rs write_atomic_if_changed), but for one file: mod.rs 27 says that  *)
(* it "produces byte-identical output", and the mod.rs of a package without  *)
(* children, when it was just started, gets a blank line. The generation     *)
(* after that leaves it.                                                     *)
Spaced(texts) ==
    [p \in DOMAIN texts |->
       IF p \in packages /\ texts[p] = Stub(<<>>) THEN Stub(<<Blank>>) ELSE texts[p]]
RegenerationIsIdle ==
    [][Generate /\ last = "ok" => disk' = [disk EXCEPT !.texts = Spaced(@)]]_vars

(* The walk along a route ends for every graph that was saved: a port that   *)
(* takes one edge leaves no way into a circle of middlewares.                *)
SavedGraphsEnd == saved => last # "hung"

(* What the analysis comes to for a graph that was saved: every value is     *)
(* moved, whatever its consumers' configs ask for. features.md 61-67 says    *)
(* otherwise: a value across tasks "automatically" gets an Arc, or a lock if *)
(* it is mutated, and one of several uses is borrowed, all "Implemented &    *)
(* Wired". But a consumer is in every task of its producer (dataflow.rs 66), *)
(* so nothing is ever across tasks, and an output takes one edge when PUT    *)
(* graph is asked, so nothing has several uses. The tests of dataflow.rs     *)
(* (288, 320) wire one output twice, which only an import can bring.         *)
SavedValuesMove ==
    saved => \A v \in Values(graph), mut \in BOOLEAN : Analyze(graph)[v][mut] = "Move"

(* The routes are where main.rs looks for them: in the function it calls.    *)
Mounted(text, fw, routes) ==
    /\ Body(text, "routes") = routes
    /\ \E i, j, k \in DOMAIN text :
         i < j /\ j < k /\ text[i] = Text(RouterFn(fw)) /\ text[j] = Begin("routes")
           /\ text[k] = Text("end fn")

(* Once they are, a generation with routes of the same framework leaves them *)
(* there.                                                                    *)
RoutesStayMounted ==
    [][Generate /\ last' = "ok" /\ Lib \in DOMAIN disk.texts /\ WellFormed(disk.texts[Lib])
         /\ Mounted(disk.texts[Lib], Framework(graph), Body(disk.texts[Lib], "routes"))
         /\ Routes(graph) # <<>>
       => Mounted(disk'.texts[Lib], Framework(graph), Routes(graph))]_vars

(* bootstrap.rs 473: the empty region in the scaffold "is the splice point"  *)
(* of the routes. It is not, when the first generation had no route, or none *)
(* with a handler: the scaffold has no such function then, or the merge      *)
(* drops the empty region from it, and the routes come to the end of the     *)
(* file.                                                                     *)
RoutesAreMounted ==
    last = "ok" /\ Routes(graph) # <<>> =>
      Mounted(disk.texts[Lib], Framework(graph), Routes(graph))
=============================================================================
