# rust-builder: a TLA+ verification development

rust-builder is a studio for Rust programs drawn as graphs. Its backend
(`src/backend`, axum on tokio's multi-threaded runtime) keeps projects on disk,
generates a cargo project from each, and builds and runs it. Its state lives in
three places: files under the project's directory, maps in the server's memory,
and the child processes and streams it has started. Most of what can go wrong
is between them, when requests, background tasks and children interleave.

This directory has the TLA+ modules that model those parts, the TLC
configurations that check them on small instances, and theorems about them
checked by TLAPS. All paths below are relative to `src/backend/src/`; numbers
after a file name are line numbers.

## 1. Inventory

| part | state | operations | what makes it correct |
|---|---|---|---|
| Run manager, `run/mod.rs` | `processes` (slug -> Child), one broadcast channel per slug | `start_run`, cleanup task, `stop_run`, reaper, `send_stdin`, `subscribe`, metrics daemon | one Exit per child, after its death; no entry, and no child, that nobody watches |
| Project store, `projects/store.rs` | one directory per slug, `locks` (slug -> mutex) | `load`, `save_graph*`, `mutate_project`, `create`, `delete`, `import_archive`, `export_archive`, marketplace list, legacy migration | one writer at a time, no lost update, no old graph over a new one, every call ends |
| Package tree, `projects/handlers.rs` 570-880, `projects/types.rs` | `packages` of project.json, folders `packages/<slug>` | create, rename, delete, save of a graph | the tree is always valid, a package keeps its graph, no folder is left behind |
| Codegen cache, `codegen/cache.rs` | `last_hash` (slug -> hash), the generated files | `regen_if_changed_tree`, `forget`, `regen_project` | a build compiles the files of the project as it is saved |
| Build manager, `build/mod.rs` | `channels`, `running` | `start_build`, reader tasks, exit task, `/ws/build` stream | one build per slug, Start first and Exit last, the slug is freed |
| Generator, `codegen/{mod,files,bootstrap,cargo_toml,types}.rs` | none of its own; the files under `src/` | a generation: errors.rs, a module a node, main.rs, lib.rs, mod.rs of directories and packages, Cargo.toml | the files are those of the saved graph, whatever earlier generations left; what they declare and call is there |
| Template catalogue, `templates/*` | none | ports, config check, emission of each node type | what one template calls is what another exports |
| Generated regions, `codegen/regions.rs` | the user's text around them | `parse_regions`, `merge` | user text survives, a second generation changes nothing |
| Dataflow and validation, `codegen/dataflow.rs`, `projects/validation.rs` | none | pure functions of a graph | walks over a saved graph end; how a value is passed |
| Generated program: operators, `templates/builtins/stream.rs`; `supervise`, `codegen/bootstrap.rs` | bounded channels, windows, backoff | receive, send, tick, panic, restart | events pass once, in order; a panic loses what was in hand and no more; nothing stays stuck |
| Debug bridge of generated programs, `codegen/bootstrap.rs` | breakpoints, step mode | stdin commands | a paused program can be released |
| Collaboration rooms, `projects/collab.rs` | rooms per slug: clients and their queues | join, leave, broadcast, graph edit | presence follows the sockets, nothing is told that was not saved |
| Frontend, `src/frontend/src/views/ProjectCanvas.tsx` | canvas, timer of the autosave, socket | load, edit, autosave, save, receive | a package's graph is its own, peers see each other's edits in order |
| LLM flows, audit, database introspection | none | requests that keep nothing | - |

How they interact: a request handler (`projects/handlers.rs`) loads the project
and its graphs from the store, asks the cache to regenerate, and hands the
directory to the build or run manager, which spawns cargo and the tasks that
forward its output on the slug's channel to WebSocket clients. Nothing spans two
of these steps: the store's lock is per call, the cache has none, the managers'
maps are sharded concurrent maps.

What is hard here: check-then-act on those maps (start_run, get_or_create_channel);
a lock that `delete` forgets while others hold it; handlers that go on with the
file system after the lock is released; tasks that act on a slug rather than
on the child they were started for; a client that leaves in the middle of an
await, which drops the handler there; a crash between two writes; a cache whose
key covers only part of the inputs; a generation that finds the files of another
graph, of half a generation or of a user; templates that name each other's
functions without a compiler in between; tasks of the generated program that
panic with something in hand; callbacks of the page that keep the values of an
older render. PROJECT.json lists each as a hazard at its line, with the
properties that would catch it.

## 2. Modules

Every module is of one slug: calls on two slugs share nothing but the maps.
Every call is cut at its awaits and at its accesses to a shared map; what lies
between two cuts is one action. `Kinds` names the requests the clients send in
a run, `Faults` what may happen beyond the ordinary (`"overlap"`: requests
overlap; `"crash"`: the server dies and starts again; and so on, in each
module's ASSUME). `Calls`, `Runs`, `Stops`, `Writes`, `Clients` are requests,
each of which is served once; they bound everything that could grow.

**RunManager** (`run/mod.rs` 120-366). `processes`, the map's entry for the
slug; `guard`, the shard lock that `send_stdin` holds across its write; for each
run its process, pipes and stdin; where each `start_run`, cleanup task,
`stop_run` with its reaper, and `send_stdin` is; the Exit events sent for each
child. `StartCheck ... StartReturn` are the steps of `start_run`; `CleanupTake`
and `CleanupExit` the cleanup task, which removes *by slug*; `StopCall ...
StopReap` stop and reaper, `StopCancel` and `WriteCancel` the handler dropped
with its connection; `ProcDies`, `PipesClose`, `ProcReads` the child.

**ProjectStore** (`projects/store.rs`). The directory (`dir`, `project`, `legacy`, `folder`,
`graph`, `market`), the `locks` map's mutex for the slug, and for each call the mutex it was
given and what it has read. A mutex has the name of the call that registered it, so that two
mutexes for one slug, which a delete makes possible, are two names. `SlugLength` is the number
of characters of the slug: `NextSuffix` is the loop of an import whose slug is taken, which
leaves for another project's slug or, when no suffix fits, goes round for ever. `seen` only
observes: it is the deletes that had ended when a call asked for its mutex. A document is its
tree; a graph is the call that wrote it. A write fails when its directory is gone.
`RemoveEntry`/`RemoveDir` are `remove_dir_all`, entry by entry.

**AtomicTree** is what the store promises of `mutate_project`: each
acknowledged update was applied once, whole, to the tree of that moment, and
nothing else changes it. `ProjectStore!Updates` is the refinement mapping.

**PackageTree** (`projects/handlers.rs` 600-880, `projects/types.rs`
`validate_package_tree`, `projects/store.rs` 1955-2130). Builds on AtomicTree:
`mutate_project` is one step. `faults` is chosen at the start from `FaultSets`,
so that one run has both the ordinary requests one after the other and all that
can overlap, nest and crash. The handlers' file-system work after it
(`ProbeFrom`, `ProbeTo`, `Move`, `Rollback`, `CleanFolder`) is cut as it runs,
without the lock. `packages` is the sequence in project.json, as the handlers take
the first package of a slug; `Valid` is the validator.

**CodegenCache** (`codegen/cache.rs`, `projects/handlers.rs` 130-150, 230-260,
490-540). A generated file is the tuple of inputs it is made from, so "fresh" can
be stated: the files are those of the project as saved. The hash is of the
graphs, and is taken to be injective. Two variables only observe what happened since the
entry was made: `upset`, that something outside the cache's sight did (a change of the tree
or of the marketplace list, a generation beside the cache), and `left`, the files that
failed builds of other graphs have written.

**BuildManager** (`build/mod.rs` 97-410). `channels`, `running`, the tasks of each
build, the log of each channel and the position of each client in it; `Cap` is
tokio's channel bound, beyond which a receiver gets Lagged.

**Templates**, and **CoreTemplates**, **ConnectorTemplates**, **StreamTemplates**,
**LanguageTemplates**, **TokioTemplates**, **PluginTemplates** (`templates/builtins/*`). One
record a node type: its ports, which names and configs it accepts, the directory,
prefix and stem of its file, the function that the file exports, the calls it
makes to the nodes it is wired to, the crates it needs. The text of the emitted Rust
is left out. Names are three representatives (`job`, `MyJob`, `type`) that
snake-casing, lower-casing and the keyword check tell apart; a config is one of a
template's `variants` (`plain`, `bad` for one that the template refuses, ...).

**Catalogue** (`templates/mod.rs`, `projects/validation.rs`): the registry and
`validate_graph`. `Savable` is what PUT graph accepts. A node of a graph holds
its template's record where the code looks the id up in the registry; the two are
the same since ids are unique, which the code asserts when it registers them and
`RegistryAssumption` says here.

**Regions** (`codegen/regions.rs`): `ParseRegions` and `Merge`, line by line. A body without a
line gets a blank one (`Filled`), as 165-167 and 213-215 do; blank lines outside regions are
left out. **Lists** has `Those`, what `filter` and `retain` keep of a list, for Regions and
StreamRuntime: a recursive function, since the provers know nothing of `SelectSeq`.

**Dataflow** (`codegen/dataflow.rs`): what is reachable from the root of a task, and
how each value is passed.

**Generator** (`codegen/mod.rs` and the files it writes with). Builds on the five
above. A generation is `Steps`, its writes in their order, folded over the files by
`Write`; it stops at the first error, panic or endless walk, and `Crash` stops
it anywhere. A file is what it exports or, where markers are in it, its
lines. `AddNode ... Disconnect` are PUT graph, `ChangePackages` the package
requests, `ChangeMarket` those of the marketplace, whose packages bring dependencies to
Cargo.toml (`OfferCrates`), `HandEdit` the user in lib.rs. Only the graph of the root package is
generated, as in the code. `SortedSlugs` is the order in which the code visits packages
(`PackagesAssumption`), `Given` the two modules that the scaffold brings.

**StreamRuntime** (`templates/builtins/stream.rs`, `supervise` of
`codegen/bootstrap.rs`). The generated program: an operator is a task that
receives, holds and sends; its channels are statics and survive it. `Process` is the
body of each loop. `ReceivePanics`, `SendPanics` and `RunnerPanics` are panics at the
places where user expressions and services run; `Restart` is the supervisor
after its backoff. `now` counts seconds, and a join, a window or a pattern reads it
where the emitted loop does: a join at its head, before it waits. `taken` is
history. **StreamAlone** names what holds of one operator that runs alone, for the proofs.

**CollabSession** (`ProjectCanvas.tsx`, `projects/collab.rs`). The pages of one project and the
room at the server. A page has its canvas, the timer of its autosave, the package it shows and
the one its callbacks save to, and its requests; the server has a task a socket, which takes one
message after the other and sends a broadcast to one queue after the other, with the room held
for reading. A page can switch packages and move its cursor once it has loaded; its timer
outlives it, since nothing clears it when the canvas goes. `accepted`, `told`, `heard`,
`earlier` (how much each peer had sent when a page joined) and `crossed` are history. A
`node_drag` goes the way of a cursor; what it does to a page is left out.

**MC&lt;module&gt;** adds symmetry sets and the instances, **&lt;module&gt;Proofs** the theorems.

A definition `D_Fault` just before `D` is `D` as a plausible bug would have it
(a dropped guard, a get for a remove, a missing wait). No action uses it: it is
there to show that the named property notices the difference, PROJECT.json
`mutants` has the pairs.

## 3. Runs

| run | question | bounds |
|---|---|---|
| `run_manager` | can Exit be sent twice, or for a living child; can an entry be left without a cleanup task, a child without an owner; is a dead child's slug freed, does a stop end in Exit | 2 runs, 2 stops, 2 stdin writes, pipe of 1, all faults, fairness |
| `run_race_two_active` | *violation*: `run/mod.rs` 10, "At most one run per project" | 2 overlapping starts, 1 stop |
| `store_updates` | exclusion of writers, lost updates, the legacy graph | 3 calls of 6 kinds, 2 child packages, crashes |
| `store_lifecycle` | the same directory through deletes, creations, imports and crashes: when can two writers be inside together, which calls never end | 3 calls of 4 kinds, a slug of 39 characters, crashes, fairness |
| `tree` | is the tree valid whatever overlaps, fails or crashes; does a package keep its graph through renames and deletes | 3 slugs; 4 ordinary requests one after the other, 3 with all faults |
| `cache_serial` | does a build compile what was saved, through failures, deletes, crashes and overlapping builds | 5 calls, 2 values of each input |
| `build_serial` | order of events, freeing of the slug, delivery of Exit | 2 builds, 1 client, 1 line a stream, channel of 4, fairness |
| `generator` | are the files those of the saved graph, and do they fit together; is the user's text kept | every node alone, every pair that an edge can join, sessions of 3 edits (graph, packages, marketplace) with 1 hand edit and a crash |
| `generator_routes` | *violation*: `codegen/bootstrap.rs` 473, the routes region "is the splice point" | sessions of 3 edits on a route and a handler |
| `stream_runtime` | what comes out of each operator and of chains of them, through panics | 11 programs, channels of 2, 4 events, 2 panics, 3 seconds, backoff up to 2, fairness |
| `collab` | order, delivery and acceptance of graphs among pages, presence | 2 pages, 2 packages, 1 edit, 1 other move, refused saves, lost connections |
| `collab_packages` | *violation*: `roadmap.md` 24, "Each package owns a graph fragment" | as `collab` |

Why these bounds are enough to meet the interesting cases. *Run manager*: an Exit is sent twice
only if two tasks get one child, which takes a child, its cleanup and a stop; with a second run
and a second stop a cleanup task takes another run's child while that run is being stopped; a
pipe of 1 is full after one write, so the second blocks with the map locked. *Store*: a
violation of exclusion or an update lost takes two writers, a third call gives the loader or the
deleter between them; a slug of 39 characters is one that no suffix fits. *Tree*: a slug
conflict takes two packages, an overlapping rename and delete a third call; three slugs are the
root's, and two that can be swapped. *Cache*: save, build, change, change back, build is five.
*Build*: one line a stream is enough for a line to come after Exit if it could; a build sends at
most 4 events, so a channel of 4 makes a client lag in the second build and not in the first.
*Generator*: templates meet in pairs, so all pairs meet all; what an earlier generation leaves
takes an edit, a generation, and another edit; the palette has a framework, a route, a
middleware, a task, and a node that the generator refuses half-way. *Streams*: a count window of
2 closes twice in 4 events; a channel of 2 is full while its operator waits; two panics reach a
second, longer backoff; a window of one second is left within three. *Collaboration*: a graph
out of order takes two that were told, by edit and by saving once more; two pages make every
message cross another; one edit on the second package is enough to be saved to the first.

CHECK_DEADLOCK is FALSE everywhere: requests are finite in number, and when all
were served the server rests.

The type invariants are proved (section 4) and in no run, where the other
properties relate all that the modules hold; Generator alone has none.

### Fairness

Weak fairness, and only on what the runtime or the operating system does by
itself: tokio runs every task that is ready, its mutex is fair (so a waiter is
served; in the model a bounded number of others can pass it), SIGKILL ends a process.
An import that loops for ever keeps one of the runtime's workers: fairness to the other
calls assumes that one is left.
None on requests, on clients leaving, on a child that exits or reads its stdin,
on cargo. In the generated program (StreamRuntime) fairness is that of its own tokio
runtime, of the clock and of services that return; nothing has to be emitted or to
panic. `DeadEntryIsRemoved` and `SlugIsFreed` are therefore conditional on
the pipes having closed, and cargo having ended; `StopPublishesExit` starts when
the signal was sent, since before that the call can wait for the map's shard as
long as `send_stdin` waits for a child that does not read. CollabSession and Generator
state no fairness: `NoneIsStuck` is an invariant, that some step is possible while
anything is on its way, and says nothing of when it is taken.

### What the violations show

* `run_race_two_active`: `start_run` looks with `contains_key` (138) and stores with
  `insert` after the spawn. Two overlapping starts both pass; the second insert
  drops the first Child without killing it, and it can no longer be stopped.
* `generator_routes`: a graph without a wired route passes no region `routes` to `merge`,
  which drops the empty one of the scaffold. When a route is drawn later, the region
  comes to the end of lib.rs, outside `router()`, and the program does not
  compile. `RoutesStayMounted` says that the routes stay where they are once they are there.
* `collab_packages`: the autosave's callback is made for the package that was selected
  when the canvas mounted, the root. An edit of another package, left to the
  autosave, replaces the root's graph.

## 4. Proofs

Checked by TLAPS for every value of the constants that the modules' ASSUMEs allow.

**RunManagerProofs**: `TypeOK`, `ExitAtMostOnce`, `ExitMeansDead`,
`EntryIsWatched` and `ChildIsKept`, for any number of runs, stops, writes and
any pipe, under all faults. The reason is that a child has at most one *owner*: the
map, one cleanup task or one stop (`MapOwns`, `CleanupOwns`, `StopOwns`, each of
which excludes the others), and Exit is sent by the owner as it gives the
child up (`ExitSettled`). `GuardHeld` and `CleanupSpawned` say that the shard lock
keeps the entry in place while a write uses it, and that a cleanup task exists
only for a run that returned. None of the properties is inductive alone: that
the next Exit is not the second needs that nobody else holds the child.

**ProjectStoreProofs**: `TypeOK`, with no assumption. The step cannot be proved
of `TypeOK` alone: which kind of call can be at which step (`OnPath`) and that a
call about to write has read a document (`DocInHand`) go with it. `OneWriter`, *if
nobody deletes the project*: then every call holds the one registered mutex
(`OwnLock`, `SameLock`). `AtomicUpdates`, the refinement of AtomicTree, *if
nobody deletes or creates it*: what a call in its section has read is still on
disk (`DocCurrent`). Both assumptions are needed: a save that waits on a mutex which a
delete has forgotten (section 5) breaks exclusion, and a delete plainly changes the tree.
What a delete can do is said by `OneWriterBetweenDeletes`, with no assumption: two calls inside
together asked for their mutex on two sides of the end of a delete. A mutex admits one call
(`OnePerMutex`), and calls that asked between the same deletes were given the same one, which
is the one in the table until the next delete ends (`SameTable`).
`LegacyNeverReturns`, *if nobody deletes*, and the lock is no part of its reason: as long as
the legacy file is there, who is about to move it is right that there is no graph in its place
(`MigratorSawNone`), since who is about to write one has a graph to replace already, or
made the directory (`MigratedFirst`); so what was saved stands (`SavedStands`),
through crashes between any two steps.

**PackageTreeProofs**: `TreeAlwaysValid`, for any number of requests, slugs and packages,
under all faults. `Valid` is restated without a walk: ids differ, siblings' slugs
differ, parents exist, and a set that holds the root and is closed downwards
holds every package (`IsRoot`); a create, a rename and a delete each keep that form, the
delete because what it leaves out is closed downwards itself. `TreeInv` adds that a
call's step is one of its handler (`StepFits`) and that the id of a call which has
yet to create is not taken (`Fresh`). `GraphFollowsPackage` and
`NoStrayFolder` are of serial requests only, as the properties are: `SerialInv` says what
is where at each step of the one call under way - during a rename the graph is still in
the old slug's folder (`Moving`), during a delete some folders are left
(`Cleaning`), else every graph is in its package's folder (`InPlace`) - and that the
requests nest nothing (`Flat`, `Polite`), without which cousins share a folder
(section 5). `Without` is written as a recursive function rather than with `SelectSeq`,
which the provers know nothing of. What it leaves is proved by an induction whose
set of numbers is an argument (`NatBySets`, from the library's well-founded
induction): such lemmas need no operator as a parameter.

**CodegenCacheProofs**: `TypeOK`, with no assumption; `GenerationIsFresh` and
`SkipIsFresh`, *if only builds overlap* (`"overlap" \notin Faults`), with failures,
crashes, deletes and re-creations of the slug. `CacheInv` says that what a call in
flight has read is what is saved (`LoadedIsSaved`), that the files written so
far by the calls in flight are fresh (`Progress`), that under an entry not upset all
files are those of its graphs, but for what a failed build of other graphs has left (`left`) or
a build under way is writing (`EntryTrue`), and that there is no entry for a project
that is gone (`EntryForgotten`). A failure keeps the old hash (`HashAfterFailure`), so the exception
is real: section 5 has the trace. With overlapping saves a generation
reads two moments of the project; the module has that behaviour under
`"overlap"`.

**BuildManagerProofs**: `TypeOK` and `StartFirstExitLast`, with no assumption: a
build sends on its own channel from `Announce` on (`Announced`), and its exit task
sends Exit when its readers have ended (`ExitIsLast`). `BuildsDoNotMix`, *if
no two requests overlap*: then one call is under way between its look at `running` and
its end (`Serial`), and the build at work is the one that sent the last event
of its channel (`SpeaksLast`).

**GeneratorProofs**, all for every graph over the catalogue, every set of packages, every
session of edits, imports, failures, crashes and edits by hand. `SavedValuesMove`: no value of
a graph that was ever saved is shared or borrowed. A task that reaches the producer of a
value reaches its consumers too, so producer and consumer have a task in common or
none (`NothingIsShared`, of any graph); and every output of the catalogue is `Single` (one lemma
a template module), which `validate_graph` turns into one use a value. The inductive part
is `GraphInv`: what was saved is savable, and has finitely many edges. So the modes
`ArcShared`, `ArcRwLockShared` and `Borrow` of `dataflow.rs` are dead code for saved graphs,
which is not what the documentation says (section 5).
`SavedGraphsEnd`: a middleware of a graph that validates has one way in, so a walk from a
route meets none twice, and by the pigeonhole principle is no longer than the list of nodes.

`UserTextKept` rests on `TextInv`: between the two markers of a region there is no line of
the user (`Clean`). A merge of a clean file that parses gives a clean file with the
user's lines as they were, in their order, by induction along the two walks of `regions.rs`;
every write is such a merge or a file of its own, and a generation is a run of writes
wherever it stops. When the user deletes a marker, the body that is left without its
region is the user's from then on.

`OutputIsCurrent`, `DeclarationsResolve` and `RegenerationIsIdle` have one invariant,
`SettledInv`: what a generation that ended well left is `Settled`. Each write left its file as
it makes it from the graph, and no later write of the run touched it; a text that was merged
`Fits` its regions, so that merging it again is the identity. That needs the parts of a
generation in order (`InParts`), that they write different files, and of two nodes with one file
the later one (`WithNodes`). The declarations of a package's file have an exception that the
code has too: the merge keeps what an earlier generation declared there, whether or not that
generation got to write the child. What is current includes Cargo.toml, with the dependencies of
what is installed and of nothing else, and the routes. `RegenerationIsIdle` has one exception:
the file of a package without children that was just started (`Stub`) gets its blank line
(`Spaced`).

`RoutesStayMounted`: a merge only ever adds to what is out (`StartsAs`), and the user's lines
and the begin of a region that is still generated are among what it adds (`Stays`), so the
function that holds the region holds it afterwards (`Around`); and nothing after the merge of
lib.rs writes that file (`GenerationLeaves`).

`TemplatesAgree`: each call that some template of the catalogue can make is one of a few
(`Answered`, one lemma a template module), and each of these finds its function in the one
registered template that has the called id (`ByItsId`, from `RegistryAssumption`), whatever its
node is called and configured as (`CallIsAnswered`); that node's file is as it exports it
(`OutputIsCurrent`, `OwnFile`). The call of a gRPC server to a `language.fn`, which would pass
an argument too many, is dead code: such a node has no port, so no valid graph has the edge.
`VariantsAssumption` says that a config is one of those that `variants` tells apart.

**StreamRuntimeProofs**, whatever the classes, the number of events, of panics and of restarts,
the capacity and the backoff (`StreamAssumption`).

*Filters, maps and unions*, any number of them, wired in any way, in circles too. `InOrderOnce`: the
invariant (`GoodInv`) says that there is a map `w` from each event sent to the place where it
is - a channel, a task, a task of its own, out, or gone - that agrees with every channel, every
task and the output (`Placed`), so that nothing is there twice; and, where no operator works in
parallel, that of two events that went in by one channel the earlier one is never further
back on the way to the end (`Along`), which puts it before the other in each queue (`Queued`,
`QueuedOut`). `w` is a witness and not part of the state: each step moves one event in
it. The order needs "where that way leads to the end": in a circle an event can overtake
another, but none comes out. `LossBounded` for these programs: an event is lost when its message
is nowhere and no filter dropped it (`LostSingles`); every step keeps each message `Somewhere`
except a panic, which loses at most one.

*One operator alone*, between those who emit and the service at its end (`Lone`). What it has
received is then a known part of what was sent, and its invariant is stated on that part. A
*window* (`WindowInv`): it holds the last events received, without a gap, it has sent stretches
of those before, and what it is about to send comes next (`Going`), which gives `WindowsAdvance`
for all four kinds, with the exact sizes of those that count: a sliding window has its size when
no earlier one reaches into it, and one event more otherwise; none does while the buffer fills,
and once it is full the last one sent ends with what was received last (`Exact`, `Tight`,
`Tidy`); with `Slid`, that a full sliding window has sent what it holds, `LossBounded` for those
that count (`LossInv`). A *pattern* (`PatternInv`): what it holds is the last A received, unless
that was used or forgotten (`HoldsA`, `LastA`); what it has sent are matches, one after the
other (`MatchesOut`), in time (`PairsInTime`), and every A whose next is a B in time is among
them (`AllMatched`): `PatternIsExact`. A *join* (`JoinInv`): it has two channels, so what it
received is what waits in neither (`Used`, `Awaits`); no message is twice in its buffer
(`Stock`); what it received in this life is there or was too old at the head of the loop
(`History`), and the clock has not gone back since, so what the pruning took could no longer be
paired in time; no pair is sent twice (`Couples`) and every pair in time is sent (`Complete`):
`JoinIsComplete`.

These theorems have a hypothesis each, that the operator is alone (`LoneWindow`, `LoneCounting`,
`LonePattern`, `LoneJoin`). Behind another operator, numbers have gaps (a filter, a panic) and
messages are not single events (a window), and such programs would need properties of their own.
A window that counts needs a size other than 0. Every program of one window, join or pattern
that the run checks satisfies them.

**CollabSessionProofs**, all four for any number of pages, packages, edits and moves,
lost connections and refused saves. `TypeInv` has `BroadcastWasAccepted` in it: a request
that was answered well, and every message with a graph, has one that a PUT saved
(`Requests`, `Fitting`). `RoomInv` says how a page, its queue and its task at the
server fit together: it joins first and once (`Seat`), hears nothing before or after it is in
the room (`Inbox`), and a broadcast has yet to reach only members, each once (`Round`).
`OrderInv`, for `EditsInOrder` and `EditsReachPeers` (that what a page in the room lacks was sent
before it joined): for each sender there is a
number k of graphs that its task took. The rest of what it told is in its queue, in order
(`Outgoing`); what a peer has received is a stretch of it, what is on its way to that peer
continues the stretch, and ends at k, or just before it while the task has yet to reach the peer
(`Incoming`). Queues are counted along by a witness (`Sent`), so no filtering
of sequences is needed. `PresenceInv`, for `SettledPresence`: what a page will show when it
has received all that is on its way (`Shows`, `Upto`) are those in the room, if it is
`Current`: no list is `Due` to it, and no two lists were ever under way at once (`crossed`);
if so, the one list under way is of the room as it is (`ListsFit`).

Only model-checked: all liveness (`EveryCallEnds`, `DeadEntryIsRemoved`,
`StopPublishesExit`, `SlugIsFreed`, `ExitIsSeen`, `Drained`) and `NoneIsStuck`, whose
ENABLED is beyond this prover like fairness. Every other property of a passing run is stated
by a theorem.

## 5. Not modelled, and why

* Run: the metrics daemon (it only reads), output lines, other slugs.
* Store: export and list (they change nothing), the contents of seeds and
  archives.
* Tree: names, descriptions and listing. `GraphFollowsPackage` and `NoStrayFolder` are asked of
  ordinary requests one after the other, in which no move fails: the rollback of a rename
  (`handlers.rs` 756) is in the model, and only `TreeAlwaysValid` is asked of it.
* Cache: the text of files; see the comment at its head.
* Generator: the text of function bodies and of the documentation files, rustfmt; two
  generations of one project at once (CodegenCache has that); the graphs of
  other packages, which the code does not generate either.
* Templates: identifiers letter by letter, the text of expressions.
* Streams: values of aggregates and predicates; event times in messages; feedback among
  operators (see below); the debug bridge's breakpoints and step mode.
* Collaboration: a page that fails to load, two tabs with one sessionStorage id, what
  happens on screen during a drag, the AI proposals.
* The components that PROJECT.json calls `not_modelled`: stateless (audit, database,
  LLM), or wiring (start-up, scripts).

Disagreements met while modelling that have no violation run of their own; where a
property of a passing run comes upon one, it names it as its exception:

* Run: a cleanup task removes by slug (`run/mod.rs` 272): after a stop and a new start, that of
  the stopped run can take the new run's child, which then can no longer be stopped. `stop_run`
  waits behind `send_stdin` when the child's stdin is full (334).
* Store: `delete` removes the slug's mutex (`projects/store.rs` 1858) without holding it, and a
  save that waits on the old one and one that asks afterwards write at the same time, though 13
  says they "must not interleave". `save_graph` probes before it locks and recreates what a
  delete removed (2085, 2104), and can write a deleted project's document into a new one (2111).
  Two imports can get one directory (2219, 2257). An import of a taken slug of 39 or 40
  characters never ends, since every suffix makes it too long (2252-2272), though 2218 says that
  it "resolves slug collisions"; `EveryCallEnds` names it (`LooksForEver`).
* Tree: folders are named by the slug alone (1965) and slugs are unique among siblings only
  (45): cousins of one slug share a folder. `delete_package` removes folders after the lock
  (`handlers.rs` 869). `main` can be renamed, `save_graph` still writes `packages/main` (2103).
  Of two overlapping installs one is lost (`handlers.rs` 457).
* Cache: the hash does not cover the marketplace list (`codegen/cache.rs` 138), so that after an
  install a build has the old dependencies, though 10 calls the cache "purely an optimisation".
  `regen_project` generates beside it (`handlers.rs` 246). A failed build leaves its files under
  the old hash: build one graph, save another, let its build fail half-way, save the first
  again, and the next build is skipped over the files of the second, though 20 says "never a
  stale build" and 67 that "the next click retries". `SkipIsFresh` names those files (`left`).
* Build: `get_or_create_channel` can open two channels for two first subscribers (`build/mod.rs`
  128); two overlapping starts can build twice (153, 170); a lagging client's stream ends
  without a word (389).
* Generator: switching the framework after the first generation leaves lib.rs without the
  function that main.rs calls; the first regeneration of the mod.rs of a package without
  children adds a blank line (`codegen/regions.rs` 165), though `codegen/mod.rs` 27 says
  "byte-identical output"; two nodes of one file give two `pub mod` of one name; errors.rs is
  overwritten, though the generated guide calls it the user's; an imported graph is not
  validated, and a circle of middlewares makes the walk over its routes endless; a handler
  without a route names a crate that Cargo.toml lacks.
* Dataflow: `features.md` 61-67 says that a value across tasks gets an `Arc`, or a lock when it
  is mutated, and that one of several uses is borrowed, all "Implemented & Wired". No saved
  graph has such a value (`SavedValuesMove`): a consumer is in every task of its producer, and
  an output takes one edge. The tests (`codegen/dataflow.rs` 288, 320) wire one output twice,
  which only an import can bring.
* Templates: names with humps are called as written but filed in snake case, and lower-cased by
  some callers; a service without code takes no argument though consumers and streams pass one;
  a `wasm` path gives an illegal module name; a keyword is accepted as a name by some templates.
* Streams: `features.md` 220 promises "zero" lost events; a panic loses the one in hand, its
  pending outputs and the window (`LossBounded` bounds it). A join prunes with the time of its
  loop's head and emits pairs older than its window (`stream.rs` 742); a sliding count window,
  but for the first of each life of its task, has one event more than its count, though
  `ROADMAP_CEP.md` 107 has it of fixed size and the template's own text (`stream.rs` 815) calls
  that count the threshold (`WindowsAdvance` has `size + 1`); a tumbling time window fires every
  second whatever its size; a backoff never falls again; a circle of operators can fill up and
  wait for itself, and `validate_graph` accepts circles.
* Collaboration: two lists of users can arrive in either order (`collab.rs` 157); a graph is
  saved again when it is told, over a newer one; a save by hand during the first load puts an
  empty graph; accepting a proposal saves without telling the peers.

## 6. What is left

Every part with state of its own is modelled. What would add to it: the debug bridge's
breakpoints and step mode beside StreamRuntime, and the metrics daemon; a larger instance
of CollabSession with three pages, whose states TLC does not finish in minutes (its safety
is proved for any number). To prove: windows, patterns and joins among other operators, once
their properties are stated for events that arrive with gaps.

## 7. Running it

    tlc -workers 2 -config RunManager.cfg MCRunManager.tla
    tlapm RunManagerProofs.tla

PROJECT.json `runs` pairs each configuration with its module. `generator` and
`run_manager` take about two minutes each, so does `stream_runtime`; `collab` about one.
