--------------------------- MODULE TokioTemplates ---------------------------
(* The runtime primitives of backend/src/templates/builtins/tokio.rs: helper *)
(* functions in src/runtime/, without ports, so nothing on the canvas calls  *)
(* them. The name is the file's, kept as it is: the check lets only snake    *)
(* case through. "bad" is a part that the check refuses.                     *)
EXTENDS Templates

Helper(id, fn) ==
    [Template EXCEPT !.id = id, !.bridge = "PassThrough", !.dir = "runtime", !.stem = "raw",
        !.accepts = SnakeNames, !.variants = {"plain", "bad"}, !.fn = fn]

TokioMpsc == Helper("tokio.mpsc", "make")                   \* bad: buffer 0, not a type
TokioBroadcast == Helper("tokio.broadcast", "make")         \* bad: capacity 0, not a type
TokioMutex == Helper("tokio.mutex", "make")                 \* bad: not a type, not a value
TokioRwLock == Helper("tokio.rwlock", "make")               \* bad: not a type, not a value
TokioInterval == Helper("tokio.interval", "make")           \* bad: period 0
TokioSemaphore == Helper("tokio.semaphore", "make")         \* bad: no permits
TokioSpawn == Helper("tokio.spawn", "spawn")                \* bad: body, parameter
TokioSpawnBlocking == Helper("tokio.spawn_blocking", "spawn_blocking")
TokioSelect == Helper("tokio.select", "select")             \* bad: no branches
TokioJoin == Helper("tokio.join", "join")                   \* bad: no futures
TokioSleep == [Helper("tokio.sleep", "sleep") EXCEPT !.variants = {"plain"}]
TokioNotify == [Helper("tokio.notify", "make") EXCEPT !.variants = {"plain"}]

TokioCatalogue ==
    {TokioMpsc, TokioBroadcast, TokioMutex, TokioRwLock, TokioInterval, TokioSemaphore,
     TokioSpawn, TokioSpawnBlocking, TokioSelect, TokioJoin, TokioSleep, TokioNotify}
=============================================================================
