------------------------------ MODULE RunManager ------------------------------
(***************************************************************************)
(* The life of the processes RunManager (backend/src/run/mod.rs) starts    *)
(* for one project slug: start_run, the cleanup task it spawns, stop_run,  *)
(* the reaper it spawns, and send_stdin.                                   *)
(*                                                                         *)
(* Entries of the `processes` map for other slugs never meet, so the model *)
(* is of one slug.  Every call runs on a thread of its own (the server is  *)
(* a multi-threaded tokio runtime) and is cut at each access to the map    *)
(* and at each await; what lies between two cuts is one action.            *)
(*                                                                         *)
(* A call to start_run and the child it spawns carry the same name, an     *)
(* element of Runs.  The output the child prints, its exit code and the    *)
(* metrics daemon are left out.                                            *)
(***************************************************************************)
EXTENDS Naturals, FiniteSets

CONSTANTS
  Runs,      \* calls to start_run, each with the child it may spawn
  Stops,     \* calls to stop_run
  Writes,    \* calls to send_stdin
  StdinCap,  \* commands the child's stdin pipe holds before a write blocks
  Faults,    \* what the environment may do beyond the ordinary
  None       \* no child, no call

ASSUME CallAssumption ==
  /\ None \notin Runs \cup Stops \cup Writes
  /\ StdinCap \in Nat
  /\ Faults \subseteq {"overlap",      \* requests may overlap
                       "disconnect",   \* a client may leave before its answer
                       "early_close",  \* a living child closes stdout and stderr
                       "kill_fails"}   \* SIGKILL cannot be sent

VARIABLES
  processes,     \* the map's entry for the slug: the Child stored there, or None
  guard,         \* the send_stdin call that holds the entry's lock, or None
  start,         \* where each start_run call is
  proc,          \* the operating system's view of each child
  pipes,         \* is the child's stdout or stderr still open for writing
  killed,        \* has the child been sent SIGKILL
  stdin,         \* commands written to the child and not yet read
  cleanup,       \* where the cleanup task of each run is
  cleanupChild,  \* the Child the cleanup task took out of the map
  stop,          \* where each stop_run call, and then its reaper, is
  stopChild,     \* the Child that call took out of the map
  write,         \* where each send_stdin call is
  exits          \* Exit events published for each child

vars == <<processes, guard, start, proc, pipes, killed, stdin, cleanup,
          cleanupChild, stop, stopChild, write, exits>>

StartStates   == {"idle", "checked", "spawned", "inserted", "returned",
                  "refused", "failed"}
ProcStates    == {"unborn", "alive", "dead"}
CleanupStates == {"none", "draining", "waiting", "done"}
StopStates    == {"idle", "called", "taken", "killing", "reaping", "done",
                  "refused", "cancelled"}
WriteStates   == {"idle", "writing", "done", "failed"}

TypeOK ==
  /\ processes \in Runs \cup {None}
  /\ guard \in Writes \cup {None}
  /\ start \in [Runs -> StartStates]
  /\ proc \in [Runs -> ProcStates]
  /\ pipes \in [Runs -> BOOLEAN]
  /\ killed \in [Runs -> BOOLEAN]
  /\ stdin \in [Runs -> 0..StdinCap]
  /\ cleanup \in [Runs -> CleanupStates]
  /\ cleanupChild \in [Runs -> Runs \cup {None}]
  /\ stop \in [Stops -> StopStates]
  /\ stopChild \in [Stops -> Runs \cup {None}]
  /\ write \in [Writes -> WriteStates]
  /\ exits \in [Runs -> Nat]

Init ==
  /\ processes = None
  /\ guard = None
  /\ start = [r \in Runs |-> "idle"]
  /\ proc = [r \in Runs |-> "unborn"]
  /\ pipes = [r \in Runs |-> FALSE]
  /\ killed = [r \in Runs |-> FALSE]
  /\ stdin = [r \in Runs |-> 0]
  /\ cleanup = [r \in Runs |-> "none"]
  /\ cleanupChild = [r \in Runs |-> None]
  /\ stop = [s \in Stops |-> "idle"]
  /\ stopChild = [s \in Stops |-> None]
  /\ write = [w \in Writes |-> "idle"]
  /\ exits = [r \in Runs |-> 0]

-----------------------------------------------------------------------------
(* Publishing Exit for child c.  The event itself names no child.          *)
Publish(c) == exits' = [exits EXCEPT ![c] = @ + 1]

(* What the map holds after a remove(slug).  Mutant: a get, not a remove.  *)
RemovedEntry_Kept == processes
RemovedEntry == None

(* Every access to the map waits for the lock of the slug's shard, which a *)
(* send_stdin call holds while it writes.                                  *)
ShardFree == guard = None

-----------------------------------------------------------------------------
(* Without "overlap" the client waits for each answer before it sends its  *)
(* next request.                                                           *)
StartInFlight == {r \in Runs : start[r] \in {"checked", "spawned", "inserted"}}
StopInFlight  == {s \in Stops : stop[s] \in {"called", "taken", "killing"}}
MayCall == "overlap" \in Faults \/ (StartInFlight \cup StopInFlight = {} /\ guard = None)

-----------------------------------------------------------------------------
(* start_run                                                               *)

(* contains_key: the call is refused while the slug has an entry. *)
StartCheck(r) ==
  /\ start[r] = "idle"
  /\ MayCall
  /\ ShardFree
  /\ start' = [start EXCEPT ![r] = IF processes = None THEN "checked"
                                                       ELSE "refused"]
  /\ UNCHANGED <<processes, guard, proc, pipes, killed, stdin, cleanup,
                 cleanupChild, stop, stopChild, write, exits>>

(* Command::spawn: on an error start_run returns Io and leaves no trace. *)
StartSpawn(r) ==
  /\ start[r] = "checked"
  /\ \/ /\ start' = [start EXCEPT ![r] = "spawned"]
        /\ proc' = [proc EXCEPT ![r] = "alive"]
        /\ pipes' = [pipes EXCEPT ![r] = TRUE]
     \/ /\ start' = [start EXCEPT ![r] = "failed"]
        /\ UNCHANGED <<proc, pipes>>
  /\ UNCHANGED <<processes, guard, killed, stdin, cleanup, cleanupChild,
                 stop, stopChild, write, exits>>

(* processes.insert: an entry already there is overwritten and its Child   *)
(* dropped, which does not kill the process.                               *)
StartInsert(r) ==
  /\ start[r] = "spawned"
  /\ ShardFree
  /\ start' = [start EXCEPT ![r] = "inserted"]
  /\ processes' = r
  /\ UNCHANGED <<guard, proc, pipes, killed, stdin, cleanup, cleanupChild,
                 stop, stopChild, write, exits>>

(* Send Start, spawn the readers and the cleanup task, return. *)
StartReturn(r) ==
  /\ start[r] = "inserted"
  /\ start' = [start EXCEPT ![r] = "returned"]
  /\ cleanup' = [cleanup EXCEPT ![r] = "draining"]
  /\ UNCHANGED <<processes, guard, proc, pipes, killed, stdin, cleanupChild,
                 stop, stopChild, write, exits>>

-----------------------------------------------------------------------------
(* The cleanup task of run r                                               *)

(* There is a child to wait for.  Mutant: the task cares for its own only. *)
ChildLeft_Own(r) == processes = r
ChildLeft(r) == processes # None

(* Both readers have seen the end of their pipes.  The entry is removed by *)
(* slug: it is whatever child the map holds by then.                       *)
CleanupTake(r) ==
  /\ cleanup[r] = "draining"
  /\ ~pipes[r]
  /\ ShardFree
  /\ cleanup' = [cleanup EXCEPT ![r] = IF ChildLeft(r) THEN "waiting"
                                                         ELSE "done"]
  /\ cleanupChild' = [cleanupChild EXCEPT ![r] = IF ChildLeft(r) THEN processes
                                                                 ELSE None]
  /\ processes' = RemovedEntry
  /\ UNCHANGED <<guard, start, proc, pipes, killed, stdin, stop, stopChild,
                 write, exits>>

(* wait() on child c returns.  Mutant: it does not wait. *)
ChildReaped_Early(c) == TRUE
ChildReaped(c) == proc[c] = "dead"

(* child.wait() returns and Exit is published. *)
CleanupExit(r) ==
  /\ cleanup[r] = "waiting"
  /\ ChildReaped(cleanupChild[r])
  /\ Publish(cleanupChild[r])
  /\ cleanup' = [cleanup EXCEPT ![r] = "done"]
  /\ cleanupChild' = [cleanupChild EXCEPT ![r] = None]
  /\ UNCHANGED <<processes, guard, start, proc, pipes, killed, stdin, stop,
                 stopChild, write>>

-----------------------------------------------------------------------------
(* stop_run                                                                *)

StopCall(s) ==
  /\ stop[s] = "idle"
  /\ MayCall
  /\ stop' = [stop EXCEPT ![s] = "called"]
  /\ UNCHANGED <<processes, guard, start, proc, pipes, killed, stdin, cleanup,
                 cleanupChild, stopChild, write, exits>>

(* processes.remove: NotRunning when the slug has no entry. *)
StopTake(s) ==
  /\ stop[s] = "called"
  /\ ShardFree
  /\ stop' = [stop EXCEPT ![s] = IF processes = None THEN "refused"
                                                     ELSE "taken"]
  /\ stopChild' = [stopChild EXCEPT ![s] = processes]
  /\ processes' = RemovedEntry
  /\ UNCHANGED <<guard, start, proc, pipes, killed, stdin, cleanup,
                 cleanupChild, write, exits>>

(* Send Stop and the signal, and begin to wait for the child; when the     *)
(* signal cannot be sent, kill() fails at once, the error is logged and    *)
(* the reaper is spawned all the same.                                     *)
StopSignal(s) ==
  /\ stop[s] = "taken"
  /\ \/ /\ killed' = [killed EXCEPT ![stopChild[s]] = TRUE]
        /\ stop' = [stop EXCEPT ![s] = "killing"]
     \/ /\ "kill_fails" \in Faults
        /\ stop' = [stop EXCEPT ![s] = "reaping"]
        /\ UNCHANGED killed
  /\ UNCHANGED <<processes, guard, start, proc, pipes, stdin, cleanup,
                 cleanupChild, stopChild, write, exits>>

(* kill().await has seen the child die: the reaper is spawned and the call *)
(* returns.  Mutant: no reaper is spawned.                                 *)
StopKilled_Unreaped(s) ==
  /\ stop[s] = "killing"
  /\ ChildReaped(stopChild[s])
  /\ stop' = [stop EXCEPT ![s] = "done"]
  /\ stopChild' = [stopChild EXCEPT ![s] = None]
  /\ UNCHANGED <<processes, guard, start, proc, pipes, killed, stdin, cleanup,
                 cleanupChild, write, exits>>

StopKilled(s) ==
  /\ stop[s] = "killing"
  /\ ChildReaped(stopChild[s])
  /\ stop' = [stop EXCEPT ![s] = "reaping"]
  /\ UNCHANGED <<processes, guard, start, proc, pipes, killed, stdin, cleanup,
                 cleanupChild, stopChild, write, exits>>

(* The client goes away while its request waits in kill().await: the       *)
(* server drops the handler, and the Child with it, before the reaper is   *)
(* spawned.                                                                *)
StopCancel(s) ==
  /\ stop[s] = "killing"
  /\ "disconnect" \in Faults
  /\ stop' = [stop EXCEPT ![s] = "cancelled"]
  /\ stopChild' = [stopChild EXCEPT ![s] = None]
  /\ UNCHANGED <<processes, guard, start, proc, pipes, killed, stdin, cleanup,
                 cleanupChild, write, exits>>

(* The reaper's wait() returns and Exit is published. *)
StopReap(s) ==
  /\ stop[s] = "reaping"
  /\ ChildReaped(stopChild[s])
  /\ Publish(stopChild[s])
  /\ stop' = [stop EXCEPT ![s] = "done"]
  /\ stopChild' = [stopChild EXCEPT ![s] = None]
  /\ UNCHANGED <<processes, guard, start, proc, pipes, killed, stdin, cleanup,
                 cleanupChild, write>>

-----------------------------------------------------------------------------
(* send_stdin                                                              *)

(* get_mut: NotRunning when the slug has no entry, else the entry's lock   *)
(* is held until the write is over.                                        *)
WriteBegin(w) ==
  /\ write[w] = "idle"
  /\ MayCall
  /\ ShardFree
  /\ IF processes = None
       THEN /\ write' = [write EXCEPT ![w] = "failed"]
            /\ UNCHANGED guard
       ELSE /\ write' = [write EXCEPT ![w] = "writing"]
            /\ guard' = w
  /\ UNCHANGED <<processes, start, proc, pipes, killed, stdin, cleanup,
                 cleanupChild, stop, stopChild, exits>>

(* The pipe takes one more command.  Mutant: it takes one too many. *)
PipeHasRoom(c) == stdin[c] < StdinCap

(* write_all and flush: the pipe takes the command, or its reader is dead  *)
(* and the write fails.  A full pipe of a living child makes it wait.      *)
WriteEnd(w) ==
  /\ write[w] = "writing"
  /\ \/ /\ proc[processes] = "dead"
        /\ write' = [write EXCEPT ![w] = "failed"]
        /\ UNCHANGED stdin
     \/ /\ proc[processes] = "alive"
        /\ PipeHasRoom(processes)
        /\ stdin' = [stdin EXCEPT ![processes] = @ + 1]
        /\ write' = [write EXCEPT ![w] = "done"]
  /\ guard' = None
  /\ UNCHANGED <<processes, start, proc, pipes, killed, cleanup, cleanupChild,
                 stop, stopChild, exits>>

(* The client goes away and the server drops the handler. *)
WriteCancel(w) ==
  /\ write[w] = "writing"
  /\ "disconnect" \in Faults
  /\ write' = [write EXCEPT ![w] = "failed"]
  /\ guard' = None
  /\ UNCHANGED <<processes, start, proc, pipes, killed, stdin, cleanup,
                 cleanupChild, stop, stopChild, exits>>

-----------------------------------------------------------------------------
(* The child process                                                       *)

ProcDies(c) ==
  /\ proc[c] = "alive"
  /\ proc' = [proc EXCEPT ![c] = "dead"]
  /\ UNCHANGED <<processes, guard, start, pipes, killed, stdin, cleanup,
                 cleanupChild, stop, stopChild, write, exits>>

(* The last writer of stdout and of stderr is gone: the child died and so  *)
(* did the processes that inherited them, or it closed them while alive.   *)
PipesClose(c) ==
  /\ pipes[c]
  /\ "early_close" \in Faults \/ proc[c] = "dead"
  /\ pipes' = [pipes EXCEPT ![c] = FALSE]
  /\ UNCHANGED <<processes, guard, start, proc, killed, stdin, cleanup,
                 cleanupChild, stop, stopChild, write, exits>>

ProcReads(c) ==
  /\ proc[c] = "alive"
  /\ stdin[c] > 0
  /\ stdin' = [stdin EXCEPT ![c] = @ - 1]
  /\ UNCHANGED <<processes, guard, start, proc, pipes, killed, cleanup,
                 cleanupChild, stop, stopChild, write, exits>>

-----------------------------------------------------------------------------
StartStep(r)   == StartCheck(r) \/ StartSpawn(r) \/ StartInsert(r) \/ StartReturn(r)
CleanupStep(r) == CleanupTake(r) \/ CleanupExit(r)
StopStep(s)    == StopTake(s) \/ StopSignal(s) \/ StopKilled(s) \/ StopReap(s)
ProcStep(c)    == ProcDies(c) \/ PipesClose(c) \/ ProcReads(c)

Next ==
  \/ \E r \in Runs : StartStep(r) \/ CleanupStep(r) \/ ProcStep(r)
  \/ \E s \in Stops : StopCall(s) \/ StopStep(s) \/ StopCancel(s)
  \/ \E w \in Writes : WriteBegin(w) \/ WriteEnd(w) \/ WriteCancel(w)

Spec == Init /\ [][Next]_vars

(* Tokio runs every task that is ready, and the operating system kills what *)
(* has been signalled.  Clients owe nothing: no fairness on calls, on their *)
(* disconnects, on a child's exit or on its reading stdin.                 *)
Fairness ==
  /\ \A r \in Runs :
       /\ WF_vars(StartSpawn(r) \/ StartInsert(r) \/ StartReturn(r))
       /\ WF_vars(CleanupStep(r))
       /\ WF_vars(killed[r] /\ ProcDies(r))
  /\ \A s \in Stops : WF_vars(StopStep(s))
  /\ \A w \in Writes : WF_vars(WriteEnd(w))

FairSpec == Spec /\ Fairness

-----------------------------------------------------------------------------
(* A run's Exit is published at most once, whichever of the cleanup task   *)
(* and stop_run's reaper gets the child, in whatever order they run        *)
(* (run/mod.rs, the comment at 310: "this task is the one that sends the   *)
(* Exit event for a manual stop").                                         *)
ExitAtMostOnce == \A c \in Runs : exits[c] <= 1

(* Exit is never published for a child that is still alive: it always      *)
(* comes after a wait() on that very child.                                *)
ExitMeansDead == \A c \in Runs : exits[c] > 0 => proc[c] = "dead"

(* An entry of the map always has a cleanup task of its own still to come, *)
(* so that no interleaving leaves a slug "running" for ever.               *)
EntryIsWatched ==
  \A c \in Runs : processes = c =>
    start[c] = "inserted" \/ (start[c] = "returned" /\ cleanup[c] = "draining")

(* When the child in the map has exited and its pipes are closed, the slug *)
(* is removed (run/mod.rs 18: "When it exits (naturally or killed), the    *)
(* slug is removed from the processes map").                               *)
DeadEntryIsRemoved ==
  \A c \in Runs :
    (processes = c /\ proc[c] = "dead" /\ ~pipes[c]) ~> processes # c

(* A stop that has sent the signal ends in an Exit event for that child,   *)
(* unless the client goes away first.                                      *)
StopPublishesExit ==
  \A s \in Stops, c \in Runs :
    (stop[s] = "killing" /\ stopChild[s] = c)
      ~> (exits[c] = 1 \/ stop[s] = "cancelled")

(* The map, a cleanup task or a stop_run call holds c's Child. *)
Held(c) == \/ processes = c
           \/ \E r \in Runs : cleanupChild[r] = c
           \/ \E s \in Stops : stopChild[s] = c

(* Nobody lets go of a Child before its Exit event, whichever task took it *)
(* out of the map (a Child let go of is a process nobody can stop), except *)
(* an overlapping start, which overwrites the entry, and a stop whose      *)
(* client goes away.                                                       *)
LetGoOf(c) ==
  \/ exits'[c] = 1
  \/ \E r \in Runs : start[r] = "spawned" /\ start'[r] = "inserted"
  \/ \E s \in Stops : stopChild[s] = c /\ stop'[s] = "cancelled"

ChildIsKept == [][\A c \in Runs : Held(c) /\ ~Held(c)' => LetGoOf(c)]_vars

-----------------------------------------------------------------------------
(* What the documentation says and the code does not do.                   *)

(* A run is active from the time it is stored until it dies or is told to. *)
Active(c) == start[c] \in {"inserted", "returned"} /\ proc[c] = "alive" /\ ~killed[c]

(* run/mod.rs 10: "At most one run per project." *)
AtMostOneRun == \A c, d \in Runs : Active(c) /\ Active(d) => c = d
=============================================================================
