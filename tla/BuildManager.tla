------------------------------ MODULE BuildManager ------------------------------
(***************************************************************************)
(* BuildManager (backend/src/build/mod.rs) for one project slug:           *)
(* start_build with the two reader tasks and the exit task it spawns,      *)
(* get_or_create_channel, and handle_build_socket, which forwards the      *)
(* channel's events to a WebSocket client.                                 *)
(*                                                                         *)
(* start_build has no await: without "overlap" it runs as a whole before   *)
(* the next request is served, but the tasks and the clients' streams run  *)
(* beside it.  A build and its cargo process carry the name of the call, a *)
(* channel that of the call or client that opened it.  What a line says,   *)
(* and the diagnostics made of it, are left out.                           *)
(***************************************************************************)
EXTENDS Naturals, Sequences

CONSTANTS
  Calls,     \* calls to start_build
  Clients,   \* WebSocket clients
  MaxLines,  \* lines cargo prints on each stream, at most
  Cap,       \* events a channel keeps for its slowest receiver
  Faults,    \* what clients and cargo may do beyond the ordinary
  None       \* no channel

ASSUME BuildAssumption ==
  /\ Calls \cap Clients = {} /\ None \notin Calls \cup Clients
  /\ MaxLines \in Nat /\ Cap \in Nat \ {0}
  /\ Faults \subseteq {"overlap",   \* requests are served at the same time
                       "leave",     \* clients leave
                       "bad_line"}  \* cargo prints a line that is not UTF-8

VARIABLES
  channels,  \* the map's sender for the slug, or None
  running,   \* is the slug in the map of running builds
  pc,        \* where each call, and each client's handshake, is
  tx,        \* the channel each call sends to and each client listens to
  cargo,     \* each cargo process: "unborn", "alive" or "dead"
  lines,     \* what each process has still to say on each stream
  readers,   \* the streams whose reader task is still running
  exit,      \* where each exit task is
  log,       \* all events ever sent on each channel
  next       \* the index in the log of the event each client gets next

vars == <<channels, running, pc, tx, cargo, lines, readers, exit, log, next>>

-----------------------------------------------------------------------------
Streams  == {"stdout", "stderr"}
Channels == Calls \cup Clients
Events   == [of : Calls, what : {"start", "line", "exit"}]

CallSteps   == {"idle", "checked", "open", "spawn", "mark", "announce",
                "returned", "refused", "failed"}
ClientSteps == {"idle", "checked", "open", "connected", "lagged", "gone"}
ExitSteps   == {"none", "joining", "leaving", "done"}

TypeOK ==
  /\ channels \in Channels \cup {None}
  /\ running \in BOOLEAN
  /\ pc \in [Channels -> CallSteps \cup ClientSteps]
  /\ \A c \in Calls : pc[c] \in CallSteps
  /\ \A k \in Clients : pc[k] \in ClientSteps
  /\ tx \in [Channels -> Channels \cup {None}]
  /\ cargo \in [Calls -> {"unborn", "alive", "dead"}]
  /\ lines \in [Calls -> [Streams -> 0..MaxLines]]
  /\ readers \in [Calls -> SUBSET Streams]
  /\ exit \in [Calls -> ExitSteps]
  /\ log \in [Channels -> Seq(Events)]
  /\ next \in [Clients -> Nat]
  /\ \A k \in Clients : pc[k] = "connected" =>
                          tx[k] # None /\ next[k] \in 1..Len(log[tx[k]]) + 1

Init ==
  /\ channels = None
  /\ running = FALSE
  /\ pc = [x \in Channels |-> "idle"]
  /\ tx = [x \in Channels |-> None]
  /\ cargo = [c \in Calls |-> "unborn"]
  /\ lines = [c \in Calls |-> [s \in Streams |-> 0]]
  /\ readers = [c \in Calls |-> {}]
  /\ exit = [c \in Calls |-> "none"]
  /\ log = [x \in Channels |-> <<>>]
  /\ next = [k \in Clients |-> 1]

-----------------------------------------------------------------------------
Goto(x, s) == pc' = [pc EXCEPT ![x] = s]

Send(c, what) == log' = [log EXCEPT ![tx[c]] = Append(@, [of |-> c, what |-> what])]

Serving == {x \in Channels : pc[x] \in {"checked", "open", "spawn", "mark", "announce"}}
MayCall == "overlap" \in Faults \/ Serving = {}

-----------------------------------------------------------------------------
(* A build for the slug is running.  Mutant: nobody looks. *)
Busy_Never == FALSE
Busy == running

StartCheck(c) ==
  /\ pc[c] = "idle"
  /\ MayCall
  /\ Goto(c, IF Busy THEN "refused" ELSE "checked")
  /\ UNCHANGED <<channels, running, tx, cargo, lines, readers, exit, log, next>>

Connect(k) ==
  /\ pc[k] = "idle"
  /\ MayCall
  /\ Goto(k, "checked")
  /\ UNCHANGED <<channels, running, tx, cargo, lines, readers, exit, log, next>>

(* A receiver begins with the next event.                                  *)
Position(ch) == Len(log[ch]) + 1

(* get_or_create_channel: the sender is there, or a new one is inserted    *)
(* over whatever is there by then.                                         *)
HasChannel(x, ch) ==
  /\ tx' = [tx EXCEPT ![x] = ch]
  /\ Goto(x, IF x \in Calls THEN "spawn" ELSE "connected")
  /\ next' = IF x \in Clients THEN [next EXCEPT ![x] = Position(ch)] ELSE next

GetChannel(x) ==
  /\ pc[x] = "checked"
  /\ IF channels = None
       THEN Goto(x, "open") /\ UNCHANGED <<tx, next>>
       ELSE HasChannel(x, channels)
  /\ UNCHANGED <<channels, running, cargo, lines, readers, exit, log>>

OpenChannel(x) ==
  /\ pc[x] = "open"
  /\ channels' = x
  /\ HasChannel(x, x)
  /\ UNCHANGED <<running, cargo, lines, readers, exit, log>>

Spawn(c) ==
  /\ pc[c] = "spawn"
  /\ \/ /\ Goto(c, "mark")
        /\ cargo' = [cargo EXCEPT ![c] = "alive"]
        /\ \E said \in [Streams -> 0..MaxLines] : lines' = [lines EXCEPT ![c] = said]
     \/ /\ Goto(c, "failed")
        /\ UNCHANGED <<cargo, lines>>
  /\ UNCHANGED <<channels, running, tx, readers, exit, log, next>>

Mark(c) ==
  /\ pc[c] = "mark"
  /\ Goto(c, "announce")
  /\ running' = TRUE
  /\ UNCHANGED <<channels, tx, cargo, lines, readers, exit, log, next>>

(* Start is sent, then the three tasks are spawned. *)
Announce(c) ==
  /\ pc[c] = "announce"
  /\ Goto(c, "returned")
  /\ Send(c, "start")
  /\ readers' = [readers EXCEPT ![c] = Streams]
  /\ exit' = [exit EXCEPT ![c] = "joining"]
  /\ UNCHANGED <<channels, running, tx, cargo, lines, next>>

-----------------------------------------------------------------------------
(* The tasks of a build                                                    *)

ReadLine(c, s) ==
  /\ s \in readers[c]
  /\ lines[c][s] > 0
  /\ lines' = [lines EXCEPT ![c][s] = @ - 1]
  /\ Send(c, "line")
  /\ UNCHANGED <<channels, running, pc, tx, cargo, readers, exit, next>>

(* The reader sees the end of the stream, or a line it cannot decode. *)
ReadEnd(c, s) ==
  /\ s \in readers[c]
  /\ \/ cargo[c] = "dead" /\ lines[c][s] = 0
     \/ "bad_line" \in Faults /\ lines[c][s] > 0
  /\ readers' = [readers EXCEPT ![c] = @ \ {s}]
  /\ UNCHANGED <<channels, running, pc, tx, cargo, lines, exit, log, next>>

(* Both readers have ended.  Mutant: the one of stdout has.                *)
Joined_Stdout(c) == "stdout" \notin readers[c]
Joined(c) == readers[c] = {}

(* Exit is sent, with -1 when wait() fails.  Mutant: not when it fails.    *)
SendExit_IfWaited(c) == Send(c, "exit") \/ UNCHANGED log
SendExit(c) == Send(c, "exit")

ExitSend(c) ==
  /\ exit[c] = "joining"
  /\ Joined(c)
  /\ cargo[c] = "dead"
  /\ exit' = [exit EXCEPT ![c] = "leaving"]
  /\ SendExit(c)
  /\ UNCHANGED <<channels, running, pc, tx, cargo, lines, readers, next>>

(* running.remove.  Mutant: the slug stays. *)
Unmarked_Kept == running
Unmarked == FALSE

ExitRemove(c) ==
  /\ exit[c] = "leaving"
  /\ exit' = [exit EXCEPT ![c] = "done"]
  /\ running' = Unmarked
  /\ UNCHANGED <<channels, pc, tx, cargo, lines, readers, log, next>>

CargoExits(c) ==
  /\ cargo[c] = "alive"
  /\ cargo' = [cargo EXCEPT ![c] = "dead"]
  /\ UNCHANGED <<channels, running, pc, tx, lines, readers, exit, log, next>>

-----------------------------------------------------------------------------
(* handle_build_socket                                                     *)

(* rx.recv: a receiver that is more than Cap events behind gets Lagged,    *)
(* which ends the stream like a closed channel.                            *)
Forward(k) ==
  LET left == Len(log[tx[k]]) - next[k] + 1 IN
  /\ pc[k] = "connected"
  /\ left > 0
  /\ IF left > Cap
       THEN Goto(k, "lagged") /\ UNCHANGED next
       ELSE next' = [next EXCEPT ![k] = @ + 1] /\ UNCHANGED pc
  /\ UNCHANGED <<channels, running, tx, cargo, lines, readers, exit, log>>

Leave(k) ==
  /\ "leave" \in Faults
  /\ pc[k] = "connected"
  /\ Goto(k, "gone")
  /\ UNCHANGED <<channels, running, tx, cargo, lines, readers, exit, log, next>>

-----------------------------------------------------------------------------
Channel(x)   == GetChannel(x) \/ OpenChannel(x)
StartStep(c) == Channel(c) \/ Spawn(c) \/ Mark(c) \/ Announce(c)
ExitStep(c)  == ExitSend(c) \/ ExitRemove(c)
Read(c, s)   == ReadLine(c, s) \/ ReadEnd(c, s)

Next ==
  \/ \E c \in Calls :
       \/ StartCheck(c) \/ StartStep(c) \/ ExitStep(c) \/ CargoExits(c)
       \/ \E s \in Streams : Read(c, s)
  \/ \E k \in Clients : Connect(k) \/ Channel(k) \/ Forward(k) \/ Leave(k)

Spec == Init /\ [][Next]_vars

(* The runtime runs every task that is ready.  Nothing is owed by cargo,   *)
(* nor by the clients but to read what they are sent; no process that      *)
(* cargo leaves behind keeps its output open.                              *)
FairSpec ==
  /\ Spec
  /\ \A c \in Calls :
       /\ WF_vars(StartStep(c)) /\ WF_vars(ExitStep(c))
       /\ \A s \in Streams : WF_vars(Read(c, s))
  /\ \A k \in Clients : WF_vars(Channel(k) \/ Forward(k))

-----------------------------------------------------------------------------
(* A build's first event is Start and its last is Exit, although its lines *)
(* come from two tasks and Exit from a third.                              *)
StartFirstExitLast ==
  \A ch \in Channels : \A i, j \in DOMAIN log[ch] :
    i < j /\ log[ch][i].of = log[ch][j].of =>
      log[ch][j].what # "start" /\ log[ch][i].what # "exit"

(* The events of two builds are not mixed on their channel: a client tells *)
(* them apart by Start and Exit, events do not name their build.           *)
BuildsDoNotMix ==
  \A ch \in Channels : \A i, j, k \in DOMAIN log[ch] :
    i < j /\ j < k /\ log[ch][i].of = log[ch][k].of => log[ch][j].of = log[ch][i].of

(* When cargo has ended, the slug can be built again. *)
SlugIsFreed ==
  \A c \in Calls : (exit[c] = "joining" /\ cargo[c] = "dead") ~> ~running

(* A client that is connected while a build runs gets its Exit, on the     *)
(* channel it connected to before, during or after an earlier build, unless*)
(* it leaves or falls behind (build/mod.rs 106: clients "can connect       *)
(* before a build starts and still receive output once it begins").        *)
Got(k, c) == \E i \in 1..next[k] - 1 : log[tx[k]][i] = [of |-> c, what |-> "exit"]
ExitIsSeen ==
  \A c \in Calls, k \in Clients :
    (pc[k] = "connected" /\ exit[c] = "joining" /\ cargo[c] = "dead")
      ~> (Got(k, c) \/ pc[k] \in {"lagged", "gone"})
=============================================================================
