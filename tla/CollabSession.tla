--------------------------- MODULE CollabSession ---------------------------
(* The canvas of one project in several browsers: the client's saves and its *)
(* socket (frontend/src/views/ProjectCanvas.tsx), and the rooms of the       *)
(* server (backend/src/projects/collab.rs).                                  *)
(*                                                                           *)
(* A client saves with PUT and, when that is answered, tells its peers over  *)
(* its socket; the server saves what it is told once more, as the graph of   *)
(* the root package, and passes it on. Requests and sockets are handled      *)
(* concurrently; each direction of a socket keeps its order.                 *)
EXTENDS Naturals, Sequences, FiniteSets, SequencesExt

CONSTANTS
  Clients, Packages, Root,
  MaxEdits,             \* bound on the changes that all users make
  MaxMoves,             \* bound on switches, cursor moves and saves of an unchanged canvas
  Faults,               \* a subset of {"refuse", "drop"}
  None

ASSUME CollabAssumption == Root \in Packages /\ MaxEdits \in Nat

VARIABLES
  view,         \* client -> what its page holds, see Closed
  up, down,     \* client -> messages on their way to and from the server
  members,      \* the room: its clients in the order they joined
  handler,      \* client -> the task of its socket, see Idle
  disk,         \* package -> its saved graph
  edits, moves,
  accepted,     \* graphs that a PUT saved (history, like the next three)
  told,         \* client -> the graphs it sent to its peers, in order
  heard,        \* client -> sender -> the graphs it received, in order
  earlier,      \* client -> sender -> how many it had sent when the client joined
  crossed       \* two lists of the room's users were on their way at once

vars == <<view, up, down, members, handler, disk, edits, moves, accepted, told, heard, earlier, crossed>>

(* A graph is known by the package on whose canvas it was made last, and by  *)
(* a number; 0 is the empty graph, which a package starts with.              *)
Graph(p, n) == [pkg |-> p, n |-> n]
Graphs == [pkg : Packages, n : 0..MaxEdits]

(* pkg is the package that is shown, saveTo the one that handleSave saves    *)
(* to: the callback is made anew when the canvas changes, not when pkg does. *)
Closed(tab) ==
    [tab |-> tab, pkg |-> Root, saveTo |-> Root, canvas |-> Graph(Root, 0), remote |-> FALSE,
     timer |-> None, load |-> None, puts |-> {}, saving |-> FALSE,
     collaborators |-> {}, cursors |-> {}]
Idle == [at |-> "idle", msg |-> None, left |-> <<>>]

Init ==
    /\ view = [c \in Clients |-> Closed("new")]
    /\ up = [c \in Clients |-> <<>>] /\ down = [c \in Clients |-> <<>>]
    /\ members = <<>>
    /\ handler = [c \in Clients |-> Idle]
    /\ disk = [p \in Packages |-> Graph(p, 0)]
    /\ edits = 0 /\ moves = 0
    /\ accepted = {}
    /\ told = [c \in Clients |-> <<>>]
    /\ heard = [c \in Clients |-> [s \in Clients |-> <<>>]]
    /\ earlier = [c \in Clients |-> [s \in Clients |-> 0]]
    /\ crossed = FALSE

Joining(c) == [type |-> "join", from |-> c]
Presence(cs) == [type |-> "presence", users |-> ToSet(cs)]
Cursor(c) == [type |-> "cursor", from |-> c]
GraphEdit(c, g) == [type |-> "graph_edit", from |-> c, graph |-> g]

Online(c) == view[c].tab = "open"
IsOpen(c) == view[c].tab \in {"open", "offline"}
Show(c, page) == view' = [view EXCEPT ![c] = page]
-----------------------------------------------------------------------------
(* The page.                                                                 *)

(* The canvas mounts: its socket opens and joins, its graph is loaded. The   *)
(* server reads a graph as it is asked for; the answer comes later.          *)
Open(c) ==
    /\ view[c].tab = "new"
    /\ Show(c, [view[c] EXCEPT !.tab = "open", !.load = disk[Root]])
    /\ up' = [up EXCEPT ![c] = <<Joining(c)>>]
    /\ UNCHANGED <<down, members, handler, disk, edits, moves, accepted, told, heard, earlier, crossed>>

(* Another package is selected in the sidebar, which is there once a package *)
(* is loaded: the timer of the autosave goes on.                             *)
Switch(c) ==
    /\ IsOpen(c) /\ view[c].load = None /\ moves < MaxMoves
    /\ \E p \in Packages \ {view[c].pkg} :
         Show(c, [view[c] EXCEPT !.pkg = p, !.load = disk[p]])
    /\ moves' = moves + 1
    /\ UNCHANGED <<up, down, members, handler, disk, edits, accepted, told, heard, earlier, crossed>>

Loaded(c) ==
    /\ view[c].load # None
    /\ Show(c, [view[c] EXCEPT !.canvas = view[c].load, !.load = None, !.saveTo = view[c].pkg])
    /\ UNCHANGED <<up, down, members, handler, disk, edits, moves, accepted, told, heard, earlier, crossed>>

(* The user changes the graph: scheduleSave starts its five seconds anew,    *)
(* unless a change of a peer was applied a moment ago.                       *)
Edit(c) ==
    LET g == Graph(view[c].pkg, edits + 1) IN
    /\ IsOpen(c) /\ view[c].load = None /\ edits < MaxEdits
    /\ Show(c, [view[c] EXCEPT !.canvas = g, !.saveTo = view[c].pkg,
                               !.timer = IF view[c].remote THEN @ ELSE g,
                               !.saving = view[c].remote /\ @])
    /\ edits' = edits + 1
    /\ UNCHANGED <<up, down, members, handler, disk, moves, accepted, told, heard, earlier, crossed>>

Put(p, g) == [pkg |-> p, graph |-> g, saved |-> FALSE]

(* The autosave. Its callback is made once, when the canvas mounts: the      *)
(* package it saves to is the one selected then, the root.                   *)
TimerFires(c) ==
    /\ view[c].timer # None
    /\ Show(c, [view[c] EXCEPT !.timer = None, !.saving = TRUE,
                               !.puts = @ \cup {Put(Root, view[c].timer)}])
    /\ UNCHANGED <<up, down, members, handler, disk, edits, moves, accepted, told, heard, earlier, crossed>>

(* handleSave; its button works while a package is still being loaded.       *)
Save(c) ==
    LET unchanged == view[c].timer = None IN
    /\ IsOpen(c) /\ ~view[c].saving /\ ~view[c].remote
    /\ unchanged => moves < MaxMoves
    /\ moves' = IF unchanged THEN moves + 1 ELSE moves
    /\ Show(c, [view[c] EXCEPT !.timer = None, !.saving = TRUE,
                               !.puts = @ \cup {Put(view[c].saveTo, view[c].canvas)}])
    /\ UNCHANGED <<up, down, members, handler, disk, edits, accepted, told, heard, earlier, crossed>>

(* PUT graph at the server, and its answer. One that is refused is not told  *)
(* to anybody.                                                               *)
PutSaved(c) ==
    /\ \E r \in view[c].puts :
         /\ ~r.saved
         /\ disk' = [disk EXCEPT ![r.pkg] = r.graph]
         /\ accepted' = accepted \cup {r.graph}
         /\ Show(c, [view[c] EXCEPT !.puts = (@ \ {r}) \cup {[r EXCEPT !.saved = TRUE]}])
    /\ UNCHANGED <<up, down, members, handler, edits, moves, told, heard, earlier, crossed>>

(* Mutant: the peers are told before the answer is looked at.                *)
PutRefused_Told(c) ==
    /\ "refuse" \in Faults
    /\ Online(c)
    /\ \E r \in view[c].puts :
         /\ ~r.saved
         /\ Show(c, [view[c] EXCEPT !.puts = @ \ {r}, !.saving = FALSE])
         /\ up' = [up EXCEPT ![c] = Append(@, GraphEdit(c, r.graph))]
    /\ UNCHANGED <<down, members, handler, disk, edits, moves, accepted, told, heard, earlier, crossed>>

PutRefused(c) ==
    /\ "refuse" \in Faults
    /\ \E r \in view[c].puts :
         ~r.saved /\ Show(c, [view[c] EXCEPT !.puts = @ \ {r}, !.saving = FALSE])
    /\ UNCHANGED <<up, down, members, handler, disk, edits, moves, accepted, told, heard, earlier, crossed>>

PutAnswered(c) ==
    /\ IsOpen(c)
    /\ \E r \in view[c].puts :
         /\ r.saved
         /\ Show(c, [view[c] EXCEPT !.puts = @ \ {r}, !.saving = FALSE])
         /\ IF Online(c)
            THEN /\ up' = [up EXCEPT ![c] = Append(@, GraphEdit(c, r.graph))]
                 /\ told' = [told EXCEPT ![c] = Append(@, r.graph)]
            ELSE UNCHANGED <<up, told>>
    /\ UNCHANGED <<down, members, handler, disk, edits, moves, accepted, heard, earlier, crossed>>

MoveCursor(c) ==
    /\ Online(c) /\ view[c].load = None /\ moves < MaxMoves
    /\ moves' = moves + 1
    /\ up' = [up EXCEPT ![c] = Append(@, Cursor(c))]
    /\ UNCHANGED <<view, down, members, handler, disk, edits, accepted, told, heard, earlier, crossed>>

(* Mutant: the cursors of those who left stay.                               *)
Received_KeepsCursors(c, m) ==
    CASE m.type = "presence" -> [view[c] EXCEPT !.collaborators = m.users \ {c}]
      [] m.type = "cursor" -> [view[c] EXCEPT !.cursors = @ \cup {m.from}]
      [] m.type = "graph_edit" -> [view[c] EXCEPT !.canvas = m.graph, !.remote = TRUE,
                                                    !.saveTo = view[c].pkg]

(* ws.onmessage. A graph replaces the canvas whatever package it shows.      *)
Received(c, m) ==
    CASE m.type = "presence" ->
           [view[c] EXCEPT !.collaborators = m.users \ {c}, !.cursors = @ \cap m.users]
      [] m.type = "cursor" -> [view[c] EXCEPT !.cursors = @ \cup {m.from}]
      [] m.type = "graph_edit" -> [view[c] EXCEPT !.canvas = m.graph, !.remote = TRUE,
                                                    !.saveTo = view[c].pkg]

Receive(c) ==
    /\ Online(c) /\ down[c] # <<>>
    /\ LET m == Head(down[c]) IN
       /\ Show(c, Received(c, m))
       /\ heard' = IF m.type # "graph_edit" THEN heard
                   ELSE [heard EXCEPT ![c][m.from] = Append(@, m.graph)]
    /\ down' = [down EXCEPT ![c] = Tail(@)]
    /\ UNCHANGED <<up, members, handler, disk, edits, moves, accepted, told, earlier, crossed>>

(* 50 ms after a change of a peer.                                           *)
Calm(c) ==
    /\ view[c].remote
    /\ Show(c, [view[c] EXCEPT !.remote = FALSE])
    /\ UNCHANGED <<up, down, members, handler, disk, edits, moves, accepted, told, heard, earlier, crossed>>

(* The connection breaks: what the page had sent last may be lost. It stays  *)
(* on the screen and saves on, but there is no second try to connect.        *)
GoOffline(c) ==
    /\ "drop" \in Faults
    /\ Online(c)
    /\ Show(c, [view[c] EXCEPT !.tab = "offline"])
    /\ \E n \in 0..Len(up[c]) : up' = [up EXCEPT ![c] = SubSeq(@, 1, n)]
    /\ down' = [down EXCEPT ![c] = <<>>]
    /\ UNCHANGED <<members, handler, disk, edits, moves, accepted, told, heard, earlier, crossed>>

(* The page is closed, or left for another view of the same page: then the   *)
(* timer of the autosave goes on. A request that was made may reach the      *)
(* server or not.                                                            *)
Close(c) ==
    /\ IsOpen(c)
    /\ \E kept \in SUBSET {r \in view[c].puts : ~r.saved}, timer \in {None, view[c].timer} :
         Show(c, [Closed("closed") EXCEPT !.puts = kept, !.timer = timer])
    /\ down' = [down EXCEPT ![c] = <<>>]
    /\ heard' = [heard EXCEPT ![c] = [s \in Clients |-> <<>>]]
    /\ UNCHANGED <<up, members, handler, disk, edits, moves, accepted, told, earlier, crossed>>
-----------------------------------------------------------------------------
(* The server. A broadcast holds the room for reading while it puts its      *)
(* message into the queue of one client after the other; several may do so   *)
(* at once, and a join or a leave waits for all of them.                     *)

Reading == \E c \in Clients : handler[c].at \in {"cast", "last"}
Announcing(c) ==
    handler[c].at \in {"list", "cast", "bye", "last"} /\ handler[c].msg.type = "presence"
Announce(c, cs) ==
    /\ members' = cs
    /\ crossed' = (crossed \/ \E d \in Clients \ {c} : Announcing(d))

NextIn(c) == Head(up[c])
Waits(c, type) == handler[c].at = "idle" /\ up[c] # <<>> /\ NextIn(c).type = type
Take(c) == up' = [up EXCEPT ![c] = Tail(@)]

(* join_room; the list it returns is broadcast in a step of its own.         *)
Join(c) ==
    /\ Waits(c, "join") /\ ~Reading
    /\ Take(c)
    /\ Announce(c, Append(members, c))
    /\ handler' = [handler EXCEPT ![c] = [Idle EXCEPT !.at = "list", !.msg = Presence(members')]]
    /\ earlier' = [earlier EXCEPT ![c] = [s \in Clients |-> Len(told[s])]]
    /\ UNCHANGED <<view, down, disk, edits, moves, accepted, told, heard>>

PassCursor(c) ==
    /\ Waits(c, "cursor")
    /\ Take(c)
    /\ handler' = [handler EXCEPT ![c] = [Idle EXCEPT !.at = "list", !.msg = NextIn(c)]]
    /\ UNCHANGED <<view, down, members, disk, edits, moves, accepted, told, heard, earlier, crossed>>

TakeEdit(c) ==
    /\ Waits(c, "graph_edit")
    /\ Take(c)
    /\ handler' = [handler EXCEPT ![c] = [Idle EXCEPT !.at = "save", !.msg = NextIn(c)]]
    /\ UNCHANGED <<view, down, members, disk, edits, moves, accepted, told, heard, earlier, crossed>>

(* Mutant: a graph that could not be saved is not passed on.                 *)
SaveEdit_SkipsOnError(c) ==
    /\ handler[c].at = "save"
    /\ \/ /\ disk' = [disk EXCEPT ![Root] = handler[c].msg.graph]
          /\ handler' = [handler EXCEPT ![c].at = "list"]
       \/ /\ "refuse" \in Faults
          /\ handler' = [handler EXCEPT ![c] = Idle]
          /\ UNCHANGED disk
    /\ UNCHANGED <<view, up, down, members, edits, moves, accepted, told, heard, earlier, crossed>>

(* Mutant: a graph that could not be saved is tried again later as well.     *)
SaveEdit_Retries(c) ==
    /\ handler[c].at = "save"
    /\ \/ disk' = [disk EXCEPT ![Root] = handler[c].msg.graph] /\ UNCHANGED up
       \/ /\ "refuse" \in Faults
          /\ up' = [up EXCEPT ![c] = Append(@, handler[c].msg)]
          /\ UNCHANGED disk
    /\ handler' = [handler EXCEPT ![c].at = "list"]
    /\ UNCHANGED <<view, down, members, edits, moves, accepted, told, heard, earlier, crossed>>

(* Mutant: the socket's task ends at the first graph it cannot save.         *)
SaveEdit_Ends(c) ==
    /\ handler[c].at = "save"
    /\ \/ /\ disk' = [disk EXCEPT ![Root] = handler[c].msg.graph]
          /\ handler' = [handler EXCEPT ![c].at = "list"]
       \/ /\ "refuse" \in Faults
          /\ handler' = [handler EXCEPT ![c] = [Idle EXCEPT !.at = "gone"]]
          /\ UNCHANGED disk
    /\ UNCHANGED <<view, up, down, members, edits, moves, accepted, told, heard, earlier, crossed>>

(* save_graph, which has no package: the root's. An error is logged.         *)
SaveEdit(c) ==
    /\ handler[c].at = "save"
    /\ \/ disk' = [disk EXCEPT ![Root] = handler[c].msg.graph]
       \/ "refuse" \in Faults /\ UNCHANGED disk
    /\ handler' = [handler EXCEPT ![c].at = "list"]
    /\ UNCHANGED <<view, up, down, members, edits, moves, accepted, told, heard, earlier, crossed>>

(* The clients of cs but d. *)
Without(cs, d) ==
    LET F[n \in 0..Len(cs)] ==
          IF n = 0 THEN <<>> ELSE IF cs[n] = d THEN F[n - 1] ELSE Append(F[n - 1], cs[n])
    IN  F[Len(cs)]

(* broadcast: to everybody but the sender; a presence list to everybody.     *)
Recipients(msg) == IF msg.type = "presence" THEN members ELSE Without(members, msg.from)
Casting(c, left) ==
    LET leaves == handler[c].at \in {"bye", "last"} IN
    handler' = [handler EXCEPT ![c] =
                  IF left # <<>>
                  THEN [handler[c] EXCEPT !.left = left, !.at = IF leaves THEN "last" ELSE "cast"]
                  ELSE [Idle EXCEPT !.at = IF leaves THEN "gone" ELSE "idle"]]

StartCast(c) ==
    /\ handler[c].at \in {"list", "bye"}
    /\ Casting(c, Recipients(handler[c].msg))
    /\ UNCHANGED <<view, up, down, members, disk, edits, moves, accepted, told, heard, earlier, crossed>>

Cast(c) ==
    /\ handler[c].at \in {"cast", "last"}
    /\ LET d == Head(handler[c].left) IN
       down' = IF Online(d) THEN [down EXCEPT ![d] = Append(@, handler[c].msg)] ELSE down
    /\ Casting(c, Tail(handler[c].left))
    /\ UNCHANGED <<view, up, members, disk, edits, moves, accepted, told, heard, earlier, crossed>>

(* The socket ends: leave_room, and the list of those who stay.              *)
Leave(c) ==
    /\ handler[c].at = "idle" /\ view[c].tab \in {"closed", "offline"} /\ up[c] = <<>>
    /\ IF c \in ToSet(members)
       THEN /\ ~Reading
            /\ Announce(c, Without(members, c))
            /\ handler' = [handler EXCEPT ![c] =
                             [Idle EXCEPT !.at = "bye", !.msg = Presence(members')]]
       ELSE /\ handler' = [handler EXCEPT ![c].at = "gone"]
            /\ UNCHANGED <<members, crossed>>
    /\ UNCHANGED <<view, up, down, disk, edits, moves, accepted, told, heard, earlier>>

Page(c) ==
    \/ Loaded(c) \/ TimerFires(c) \/ PutSaved(c) \/ PutAnswered(c)
    \/ Receive(c) \/ Calm(c)
Socket(c) ==
    \/ Join(c) \/ PassCursor(c) \/ TakeEdit(c) \/ SaveEdit(c)
    \/ StartCast(c) \/ Cast(c) \/ Leave(c)

Next ==
    \E c \in Clients :
      \/ Page(c) \/ Socket(c)
      \/ Open(c) \/ Switch(c) \/ Edit(c) \/ Save(c) \/ PutRefused(c) \/ MoveCursor(c)
      \/ GoOffline(c) \/ Close(c)

Spec == Init /\ [][Next]_vars
-----------------------------------------------------------------------------
(* What a page received from a peer is a stretch of what that peer sent,     *)
(* in its order: the socket's task, which saves before it passes a graph on, *)
(* leaves none out and lets none overtake another, whoever else broadcasts.  *)
EditsInOrder ==
    \A c, s \in Clients :
      \E i \in 1..(1 + Len(told[s]) - Len(heard[c][s])) :
        heard[c][s] = SubSeq(told[s], i, i + Len(heard[c][s]) - 1)

(* A graph on its way to the peers was saved by a PUT first: they are never  *)
(* shown, and never save once more, a graph that the server refused.         *)
InFlight ==
    {m \in UNION {ToSet(up[c]) \cup ToSet(down[c]) \cup {handler[c].msg} : c \in Clients} :
       m # None /\ m.type = "graph_edit"}
BroadcastWasAccepted == \A m \in InFlight : m.graph \in accepted

(* When nothing is on its way, the room holds the pages that are connected,  *)
(* and unless two lists of its users were on their way at once, when the     *)
(* older may arrive last, each page shows all the others and no cursor of    *)
(* somebody who left.                                                        *)
Settled == \A c \in Clients :
    /\ up[c] = <<>> /\ down[c] = <<>>
    /\ handler[c].at = IF Online(c) \/ view[c].tab = "new" THEN "idle" ELSE "gone"
SettledPresence ==
    Settled =>
      /\ ToSet(members) = {c \in Clients : Online(c)}
      /\ ~crossed => \A c \in ToSet(members) :
           /\ view[c].collaborators = ToSet(members) \ {c}
           /\ view[c].cursors \subseteq view[c].collaborators

(* When nothing is on its way, everyone in the room has received every graph *)
(* that anyone else in it sent since it joined, and these are the latest of  *)
(* those that were sent: what it lacks was sent before.                      *)
EditsReachPeers ==
    Settled =>
      \A c, s \in ToSet(members) : c # s =>
        /\ IsSuffix(heard[c][s], told[s])
        /\ Len(told[s]) <= earlier[c][s] + Len(heard[c][s])

(* No message is left lying: while one is on its way some page or some       *)
(* socket's task can take a step, so none waits for ever for the room,       *)
(* whoever joins, leaves and broadcasts.                                     *)
NoneIsStuck == (\E c \in Clients : ENABLED Receive(c) \/ ENABLED Socket(c)) \/ Settled

(* VIOLATED: the graph of a package was made on that package's canvas        *)
(* (roadmap.md:24 "Each package owns a graph fragment").                     *)
PackagesApart == \A p \in Packages : disk[p].pkg = p

=============================================================================
