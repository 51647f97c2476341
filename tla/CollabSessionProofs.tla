-------------------------- MODULE CollabSessionProofs --------------------------
(* What holds of CollabSession for any number of clients and packages and    *)
(* any bounds: nobody is told of a graph that no PUT saved; graphs arrive in *)
(* the order in which they were sent, and in the end all of them do; and the *)
(* users that a page shows are those in the room.                            *)
EXTENDS CollabSession, FiniteSetTheorems, WellFoundedInduction, TLAPS

(* What a page holds. A request that the server answered well had its graph  *)
(* saved.                                                                    *)
Requests ==
    {r \in [pkg : Packages, graph : Graphs, saved : BOOLEAN] : r.saved => r.graph \in accepted}
Pages ==
    [tab : {"new", "open", "offline", "closed"}, pkg : Packages, saveTo : Packages,
     canvas : Graphs, remote : BOOLEAN, timer : Graphs \cup {None}, load : Graphs \cup {None},
     puts : SUBSET Requests, saving : BOOLEAN,
     collaborators : SUBSET Clients, cursors : SUBSET Clients]
ViewFits == view \in [Clients -> Pages]

(* The messages to a page, whose graph, if they have one, a PUT saved.       *)
Joins == [type : {"join"}, from : Clients]
Cursors == [type : {"cursor"}, from : Clients]
Lists == [type : {"presence"}, users : SUBSET Clients]
Edits == [type : {"graph_edit"}, from : Clients, graph : Graphs]
Fitting == Cursors \cup Lists \cup {m \in Edits : m.graph \in accepted}
MessagesFit ==
    /\ up \in [Clients -> Seq(Fitting \cup Joins)]
    /\ down \in [Clients -> Seq(Fitting)]

(* A task that saves has a graph to save, one that sends has a message.      *)
Tasks ==
    {t \in [at : {"idle", "save", "list", "cast", "bye", "last", "gone"},
            msg : Fitting \cup {None}, left : Seq(Clients)] :
       /\ t.at = "save" => t.msg \in Edits
       /\ t.at \in {"cast", "last"} => t.left # <<>>
       /\ t.at \notin {"idle", "gone"} => t.msg \in Fitting}
TasksFit == handler \in [Clients -> Tasks]

StoreType ==
    /\ disk \in [Packages -> Graphs]
    /\ accepted \in SUBSET Graphs
    /\ edits \in 0..MaxEdits

RoomType == members \in Seq(Clients)
HistoryType ==
    /\ told \in [Clients -> Seq(Graphs)]
    /\ heard \in [Clients -> [Clients -> Seq(Graphs)]]
    /\ earlier \in [Clients -> [Clients -> Nat]]
    /\ crossed \in BOOLEAN
TypeInv == RoomType /\ StoreType /\ ViewFits /\ MessagesFit /\ TasksFit /\ HistoryType

-----------------------------------------------------------------------------
(* What a package starts with is a graph. *)
LEMMA EmptyGraph == \A p \in Packages : Graph(p, 0) \in Graphs
  BY CollabAssumption DEF Graph, Graphs

(* At first there are no messages and no requests. *)
LEMMA InitTypes == Init => TypeInv
<1> SUFFICES ASSUME Init PROVE TypeInv
  OBVIOUS
<1>1. RoomType
  BY DEF Init, RoomType
<1>2. StoreType
  BY EmptyGraph, CollabAssumption DEF Init, StoreType
<1>3. ViewFits
  BY EmptyGraph, CollabAssumption DEF Init, ViewFits, Pages, Closed, Requests
<1>4. MessagesFit
  BY DEF Init, MessagesFit
<1>5. TasksFit
  BY DEF Init, TasksFit, Tasks, Idle
<1>6. HistoryType
  <2> DEFINE S == Seq(Graphs)
  <2>1. <<>> \in S
    OBVIOUS
  <2> HIDE DEF S
  <2>2. /\ told \in [Clients -> S] /\ heard \in [Clients -> [Clients -> S]] /\ crossed \in BOOLEAN
        /\ earlier \in [Clients -> [Clients -> Nat]]
    BY <2>1 DEF Init
  <2> QED
    BY <2>2 DEF HistoryType, S
<1> QED
  BY <1>1, <1>2, <1>3, <1>4, <1>5, <1>6 DEF TypeInv

(* ... and then no message on its way has a graph that was not saved.        *)
LEMMA FittingIsAccepted == TypeInv => BroadcastWasAccepted
<1> SUFFICES ASSUME TypeInv, NEW m \in InFlight PROVE m.graph \in accepted
  BY DEF BroadcastWasAccepted
<1>1. PICK c \in Clients : m \in ToSet(up[c]) \/ m \in ToSet(down[c]) \/ m = handler[c].msg
  BY DEF InFlight
<1>2. m # None /\ m.type = "graph_edit"
  BY DEF InFlight
<1>3. m \in Fitting \cup Joins
  <2>1. handler[c].msg \in Fitting \cup {None}
    BY DEF TypeInv, TasksFit, Tasks
  <2>2. ToSet(up[c]) \subseteq Fitting \cup Joins /\ ToSet(down[c]) \subseteq Fitting
    BY DEF TypeInv, MessagesFit, ToSet
  <2> QED
    BY <1>1, <1>2, <2>1, <2>2
<1> QED
  BY <1>2, <1>3 DEF Fitting, Joins, Cursors, Lists

-----------------------------------------------------------------------------
(* What the steps of a page make of it is a page. *)
LEMMA PageUpdates ==
    ASSUME NEW page \in Pages
    PROVE  /\ [page EXCEPT !.canvas = page.load, !.load = None, !.saveTo = page.pkg] \in Pages
              \/ page.load = None
           /\ \A r \in Requests :
                [page EXCEPT !.timer = None, !.saving = TRUE, !.puts = @ \cup {r}] \in Pages
           /\ \A S \in SUBSET Requests : [page EXCEPT !.puts = S] \in Pages
           /\ \A r : [page EXCEPT !.puts = @ \ {r}, !.saving = FALSE] \in Pages
           /\ [page EXCEPT !.remote = FALSE] \in Pages
           /\ [page EXCEPT !.tab = "offline"] \in Pages
           /\ \A g \in Graphs : [page EXCEPT !.tab = "open", !.load = g] \in Pages
           /\ \A p \in Packages, g \in Graphs :
                [page EXCEPT !.pkg = p, !.load = g] \in Pages
           /\ \A g \in Graphs :
                /\ [page EXCEPT !.canvas = g, !.remote = TRUE, !.saveTo = page.pkg] \in Pages
                /\ [page EXCEPT !.canvas = g, !.saveTo = page.pkg,
                                !.timer = IF page.remote THEN @ ELSE g,
                                !.saving = page.remote /\ @] \in Pages
           /\ \A S \in SUBSET Clients : \A T :
                [page EXCEPT !.collaborators = S, !.cursors = @ \cap T] \in Pages
           /\ \A d \in Clients : [page EXCEPT !.cursors = @ \cup {d}] \in Pages
<1>1. [page EXCEPT !.canvas = page.load, !.load = None, !.saveTo = page.pkg] \in Pages
         \/ page.load = None
  BY DEF Pages
<1>2. \A r \in Requests :
        [page EXCEPT !.timer = None, !.saving = TRUE, !.puts = @ \cup {r}] \in Pages
  BY DEF Pages
<1>3. \A S \in SUBSET Requests : [page EXCEPT !.puts = S] \in Pages
  BY DEF Pages
<1>4. \A r : [page EXCEPT !.puts = @ \ {r}, !.saving = FALSE] \in Pages
  BY DEF Pages
<1>5. [page EXCEPT !.remote = FALSE] \in Pages /\ [page EXCEPT !.tab = "offline"] \in Pages
  BY DEF Pages
<1>6. \A g \in Graphs : [page EXCEPT !.tab = "open", !.load = g] \in Pages
  BY DEF Pages
<1>7. \A p \in Packages, g \in Graphs : [page EXCEPT !.pkg = p, !.load = g] \in Pages
  BY DEF Pages
<1>8. \A g \in Graphs :
        [page EXCEPT !.canvas = g, !.remote = TRUE, !.saveTo = page.pkg] \in Pages
  BY DEF Pages
<1>9. \A g \in Graphs :
        [page EXCEPT !.canvas = g, !.saveTo = page.pkg, !.timer = IF page.remote THEN @ ELSE g,
                     !.saving = page.remote /\ @] \in Pages
  BY DEF Pages
<1>10. \A S \in SUBSET Clients : \A T :
         [page EXCEPT !.collaborators = S, !.cursors = @ \cap T] \in Pages
  BY DEF Pages
<1>11. \A d \in Clients : [page EXCEPT !.cursors = @ \cup {d}] \in Pages
  BY DEF Pages
<1> QED
  BY <1>1, <1>2, <1>3, <1>4, <1>5, <1>6, <1>7, <1>8, <1>9, <1>10, <1>11

(* A page that was closed leaves its requests and its timer behind. *)
LEMMA ClosedPage ==
    ASSUME NEW S \in SUBSET Requests, NEW t \in Graphs \cup {None}
    PROVE  [Closed("closed") EXCEPT !.puts = S, !.timer = t] \in Pages
<1>1. Closed("closed") \in Pages
  BY EmptyGraph, CollabAssumption DEF Closed, Pages
<1> QED
  BY <1>1 DEF Pages

(* ... and what was one still is when more graphs are accepted. *)
LEMMA PagesStay ==
    ASSUME accepted \subseteq accepted'
    PROVE  Pages \subseteq Pages'
<1>1. Requests \subseteq Requests'
  BY DEF Requests
<1>2. SUFFICES ASSUME NEW page \in Pages PROVE page \in Pages'
  OBVIOUS
<1> QED
  BY <1>1 DEF Pages

(* A page that is shown instead of another keeps the view well formed. *)
LEMMA ShownPage ==
    ASSUME ViewFits, accepted \subseteq accepted',
           NEW c \in Clients, NEW page \in Pages', Show(c, page)
    PROVE  ViewFits'
BY PagesStay DEF ViewFits, Show

(* The steps of a page. *)
LEMMA StepView ==
    ASSUME TypeInv, [Next]_vars
    PROVE  ViewFits'
<1>0. ViewFits /\ StoreType /\ MessagesFit
  BY DEF TypeInv
<1>v. \A c \in Clients : view[c] \in Pages
  BY <1>0 DEF ViewFits
<1>k. ASSUME NEW c \in Clients, NEW page \in Pages, accepted' = accepted, Show(c, page)
      PROVE  ViewFits'
  BY <1>0, <1>k, PagesStay, ShownPage
<1>s. ASSUME UNCHANGED <<view, accepted>> PROVE ViewFits'
  BY <1>0, <1>s, PagesStay DEF ViewFits
<1>p. ASSUME NEW c \in Clients, Page(c) PROVE ViewFits'
  <2>1. CASE Loaded(c)
    BY <1>v, <1>k, <2>1, PageUpdates DEF Loaded
  <2>2. CASE TimerFires(c)
    <3>1. Put(Root, view[c].timer) \in Requests
      BY <1>v, <2>2, CollabAssumption DEF TimerFires, Pages, Put, Requests
    <3> QED
      BY <1>v, <1>k, <2>2, <3>1, PageUpdates DEF TimerFires
  <2>3. CASE PutSaved(c)
    <3>1. PICK r \in view[c].puts :
            /\ accepted' = accepted \cup {r.graph}
            /\ Show(c, [view[c] EXCEPT !.puts = (@ \ {r}) \cup {[r EXCEPT !.saved = TRUE]}])
      BY <2>3 DEF PutSaved
    <3>2. view[c].puts \subseteq Requests
      BY <1>v DEF Pages
    <3>3. [r EXCEPT !.saved = TRUE] \in Requests' /\ Requests \subseteq Requests'
      BY <3>1, <3>2 DEF Requests
    <3>4. view[c] \in Pages'
      BY <1>v, <3>1, PagesStay
    <3>5. (view[c].puts \ {r}) \cup {[r EXCEPT !.saved = TRUE]} \in SUBSET Requests'
      BY <3>2, <3>3
    <3>6. \A page \in Pages', S \in SUBSET Requests' : [page EXCEPT !.puts = S] \in Pages'
      BY DEF Pages
    <3> QED
      BY <1>0, <3>1, <3>4, <3>5, <3>6, ShownPage
  <2>4. CASE PutAnswered(c)
    BY <1>v, <1>k, <2>4, PageUpdates DEF PutAnswered
  <2>5. CASE Receive(c)
    <3> DEFINE m == Head(down[c])
    <3>1. m \in Fitting /\ Show(c, Received(c, m)) /\ accepted' = accepted
      BY <1>0, <2>5 DEF Receive, MessagesFit
    <3> HIDE DEF m
    <3>2. CASE m \in Edits
      BY <1>v, <1>k, <3>1, <3>2, PageUpdates DEF Received, Edits
    <3>3. CASE m \in Cursors
      <4>1. m.type = "cursor" /\ m.from \in Clients
        BY <3>3 DEF Cursors
      <4> QED
        BY <1>v, <1>k, <3>1, <4>1, PageUpdates DEF Received
    <3>4. CASE m \in Lists
      <4>1. m.type = "presence" /\ m.users \ {c} \in SUBSET Clients
        BY <3>4 DEF Lists
      <4>2. \A S \in SUBSET Clients : \A T :
              [view[c] EXCEPT !.collaborators = S, !.cursors = @ \cap T] \in Pages
        BY <1>v, PageUpdates
      <4>3. [view[c] EXCEPT !.collaborators = m.users \ {c},
                            !.cursors = @ \cap m.users] \in Pages
        BY <4>1, <4>2
      <4> QED
        BY <1>k, <3>1, <4>1, <4>3 DEF Received
    <3> QED
      BY <3>1, <3>2, <3>3, <3>4 DEF Fitting
  <2>6. CASE Calm(c)
    BY <1>v, <1>k, <2>6, PageUpdates DEF Calm
  <2> QED
    BY <1>p, <2>1, <2>2, <2>3, <2>4, <2>5, <2>6 DEF Page
<1>c. ASSUME NEW c \in Clients, Socket(c) PROVE ViewFits'
  BY <1>s, <1>c DEF Socket, Join, PassCursor, TakeEdit, SaveEdit, StartCast, Cast, Leave
<1>1. ASSUME NEW c \in Clients, Open(c) PROVE ViewFits'
  <2>1. disk[Root] \in Graphs
    BY <1>0, CollabAssumption DEF StoreType
  <2> QED
    BY <1>v, <1>k, <1>1, <2>1, PageUpdates DEF Open
<1>2. ASSUME NEW c \in Clients, Switch(c) PROVE ViewFits'
  <2>1. \A p \in Packages : disk[p] \in Graphs
    BY <1>0 DEF StoreType
  <2> QED
    BY <1>v, <1>k, <1>2, <2>1, PageUpdates DEF Switch
<1>3. ASSUME NEW c \in Clients, Edit(c) PROVE ViewFits'
  <2>1. Graph(view[c].pkg, edits + 1) \in Graphs
    BY <1>0, <1>v, <1>3, CollabAssumption DEF Edit, Pages, Graph, Graphs, StoreType
  <2> QED
    BY <1>v, <1>k, <1>3, <2>1, PageUpdates DEF Edit
<1>4. ASSUME NEW c \in Clients, Save(c) PROVE ViewFits'
  <2>1. Put(view[c].saveTo, view[c].canvas) \in Requests
    BY <1>v DEF Pages, Put, Requests
  <2> QED
    BY <1>v, <1>k, <1>4, <2>1, PageUpdates DEF Save
<1>5. ASSUME NEW c \in Clients, PutRefused(c) PROVE ViewFits'
  BY <1>v, <1>k, <1>5, PageUpdates DEF PutRefused
<1>6. ASSUME NEW c \in Clients, GoOffline(c) PROVE ViewFits'
  BY <1>v, <1>k, <1>6, PageUpdates DEF GoOffline
<1>7. ASSUME NEW c \in Clients, Close(c) PROVE ViewFits'
  <2>1. PICK kept \in SUBSET view[c].puts, timer \in {None, view[c].timer} :
          Show(c, [Closed("closed") EXCEPT !.puts = kept, !.timer = timer])
    BY <1>7 DEF Close
  <2>2. kept \in SUBSET Requests /\ timer \in Graphs \cup {None}
    BY <1>v DEF Pages
  <2> QED
    BY <1>k, <1>7, <2>1, <2>2, ClosedPage DEF Close
<1> QED
  BY <1>s, <1>p, <1>c, <1>1, <1>2, <1>3, <1>4, <1>5, <1>6, <1>7 DEF Next, vars, MoveCursor

-----------------------------------------------------------------------------
(* Graphs are accepted and stay so. *)
LEMMA StepStore ==
    ASSUME TypeInv, [Next]_vars
    PROVE  StoreType' /\ accepted \subseteq accepted'
<1>0. StoreType /\ ViewFits /\ TasksFit
  BY DEF TypeInv
<1>s. ASSUME UNCHANGED <<disk, accepted, edits>> PROVE StoreType' /\ accepted \subseteq accepted'
  BY <1>0, <1>s DEF StoreType
<1>1. ASSUME NEW c \in Clients, PutSaved(c) PROVE StoreType' /\ accepted \subseteq accepted'
  <2>1. PICK r \in view[c].puts :
          disk' = [disk EXCEPT ![r.pkg] = r.graph] /\ accepted' = accepted \cup {r.graph}
    BY <1>1 DEF PutSaved
  <2>2. r.graph \in Graphs
    BY <1>0 DEF ViewFits, Pages, Requests
  <2>3. edits' = edits
    BY <1>1 DEF PutSaved
  <2> QED
    BY <1>0, <2>1, <2>2, <2>3 DEF StoreType
<1>2. ASSUME NEW c \in Clients, SaveEdit(c) PROVE StoreType' /\ accepted \subseteq accepted'
  <2>1. handler[c].msg.graph \in Graphs
    BY <1>0, <1>2 DEF SaveEdit, TasksFit, Tasks, Edits
  <2> QED
    BY <1>0, <1>2, <2>1 DEF SaveEdit, StoreType
<1>3. ASSUME NEW c \in Clients, Edit(c) PROVE StoreType' /\ accepted \subseteq accepted'
  BY <1>0, <1>3, CollabAssumption DEF Edit, StoreType
<1> QED
  BY <1>s, <1>1, <1>2, <1>3 DEF Next, Page, Socket, vars, Loaded, TimerFires, PutAnswered, Receive,
     Calm, Join, PassCursor, TakeEdit, StartCast, Cast, Leave, Open, Switch, Save, PutRefused,
     MoveCursor, GoOffline, Close

(* A message that fits still does when more graphs are accepted. *)
LEMMA FittingStays ==
    ASSUME accepted \subseteq accepted'
    PROVE  Fitting \subseteq Fitting'
BY DEF Fitting, Lists, Edits, Cursors

(* A message that comes into a queue fits. *)
LEMMA StepMessages ==
    ASSUME TypeInv, [Next]_vars
    PROVE  MessagesFit'
<1>0. StoreType /\ ViewFits /\ MessagesFit /\ TasksFit
  BY DEF TypeInv
<1> DEFINE Up == Fitting' \cup Joins
           Down == Fitting'
<1>f. Fitting \subseteq Down
  BY StepStore, FittingStays
<1>u. up \in [Clients -> Seq(Up)]
  BY <1>0, <1>f DEF MessagesFit
<1>d. down \in [Clients -> Seq(Down)]
  BY <1>0, <1>f DEF MessagesFit
<1> SUFFICES up' \in [Clients -> Seq(Up)] /\ down' \in [Clients -> Seq(Down)]
  BY DEF MessagesFit, Joins
<1> HIDE DEF Up, Down
<1>s. ASSUME UNCHANGED <<up, down>>
      PROVE  up' \in [Clients -> Seq(Up)] /\ down' \in [Clients -> Seq(Down)]
  BY <1>u, <1>d, <1>s
<1>1. ASSUME NEW c \in Clients, Open(c)
      PROVE  up' \in [Clients -> Seq(Up)] /\ down' \in [Clients -> Seq(Down)]
  <2>1. Joining(c) \in Up
    BY DEF Joining, Joins, Up
  <2> QED
    BY <1>u, <1>d, <1>1, <2>1 DEF Open
<1>2. ASSUME NEW c \in Clients, PutAnswered(c)
      PROVE  up' \in [Clients -> Seq(Up)] /\ down' \in [Clients -> Seq(Down)]
  <2>1. PICK r \in view[c].puts :
          r.saved /\ (UNCHANGED up \/ up' = [up EXCEPT ![c] = Append(@, GraphEdit(c, r.graph))])
    BY <1>2 DEF PutAnswered
  <2>2. r.graph \in accepted /\ r.graph \in Graphs
    BY <1>0, <2>1 DEF ViewFits, Pages, Requests
  <2>3. GraphEdit(c, r.graph) \in Fitting
    BY <2>2 DEF GraphEdit, Fitting, Edits
  <2> DEFINE m == GraphEdit(c, r.graph)
  <2>4. m \in Up /\ UNCHANGED down
    BY <1>f, <1>2, <2>3 DEF PutAnswered, Up, Down
  <2>5. UNCHANGED up \/ up' = [up EXCEPT ![c] = Append(@, m)]
    BY <2>1
  <2> HIDE DEF m
  <2>6. Append(up[c], m) \in Seq(Up)
    BY <1>u, <2>4
  <2> QED
    BY <1>u, <1>d, <2>4, <2>5, <2>6
<1>3. ASSUME NEW c \in Clients, MoveCursor(c)
      PROVE  up' \in [Clients -> Seq(Up)] /\ down' \in [Clients -> Seq(Down)]
  <2>1. Cursor(c) \in Fitting
    BY DEF Cursor, Cursors, Fitting
  <2> QED
    BY <1>u, <1>d, <1>f, <1>3, <2>1 DEF MoveCursor, Up, Down
<1>4. ASSUME NEW c \in Clients, GoOffline(c)
      PROVE  up' \in [Clients -> Seq(Up)] /\ down' \in [Clients -> Seq(Down)]
  <2>1. PICK n \in 0..Len(up[c]) : up' = [up EXCEPT ![c] = SubSeq(@, 1, n)]
    BY <1>4 DEF GoOffline
  <2>2. SubSeq(up[c], 1, n) \in Seq(Up)
    BY <1>u
  <2> QED
    BY <1>u, <1>d, <1>4, <2>1, <2>2 DEF GoOffline
<1>5. ASSUME NEW c \in Clients, Close(c)
      PROVE  up' \in [Clients -> Seq(Up)] /\ down' \in [Clients -> Seq(Down)]
  BY <1>u, <1>d, <1>5 DEF Close
<1>6. ASSUME NEW c \in Clients, Receive(c)
      PROVE  up' \in [Clients -> Seq(Up)] /\ down' \in [Clients -> Seq(Down)]
  BY <1>u, <1>d, <1>6 DEF Receive
<1>7. ASSUME NEW c \in Clients, Join(c) \/ PassCursor(c) \/ TakeEdit(c)
      PROVE  up' \in [Clients -> Seq(Up)] /\ down' \in [Clients -> Seq(Down)]
  <2>1. up[c] # <<>> /\ up' = [up EXCEPT ![c] = Tail(@)] /\ UNCHANGED down
    BY <1>7 DEF Join, PassCursor, TakeEdit, Take, Waits
  <2>2. Tail(up[c]) \in Seq(Up)
    BY <1>u, <2>1
  <2> QED
    BY <1>u, <1>d, <2>1, <2>2
<1>8. ASSUME NEW c \in Clients, Cast(c)
      PROVE  up' \in [Clients -> Seq(Up)] /\ down' \in [Clients -> Seq(Down)]
  <2>1. handler[c].msg \in Down
    BY <1>0, <1>f, <1>8 DEF Cast, TasksFit, Tasks
  <2> DEFINE d == Head(handler[c].left)
  <2>2. UNCHANGED up
    BY <1>8 DEF Cast
  <2>3. down' = down \/ down' = [down EXCEPT ![d] = Append(@, handler[c].msg)]
    BY <1>8 DEF Cast
  <2> HIDE DEF d
  <2>4. d \in Clients => Append(down[d], handler[c].msg) \in Seq(Down)
    BY <1>d, <2>1
  <2> QED
    BY <1>u, <1>d, <2>2, <2>3, <2>4
<1> QED
  BY <1>s, <1>1, <1>2, <1>3, <1>4, <1>5, <1>6, <1>7, <1>8 DEF Next, Page, Socket, vars, Loaded,
     TimerFires, PutSaved, Calm, SaveEdit, StartCast, Leave, Switch, Edit, Save, PutRefused

-----------------------------------------------------------------------------
(* Induction: a set that holds 0 and, with every number, the next one, holds *)
(* all.                                                                      *)
LEMMA NatBySets ==
  ASSUME NEW T, 0 \in T, \A n \in Nat : n \in T => n + 1 \in T
  PROVE  Nat \subseteq T
<1> DEFINE Less == {p \in Nat \X Nat : p[1] < p[2]}
           Rest == Nat \ T
<1>1. SUFFICES ASSUME Rest # {} PROVE FALSE
  OBVIOUS
<1>2. IsWellFoundedOn(Less, Nat)
  <2>1. OpToRel(<, Nat) = Less
    BY Zenon DEF OpToRel
  <2> HIDE DEF Less
  <2> QED
    BY <2>1, NatLessThanWellFounded, Zenon
<1>3. PICK x \in Rest : \A y \in Rest : <<y, x>> \notin Less
  <2>1. Rest \subseteq Nat
    OBVIOUS
  <2> HIDE DEF Less, Rest
  <2> QED
    BY <1>1, <1>2, <2>1, WFMin
<1>4. x - 1 \in Nat /\ x - 1 \notin T
  OBVIOUS
<1>5. <<x - 1, x>> \in Less
  BY <1>4
<1> QED
  BY <1>3, <1>4, <1>5

Distinct(q) == \A i, j \in DOMAIN q : q[i] = q[j] => i = j

(* One round of Without. *)
Kept(cs, d, n, out) == IF cs[n] = d THEN out ELSE Append(out, cs[n])

(* What the first n elements of cs leave, when those equal to d are left out. *)
Leaves(cs, d, n, out) ==
  /\ out \in Seq(Clients)
  /\ ToSet(out) = {cs[i] : i \in 1..n} \ {d}
  /\ Distinct(cs) => Distinct(out)

(* What a sequence with one more element has. *)
LEMMA AppendedSet ==
  ASSUME NEW S, NEW q \in Seq(S), NEW x \in S
  PROVE  /\ Append(q, x) \in Seq(S)
         /\ ToSet(Append(q, x)) = ToSet(q) \cup {x}
         /\ Distinct(q) /\ x \notin ToSet(q) => Distinct(Append(q, x))
<1>1. \A p \in Seq(S) : /\ Append(p, x) \in Seq(S) /\ Len(Append(p, x)) = Len(p) + 1
                        /\ Append(p, x)[Len(p) + 1] = x
                        /\ \A i \in 1..Len(p) : Append(p, x)[i] = p[i]
                        /\ DOMAIN Append(p, x) = 1..(Len(p) + 1)
                        /\ DOMAIN p = 1..Len(p) /\ Len(p) \in Nat
  OBVIOUS
<1> DEFINE r == Append(q, x)
<1>2. /\ r \in Seq(S) /\ r[Len(q) + 1] = x /\ \A i \in 1..Len(q) : r[i] = q[i]
      /\ DOMAIN r = 1..(Len(q) + 1) /\ DOMAIN q = 1..Len(q) /\ Len(q) \in Nat
  BY <1>1
<1> HIDE DEF r
<1>3. ToSet(r) = ToSet(q) \cup {x}
  BY <1>2 DEF ToSet
<1>4. ASSUME Distinct(q), x \notin ToSet(q) PROVE Distinct(r)
  BY <1>2, <1>4 DEF Distinct, ToSet
<1> QED
  BY <1>2, <1>3, <1>4 DEF r

(* One round leaves one element more, unless it is d. *)
LEMMA LeavesOne ==
  ASSUME NEW cs \in Seq(Clients), NEW d, NEW n \in Nat, n + 1 <= Len(cs), NEW out,
         Leaves(cs, d, n, out)
  PROVE  Leaves(cs, d, n + 1, Kept(cs, d, n + 1, out))
<1> DEFINE x == cs[n + 1]
<1>1. x \in Clients /\ DOMAIN cs = 1..Len(cs)
  BY n + 1 \in 1..Len(cs)
<1>2. {cs[i] : i \in 1..(n + 1)} = {cs[i] : i \in 1..n} \cup {x}
  OBVIOUS
<1>3. out \in Seq(Clients) /\ ToSet(out) = {cs[i] : i \in 1..n} \ {d}
  BY DEF Leaves
<1>4. Distinct(cs) => x \notin {cs[i] : i \in 1..n}
  BY <1>1 DEF Distinct
<1> HIDE DEF x
<1>5. Kept(cs, d, n + 1, out) = IF x = d THEN out ELSE Append(out, x)
  BY DEF Kept, x
<1>6. CASE x = d
  <2>1. ToSet(out) = {cs[i] : i \in 1..(n + 1)} \ {d}
    BY <1>2, <1>3, <1>6
  <2>2. Kept(cs, d, n + 1, out) = out
    BY <1>5, <1>6
  <2>3. Distinct(cs) => Distinct(out)
    BY DEF Leaves
  <2> QED
    BY <1>3, <2>1, <2>2, <2>3 DEF Leaves
<1>7. CASE x # d
  <2>1. /\ Append(out, x) \in Seq(Clients) /\ ToSet(Append(out, x)) = ToSet(out) \cup {x}
        /\ Distinct(out) /\ x \notin ToSet(out) => Distinct(Append(out, x))
    BY <1>1, <1>3, AppendedSet
  <2>2. ToSet(Append(out, x)) = {cs[i] : i \in 1..(n + 1)} \ {d}
    BY <1>2, <1>3, <1>7, <2>1
  <2>3. Distinct(cs) => Distinct(Append(out, x))
    BY <1>3, <1>4, <2>1 DEF Leaves
  <2>4. Kept(cs, d, n + 1, out) = Append(out, x)
    BY <1>5, <1>7
  <2> QED
    BY <2>1, <2>2, <2>3, <2>4 DEF Leaves
<1> QED
  BY <1>6, <1>7

(* Without leaves the others, each as often as before. *)
LEMMA WithoutLeaves ==
  ASSUME NEW cs \in Seq(Clients), NEW d
  PROVE  /\ Without(cs, d) \in Seq(Clients)
         /\ ToSet(Without(cs, d)) = ToSet(cs) \ {d}
         /\ Distinct(cs) => Distinct(Without(cs, d))
<1> DEFINE N == Len(cs)
           Body(F, m) == [n \in 0..m |-> IF n = 0 THEN <<>>
                                         ELSE IF cs[n] = d THEN F[n - 1]
                                              ELSE Append(F[n - 1], cs[n])]
           Is(F, m) == F = Body(F, m)
           T == {m \in Nat : \E F : Is(F, m)}
           W == CHOOSE F : Is(F, N)
<1>1. \A m \in Nat : \A F : Is(F, m) =>
        /\ DOMAIN F = 0..m /\ F[0] = <<>>
        /\ \A n \in 1..m : F[n] = Kept(cs, d, n, F[n - 1])
  <2> SUFFICES ASSUME NEW F, NEW m \in Nat, Is(F, m)
               PROVE  /\ DOMAIN F = 0..m /\ F[0] = <<>>
                      /\ \A n \in 1..m : F[n] = Kept(cs, d, n, F[n - 1])
    OBVIOUS
  <2>1. DOMAIN Body(F, m) = 0..m /\ \A n \in 0..m :
          Body(F, m)[n] = IF n = 0 THEN <<>> ELSE Kept(cs, d, n, F[n - 1])
    BY DEF Kept
  <2>2. F = Body(F, m)
    OBVIOUS
  <2> HIDE DEF Body
  <2>3. DOMAIN F = 0..m /\ \A n \in 0..m : F[n] = IF n = 0 THEN <<>> ELSE Kept(cs, d, n, F[n - 1])
    BY <2>1, <2>2
  <2> QED
    BY <2>3
<1>2. 0 \in T
  <2> DEFINE F == [n \in 0..0 |-> <<>>]
  <2>1. Is(F, 0)
    OBVIOUS
  <2> HIDE DEF Is
  <2> QED
    BY <2>1
<1>3. ASSUME NEW m \in Nat, m \in T PROVE m + 1 \in T
  <2>1. PICK F : Is(F, m)
    BY <1>3
  <2> DEFINE G == [n \in 0..(m + 1) |-> IF n = m + 1 THEN Kept(cs, d, n, F[m]) ELSE F[n]]
  <2>2. F[0] = <<>> /\ \A n \in 1..m : F[n] = Kept(cs, d, n, F[n - 1])
    <3> HIDE DEF Is
    <3> QED
      BY <1>1, <2>1, Zenon
  <2>3. G[0] = <<>> /\ \A n \in 1..(m + 1) : G[n] = Kept(cs, d, n, G[n - 1])
    BY <2>2
  <2>4. G = [n \in 0..(m + 1) |-> IF n = 0 THEN <<>> ELSE Kept(cs, d, n, G[n - 1])]
    <3>1. G = [n \in 0..(m + 1) |-> G[n]]
      OBVIOUS
    <3> HIDE DEF G
    <3> QED
      BY <2>3, <3>1
  <2>5. Is(G, m + 1)
    <3> HIDE DEF G
    <3> QED
      BY <2>4 DEF Kept
  <2> HIDE DEF Is, G
  <2> QED
    BY <2>5
<1>4. Is(W, N)
  <2>1. N \in T
    <3>1. N \in Nat
      OBVIOUS
    <3> HIDE DEF T, N
    <3> QED
      BY <1>2, <1>3, <3>1, NatBySets
  <2> HIDE DEF Is
  <2> QED
    BY <2>1
<1>5. W[0] = <<>> /\ \A n \in 1..N : W[n] = Kept(cs, d, n, W[n - 1])
  <2>1. N \in Nat
    OBVIOUS
  <2> HIDE DEF Is, N, W
  <2> QED
    BY <1>1, <1>4, <2>1, Zenon
<1>6. Without(cs, d) = W[N]
  BY DEF Without
<1> DEFINE U == {n \in Nat : n <= N => Leaves(cs, d, n, W[n])}
<1> HIDE DEF W
<1>7. 0 \in U
  <2>1. <<>> \in Seq(Clients) /\ DOMAIN <<>> = {} /\ {cs[i] : i \in 1..0} = {}
    OBVIOUS
  <2>2. Leaves(cs, d, 0, <<>>)
    BY <2>1 DEF Leaves, ToSet, Distinct
  <2> QED
    BY <1>5, <2>2
<1>8. ASSUME NEW n \in Nat, n \in U PROVE n + 1 \in U
  BY <1>5, <1>8, LeavesOne
<1>9. Leaves(cs, d, N, W[N])
  <2>1. Nat \subseteq U
    <3> HIDE DEF U
    <3> QED
      BY <1>7, <1>8, NatBySets
  <2> QED
    BY <2>1
<1>10. {cs[i] : i \in 1..N} = ToSet(cs)
  BY DEF ToSet
<1> QED
  BY <1>6, <1>9, <1>10 DEF Leaves

-----------------------------------------------------------------------------
(* The steps of a socket's task. *)
LEMMA TaskUpdates ==
    ASSUME NEW t \in Tasks
    PROVE  /\ \A m \in Fitting : [t EXCEPT !.at = "list", !.msg = m] \in Tasks
           /\ \A m \in Fitting : [t EXCEPT !.at = "bye", !.msg = m] \in Tasks
           /\ \A m \in Fitting \cap Edits : [t EXCEPT !.at = "save", !.msg = m] \in Tasks
           /\ t.at \notin {"idle", "gone"} =>
                /\ [t EXCEPT !.at = "list"] \in Tasks
                /\ \A left \in Seq(Clients) \ {<<>>} :
                     [t EXCEPT !.left = left, !.at = IF t.at \in {"bye", "last"}
                                                     THEN "last" ELSE "cast"] \in Tasks
           /\ [t EXCEPT !.at = "gone"] \in Tasks
           /\ [t EXCEPT !.at = "idle"] \in Tasks
<1>1. \A m \in Fitting :
        /\ [t EXCEPT !.at = "list", !.msg = m] \in Tasks
        /\ [t EXCEPT !.at = "bye", !.msg = m] \in Tasks
  BY DEF Tasks
<1>2. \A m \in Fitting \cap Edits : [t EXCEPT !.at = "save", !.msg = m] \in Tasks
  BY DEF Tasks
<1>3. ASSUME t.at \notin {"idle", "gone"}
      PROVE  /\ [t EXCEPT !.at = "list"] \in Tasks
             /\ \A left \in Seq(Clients) \ {<<>>} :
                  [t EXCEPT !.left = left,
                            !.at = IF t.at \in {"bye", "last"} THEN "last" ELSE "cast"] \in Tasks
  <2>1. t.msg \in Fitting
    BY <1>3 DEF Tasks
  <2> DEFINE L == Seq(Clients)
  <2>2. ASSUME NEW left \in L \ {<<>>}
        PROVE  [t EXCEPT !.left = left,
                         !.at = IF t.at \in {"bye", "last"} THEN "last" ELSE "cast"] \in Tasks
    <3> HIDE DEF L
    <3> QED
      BY <1>3, <2>1, <2>2 DEF Tasks, L
  <2>3. [t EXCEPT !.at = "list"] \in Tasks
    BY <2>1 DEF Tasks
  <2> QED
    BY <2>2, <2>3
<1>4. [t EXCEPT !.at = "gone"] \in Tasks /\ [t EXCEPT !.at = "idle"] \in Tasks
  BY DEF Tasks
<1> QED
  BY <1>1, <1>2, <1>3, <1>4

(* So does what a socket's task is at. *)
LEMMA TasksStay ==
    ASSUME accepted \subseteq accepted'
    PROVE  Tasks \subseteq Tasks'
<1>1. Fitting \subseteq Fitting' /\ Edits = Edits'
  BY FittingStays DEF Edits
<1>2. SUFFICES ASSUME NEW t \in Tasks PROVE t \in Tasks'
  OBVIOUS
<1> QED
  BY <1>1 DEF Tasks

(* A task that waits holds no message. *)
LEMMA IdleFits == Idle \in Tasks
BY DEF Idle, Tasks

(* Who is in the room, and whom a message goes to, are sequences of clients. *)
LEMMA RecipientsType ==
    ASSUME RoomType, NEW m
    PROVE  Recipients(m) \in Seq(Clients)
BY WithoutLeaves DEF Recipients, RoomType

(* Clients join and leave. *)
LEMMA StepRoom ==
    ASSUME TypeInv, [Next]_vars
    PROVE  RoomType'
<1>0. members \in Seq(Clients)
  BY DEF TypeInv, RoomType
<1>s. ASSUME UNCHANGED members PROVE RoomType'
  BY <1>0, <1>s DEF RoomType
<1>1. ASSUME NEW c \in Clients, Join(c) PROVE RoomType'
  <2>1. members' = Append(members, c)
    BY <1>1 DEF Join, Announce
  <2> QED
    BY <1>0, <2>1 DEF RoomType
<1>2. ASSUME NEW c \in Clients, Leave(c) PROVE RoomType'
  <2>1. members' = Without(members, c) \/ UNCHANGED members
    BY <1>2 DEF Leave, Announce
  <2> QED
    BY <1>0, <2>1, WithoutLeaves DEF RoomType
<1> QED
  BY <1>s, <1>1, <1>2 DEF Next, Page, Socket, vars, Loaded, TimerFires, PutSaved, PutAnswered,
     Receive, Calm, PassCursor, TakeEdit, SaveEdit, StartCast, Cast, Open, Switch, Edit, Save,
     PutRefused, MoveCursor, GoOffline, Close

(* A task's message is one that it took, or a list of users. *)
LEMMA StepTasks ==
    ASSUME TypeInv, [Next]_vars
    PROVE  TasksFit'
<1>0. RoomType /\ MessagesFit /\ TasksFit /\ RoomType' /\ accepted \subseteq accepted'
  BY StepStore, StepRoom DEF TypeInv
<1>t. \A c \in Clients : handler[c] \in Tasks
  BY <1>0 DEF TasksFit
<1>v. Tasks \subseteq Tasks'
  BY <1>0, TasksStay
<1>s. ASSUME UNCHANGED handler PROVE TasksFit'
  BY <1>0, <1>s, <1>v DEF TasksFit
<1>k. ASSUME NEW c \in Clients, NEW t \in Tasks, handler' = [handler EXCEPT ![c] = t]
      PROVE  TasksFit'
  BY <1>0, <1>k, <1>v DEF TasksFit
<1>1. ASSUME NEW c \in Clients, NEW at \in {"list", "bye"},
             handler' = [handler EXCEPT ![c] = [Idle EXCEPT !.at = at, !.msg = Presence(members')]]
      PROVE  TasksFit'
  <2>1. ToSet(members') \subseteq Clients
    BY <1>0 DEF RoomType, ToSet
  <2>2. Presence(members') \in Fitting
    BY <2>1 DEF Presence, Fitting, Lists
  <2>3. [Idle EXCEPT !.at = at, !.msg = Presence(members')] \in Tasks
    BY <2>2, IdleFits, TaskUpdates
  <2> QED
    BY <1>k, <1>1, <2>3
<1>2. ASSUME NEW c \in Clients, PassCursor(c) PROVE TasksFit'
  <2>1. NextIn(c) \in Fitting
    BY <1>0, <1>2 DEF PassCursor, Waits, NextIn, MessagesFit, Joins
  <2>2. [Idle EXCEPT !.at = "list", !.msg = NextIn(c)] \in Tasks
    BY <2>1, IdleFits, TaskUpdates
  <2> QED
    BY <1>k, <1>2, <2>2 DEF PassCursor
<1>3. ASSUME NEW c \in Clients, TakeEdit(c) PROVE TasksFit'
  <2>1. NextIn(c) \in Fitting \cup Joins /\ NextIn(c).type = "graph_edit"
    BY <1>0, <1>3 DEF TakeEdit, Waits, NextIn, MessagesFit
  <2>2. NextIn(c) \in Fitting \cap Edits
    BY <2>1 DEF Joins, Fitting, Lists, Cursors
  <2>3. [Idle EXCEPT !.at = "save", !.msg = NextIn(c)] \in Tasks
    BY <2>2, IdleFits, TaskUpdates
  <2> QED
    BY <1>k, <1>3, <2>3 DEF TakeEdit
<1>4. ASSUME NEW c \in Clients, SaveEdit(c) PROVE TasksFit'
  <2>1. [handler[c] EXCEPT !.at = "list"] \in Tasks
    BY <1>t, <1>4, TaskUpdates DEF SaveEdit
  <2> QED
    BY <1>k, <1>4, <2>1 DEF SaveEdit
<1>5. ASSUME NEW c \in Clients, NEW left \in Seq(Clients), Casting(c, left),
             handler[c].at \notin {"idle", "gone"}
      PROVE  TasksFit'
  <2> DEFINE leaves == handler[c].at \in {"bye", "last"}
             next == [handler[c] EXCEPT !.left = left, !.at = IF leaves THEN "last" ELSE "cast"]
             end == [Idle EXCEPT !.at = IF leaves THEN "gone" ELSE "idle"]
  <2>1. left # <<>> => next \in Tasks
    BY <1>t, <1>5, TaskUpdates
  <2>2. end \in Tasks
    <3>1. [Idle EXCEPT !.at = "gone"] \in Tasks /\ [Idle EXCEPT !.at = "idle"] \in Tasks
      BY IdleFits, TaskUpdates
    <3> QED
      BY <3>1
  <2>3. handler' = [handler EXCEPT ![c] = IF left # <<>> THEN next ELSE end]
    BY <1>5 DEF Casting
  <2>4. (IF left # <<>> THEN next ELSE end) \in Tasks
    BY <2>1, <2>2
  <2> HIDE DEF next, end
  <2> QED
    BY <1>k, <2>3, <2>4
<1>6. ASSUME NEW c \in Clients, Leave(c) PROVE TasksFit'
  <2>1. CASE c \in ToSet(members)
    BY <1>1, <1>6, <2>1 DEF Leave
  <2>2. CASE c \notin ToSet(members)
    <3>1. [handler[c] EXCEPT !.at = "gone"] \in Tasks
      BY <1>t, TaskUpdates
    <3> QED
      BY <1>k, <1>6, <2>2, <3>1 DEF Leave
  <2> QED
    BY <2>1, <2>2
<1>7. ASSUME NEW c \in Clients, Join(c) PROVE TasksFit'
  BY <1>1, <1>7 DEF Join
<1>8. ASSUME NEW c \in Clients, StartCast(c) PROVE TasksFit'
  BY <1>0, <1>5, <1>8, RecipientsType DEF StartCast
<1>9. ASSUME NEW c \in Clients, Cast(c) PROVE TasksFit'
  <2>1. handler[c].left \in Seq(Clients) /\ handler[c].left # <<>>
    BY <1>t, <1>9 DEF Cast, Tasks
  <2>2. Tail(handler[c].left) \in Seq(Clients)
    BY <2>1
  <2> QED
    BY <1>5, <1>9, <2>2 DEF Cast
<1> QED
  BY <1>s, <1>2, <1>3, <1>4, <1>6, <1>7, <1>8, <1>9 DEF Next, Page, Socket, vars, Loaded,
     TimerFires, PutSaved, PutAnswered, Receive, Calm, Open, Switch, Edit, Save, PutRefused,
     MoveCursor, GoOffline, Close

(* What is remembered of the graphs sent and received. *)
LEMMA StepHistory ==
    ASSUME TypeInv, [Next]_vars
    PROVE  HistoryType'
<1>0. HistoryType /\ ViewFits /\ MessagesFit
  BY DEF TypeInv
<1>g. Graphs' = Graphs
  BY DEF Graphs
<1>s. ASSUME UNCHANGED <<told, heard, earlier, crossed>> PROVE HistoryType'
  BY <1>0, <1>s DEF HistoryType, Graphs
<1>1. ASSUME NEW c \in Clients, PutAnswered(c) PROVE HistoryType'
  <2>1. PICK r \in view[c].puts : UNCHANGED told \/ told' = [told EXCEPT ![c] = Append(@, r.graph)]
    BY <1>1 DEF PutAnswered
  <2>2. r.graph \in Graphs
    BY <1>0 DEF ViewFits, Pages, Requests
  <2>3. Append(told[c], r.graph) \in Seq(Graphs)
    BY <1>0, <2>2 DEF HistoryType
  <2>4. told' \in [Clients -> Seq(Graphs)]
    BY <1>0, <2>1, <2>3 DEF HistoryType
  <2>5. UNCHANGED <<heard, earlier, crossed>>
    BY <1>1 DEF PutAnswered
  <2> QED
    BY <1>0, <1>g, <2>4, <2>5 DEF HistoryType
<1>2. ASSUME NEW c \in Clients, Receive(c) PROVE HistoryType'
  <2> DEFINE m == Head(down[c])
  <2>1. m \in Fitting
    BY <1>0, <1>2 DEF Receive, MessagesFit
  <2>2. \/ UNCHANGED heard
        \/ m.type = "graph_edit" /\ heard' = [heard EXCEPT ![c][m.from] = Append(@, m.graph)]
    BY <1>2 DEF Receive
  <2> HIDE DEF m
  <2>3. ASSUME m.type = "graph_edit" PROVE m.graph \in Graphs /\ m.from \in Clients
    BY <2>1, <2>3 DEF Fitting, Edits, Cursors, Lists
  <2>4. ASSUME NEW s \in Clients, NEW g \in Graphs
        PROVE  [heard EXCEPT ![c][s] = Append(@, g)] \in [Clients -> [Clients -> Seq(Graphs)]]
    <3>1. heard[c] \in [Clients -> Seq(Graphs)] /\ Append(heard[c][s], g) \in Seq(Graphs)
      BY <1>0 DEF HistoryType
    <3> QED
      BY <1>0, <3>1 DEF HistoryType
  <2>5. UNCHANGED <<told, earlier, crossed>>
    BY <1>2 DEF Receive
  <2>6. heard' \in [Clients -> [Clients -> Seq(Graphs)]]
    <3>1. CASE UNCHANGED heard
      BY <1>0, <3>1 DEF HistoryType
    <3>2. CASE m.type = "graph_edit"
               /\ heard' = [heard EXCEPT ![c][m.from] = Append(@, m.graph)]
      <4> DEFINE g == m.graph
                 s == m.from
      <4>1. g \in Graphs /\ s \in Clients /\ heard' = [heard EXCEPT ![c][s] = Append(@, g)]
        BY <2>3, <3>2
      <4> HIDE DEF g, s
      <4> QED
        BY <2>4, <4>1
    <3> QED
      BY <2>2, <3>1, <3>2
  <2> QED
    BY <1>0, <1>g, <2>5, <2>6 DEF HistoryType
<1>3. ASSUME NEW c \in Clients, Close(c) PROVE HistoryType'
  <2>1. heard' = [heard EXCEPT ![c] = [s \in Clients |-> <<>>]] /\ UNCHANGED <<told, earlier, crossed>>
    BY <1>3 DEF Close
  <2>2. [s \in Clients |-> <<>>] \in [Clients -> Seq(Graphs)]
    OBVIOUS
  <2> QED
    BY <1>0, <1>g, <2>1, <2>2 DEF HistoryType
<1>4. ASSUME NEW c \in Clients, Join(c) \/ Leave(c) PROVE HistoryType'
  <2>1. crossed' \in BOOLEAN /\ UNCHANGED <<told, heard>>
    BY <1>0, <1>4 DEF Join, Leave, Announce, HistoryType
  <2>2. [s \in Clients |-> Len(told[s])] \in [Clients -> Nat]
    BY <1>0 DEF HistoryType
  <2>3. UNCHANGED earlier \/ earlier' = [earlier EXCEPT ![c] = [s \in Clients |-> Len(told[s])]]
    BY <1>4 DEF Join, Leave
  <2>4. earlier' \in [Clients -> [Clients -> Nat]]
    BY <1>0, <2>2, <2>3 DEF HistoryType
  <2> QED
    BY <1>0, <1>g, <2>1, <2>4 DEF HistoryType
<1> QED
  BY <1>s, <1>1, <1>2, <1>3, <1>4 DEF Next, Page, Socket, vars, Loaded, TimerFires, PutSaved, Calm,
     PassCursor, TakeEdit, SaveEdit, StartCast, Cast, Open, Switch, Edit, Save, PutRefused,
     MoveCursor, GoOffline

-----------------------------------------------------------------------------
(* The types hold in every state. *)
LEMMA StepTypes == TypeInv /\ [Next]_vars => TypeInv'
BY StepRoom, StepStore, StepView, StepMessages, StepTasks, StepHistory DEF TypeInv

(* Once a message is about a graph, a PUT has saved that graph, wherever the *)
(* message is: no page is told of a graph the server refused                 *)
(* (ProjectCanvas.tsx, handleSave and the autosave; collab.rs, broadcast).   *)
THEOREM ToldIsAccepted == Spec => []BroadcastWasAccepted
BY StepTypes, InitTypes, FittingIsAccepted, PTL DEF Spec

-----------------------------------------------------------------------------
(* The graphs of a sender among the messages of a queue: m is the next one   *)
(* of ts, of which a were counted before it and b are with it.               *)
Counted(ts, s, m, a, b) ==
  IF m.type = "graph_edit" /\ m.from = s THEN b = a + 1 /\ b <= Len(ts) /\ m.graph = ts[b]
                                         ELSE b = a
Sent(ts, s, q, a, b) ==
  \E w \in [1..(Len(q) + 1) -> Nat] :
    /\ w[1] = a /\ w[Len(q) + 1] = b
    /\ \A i \in 1..Len(q) : Counted(ts, s, q[i], w[i], w[i + 1])

(* What a page shows of the others once it received m, and all that is in q. *)
Screened(c, m, a) ==
  IF m.type = "presence"
  THEN [collaborators |-> m.users \ {c}, cursors |-> a.cursors \cap m.users]
  ELSE IF m.type = "cursor" THEN [a EXCEPT !.cursors = @ \cup {m.from}] ELSE a
Shows(c, q, a, b) ==
  \E w : /\ w[1] = a /\ w[Len(q) + 1] = b
         /\ \A i \in 1..Len(q) : w[i + 1] = Screened(c, q[i], w[i])

(* What tail, beginning and one more element of a queue are. *)
LEMMA Queues ==
  ASSUME NEW M, NEW q \in Seq(M)
  PROVE  /\ Len(q) \in Nat
         /\ \A m \in M : /\ Append(q, m) \in Seq(M) /\ Len(Append(q, m)) = Len(q) + 1
                         /\ Append(q, m)[Len(q) + 1] = m
                         /\ \A i \in 1..Len(q) : Append(q, m)[i] = q[i]
         /\ q # <<>> => /\ Tail(q) \in Seq(M) /\ Len(q) >= 1 /\ Len(Tail(q)) = Len(q) - 1
                        /\ Head(q) = q[1]
                        /\ \A i \in 1..(Len(q) - 1) : Tail(q)[i] = q[i + 1]
         /\ \A n \in 0..Len(q) : /\ SubSeq(q, 1, n) \in Seq(M) /\ Len(SubSeq(q, 1, n)) = n
                                 /\ \A i \in 1..n : SubSeq(q, 1, n)[i] = q[i]
OBVIOUS

(* An empty queue. *)
LEMMA SentNone ==
  ASSUME NEW ts, NEW s, NEW a \in Nat, NEW b \in Nat
  PROVE  Sent(ts, s, <<>>, a, b) <=> a = b
<1>1. Len(<<>>) = 0
  OBVIOUS
<1>2. ASSUME Sent(ts, s, <<>>, a, b) PROVE a = b
  BY <1>1, <1>2 DEF Sent
<1>3. ASSUME a = b PROVE Sent(ts, s, <<>>, a, b)
  <2> DEFINE w == [i \in 1..1 |-> a]
  <2>1. w \in [1..(0 + 1) -> Nat] /\ w[1] = a
    OBVIOUS
  <2> HIDE DEF w
  <2> QED
    BY <1>1, <1>3, <2>1 DEF Sent
<1> QED
  BY <1>2, <1>3

(* One more message. *)
LEMMA SentMore ==
  ASSUME NEW M, NEW q \in Seq(M), NEW m \in M, NEW ts, NEW s, NEW a, NEW b, NEW c \in Nat,
         Sent(ts, s, q, a, b), Counted(ts, s, m, b, c)
  PROVE  Sent(ts, s, Append(q, m), a, c)
<1> DEFINE n == Len(q)
           r == Append(q, m)
<1>1. n \in Nat /\ Len(r) = n + 1 /\ r[n + 1] = m /\ \A i \in 1..n : r[i] = q[i]
  BY Queues
<1>2. PICK w \in [1..(n + 1) -> Nat] :
        w[1] = a /\ w[n + 1] = b /\ \A i \in 1..n : Counted(ts, s, q[i], w[i], w[i + 1])
  BY DEF Sent
<1> DEFINE v == [i \in 1..((n + 1) + 1) |-> IF i = (n + 1) + 1 THEN c ELSE w[i]]
<1> HIDE DEF n, r
<1>3. v \in [1..((n + 1) + 1) -> Nat] /\ v[1] = a /\ v[(n + 1) + 1] = c
  BY <1>1, <1>2
<1>4. \A i \in 1..(n + 1) : v[i] = w[i]
  BY <1>1
<1> HIDE DEF v
<1>5. ASSUME NEW i \in 1..(n + 1) PROVE Counted(ts, s, r[i], v[i], v[i + 1])
  <2>1. CASE i = n + 1
    BY <1>1, <1>2, <1>3, <1>4, <2>1
  <2>2. CASE i \in 1..n
    <3>1. i + 1 \in 1..(n + 1)
      BY <1>1, <2>2
    <3> QED
      BY <1>1, <1>2, <1>4, <2>2, <3>1
  <2> QED
    BY <1>1, <2>1, <2>2
<1>6. \E x \in [1..(Len(r) + 1) -> Nat] :
        x[1] = a /\ x[Len(r) + 1] = c /\ \A i \in 1..Len(r) : Counted(ts, s, r[i], x[i], x[i + 1])
  BY <1>1, <1>3, <1>5
<1> QED
  BY <1>6 DEF Sent, r

(* The first message is taken. *)
LEMMA SentFirst ==
  ASSUME NEW M, NEW q \in Seq(M), q # <<>>, NEW ts, NEW s, NEW a, NEW b, Sent(ts, s, q, a, b)
  PROVE  \E c \in Nat : Counted(ts, s, Head(q), a, c) /\ Sent(ts, s, Tail(q), c, b)
<1> DEFINE n == Len(q)
           r == Tail(q)
<1>1. /\ n \in Nat /\ n >= 1 /\ Len(r) = n - 1 /\ Head(q) = q[1]
      /\ \A i \in 1..(n - 1) : r[i] = q[i + 1]
  BY Queues
<1>2. PICK w \in [1..(n + 1) -> Nat] :
        w[1] = a /\ w[n + 1] = b /\ \A i \in 1..n : Counted(ts, s, q[i], w[i], w[i + 1])
  BY DEF Sent
<1> DEFINE v == [i \in 1..n |-> w[i + 1]]
<1> HIDE DEF n, r
<1>3. v \in [1..n -> Nat] /\ v[1] = w[2] /\ v[n] = b
  BY <1>1, <1>2
<1>4. \A i \in 1..n : v[i] = w[i + 1]
  OBVIOUS
<1> HIDE DEF v
<1>5. ASSUME NEW i \in 1..(n - 1) PROVE Counted(ts, s, r[i], v[i], v[i + 1])
  <2>1. i + 1 \in 1..n /\ i \in 1..n
    BY <1>1
  <2> QED
    BY <1>1, <1>2, <1>4, <2>1
<1>6. n = Len(r) + 1
  BY <1>1
<1>7. Sent(ts, s, r, w[2], b)
  BY <1>1, <1>3, <1>5, <1>6 DEF Sent
<1>8. w[2] \in Nat /\ Counted(ts, s, Head(q), a, w[2])
  BY <1>1, <1>2
<1> QED
  BY <1>7, <1>8 DEF r

(* The last messages are lost. *)
LEMMA SentPart ==
  ASSUME NEW M, NEW q \in Seq(M), NEW n \in 0..Len(q), NEW ts, NEW s, NEW a, NEW b,
         Sent(ts, s, q, a, b)
  PROVE  \E c \in Nat : Sent(ts, s, SubSeq(q, 1, n), a, c)
<1> DEFINE r == SubSeq(q, 1, n)
<1>1. Len(q) \in Nat /\ Len(r) = n /\ \A i \in 1..n : r[i] = q[i]
  BY Queues
<1>2. PICK w \in [1..(Len(q) + 1) -> Nat] :
        w[1] = a /\ \A i \in 1..Len(q) : Counted(ts, s, q[i], w[i], w[i + 1])
  BY DEF Sent
<1> DEFINE v == [i \in 1..(n + 1) |-> w[i]]
<1> HIDE DEF r
<1>3. v \in [1..(n + 1) -> Nat] /\ v[1] = a /\ \A i \in 1..(n + 1) : v[i] = w[i]
  BY <1>1, <1>2
<1> HIDE DEF v
<1>4. ASSUME NEW i \in 1..n PROVE Counted(ts, s, r[i], v[i], v[i + 1])
  BY <1>1, <1>2, <1>3, i \in 1..Len(q), i + 1 \in 1..(n + 1), i \in 1..(n + 1)
<1>5. v[n + 1] \in Nat
  BY <1>1, <1>3
<1>6. Sent(ts, s, r, a, v[n + 1])
  BY <1>1, <1>3, <1>4 DEF Sent
<1> QED
  BY <1>5, <1>6 DEF r

(* The sender sends one more, elsewhere. *)
LEMMA SentOn ==
  ASSUME NEW G, NEW ts \in Seq(G), NEW g \in G, NEW s, NEW q, NEW a, NEW b, Len(q) \in Nat,
         Sent(ts, s, q, a, b)
  PROVE  Sent(Append(ts, g), s, q, a, b)
<1> DEFINE us == Append(ts, g)
<1>1. Len(ts) \in Nat /\ Len(us) = Len(ts) + 1 /\ \A i \in 1..Len(ts) : us[i] = ts[i]
  BY Queues
<1> HIDE DEF us
<1>2. PICK w \in [1..(Len(q) + 1) -> Nat] :
        w[1] = a /\ w[Len(q) + 1] = b /\ \A i \in 1..Len(q) : Counted(ts, s, q[i], w[i], w[i + 1])
  BY DEF Sent
<1>3. ASSUME NEW m, NEW i \in Nat, NEW j, Counted(ts, s, m, i, j) PROVE Counted(us, s, m, i, j)
  BY <1>1, <1>3 DEF Counted
<1>4. \A i \in 1..Len(q) : w[i] \in Nat
  BY <1>2
<1> QED
  BY <1>2, <1>3, <1>4 DEF Sent, us

(* The same for what a page shows. *)
LEMMA ShowsNone ==
  ASSUME NEW c, NEW a, NEW b
  PROVE  Shows(c, <<>>, a, b) <=> a = b
<1>1. Len(<<>>) = 0
  OBVIOUS
<1>2. ASSUME Shows(c, <<>>, a, b) PROVE a = b
  BY <1>1, <1>2 DEF Shows
<1>3. ASSUME a = b PROVE Shows(c, <<>>, a, b)
  <2> DEFINE w == [i \in 1..1 |-> a]
  <2>1. w[1] = a
    OBVIOUS
  <2> HIDE DEF w
  <2> QED
    BY <1>1, <1>3, <2>1 DEF Shows
<1> QED
  BY <1>2, <1>3

(* One more message ... *)
LEMMA ShowsMore ==
  ASSUME NEW M, NEW q \in Seq(M), NEW m \in M, NEW c, NEW a, NEW b, Shows(c, q, a, b)
  PROVE  Shows(c, Append(q, m), a, Screened(c, m, b))
<1> DEFINE n == Len(q)
           r == Append(q, m)
           d == Screened(c, m, b)
<1>1. n \in Nat /\ Len(r) = n + 1 /\ r[n + 1] = m /\ \A i \in 1..n : r[i] = q[i]
  BY Queues
<1>2. PICK w : w[1] = a /\ w[n + 1] = b /\ \A i \in 1..n : w[i + 1] = Screened(c, q[i], w[i])
  BY DEF Shows
<1> DEFINE v == [i \in 1..((n + 1) + 1) |-> IF i = (n + 1) + 1 THEN d ELSE w[i]]
<1> HIDE DEF n, r, d
<1>3. v[1] = a /\ v[(n + 1) + 1] = d /\ \A i \in 1..(n + 1) : v[i] = w[i]
  BY <1>1, <1>2
<1> HIDE DEF v
<1>4. ASSUME NEW i \in 1..(n + 1) PROVE v[i + 1] = Screened(c, r[i], v[i])
  <2>1. CASE i = n + 1
    BY <1>1, <1>2, <1>3, <2>1 DEF d
  <2>2. CASE i \in 1..n
    <3>1. i + 1 \in 1..(n + 1)
      BY <1>1, <2>2
    <3> QED
      BY <1>1, <1>2, <1>3, <2>2, <3>1
  <2> QED
    BY <1>1, <2>1, <2>2
<1>5. Shows(c, r, a, d)
  BY <1>1, <1>3, <1>4 DEF Shows
<1> QED
  BY <1>5 DEF r, d

(* ... and the first one taken. *)
LEMMA ShowsFirst ==
  ASSUME NEW M, NEW q \in Seq(M), q # <<>>, NEW c, NEW a, NEW b, Shows(c, q, a, b)
  PROVE  Shows(c, Tail(q), Screened(c, Head(q), a), b)
<1> DEFINE n == Len(q)
           r == Tail(q)
<1>1. /\ n \in Nat /\ n >= 1 /\ Len(r) = n - 1 /\ Head(q) = q[1]
      /\ \A i \in 1..(n - 1) : r[i] = q[i + 1]
  BY Queues
<1>2. PICK w : w[1] = a /\ w[n + 1] = b /\ \A i \in 1..n : w[i + 1] = Screened(c, q[i], w[i])
  BY DEF Shows
<1> DEFINE v == [i \in 1..n |-> w[i + 1]]
<1> HIDE DEF n, r
<1>3. \A i \in 1..n : v[i] = w[i + 1]
  OBVIOUS
<1> HIDE DEF v
<1>4. v[1] = Screened(c, Head(q), a) /\ v[n] = b
  BY <1>1, <1>2, <1>3
<1>5. ASSUME NEW i \in 1..(n - 1) PROVE v[i + 1] = Screened(c, r[i], v[i])
  <2>1. i + 1 \in 1..n /\ i \in 1..n
    BY <1>1
  <2> QED
    BY <1>1, <1>2, <1>3, <2>1
<1>6. n = Len(r) + 1
  BY <1>1
<1>7. Shows(c, r, v[1], b)
  BY <1>4, <1>5, <1>6 DEF Shows
<1> QED
  BY <1>4, <1>7 DEF r

-----------------------------------------------------------------------------
(* A page has received the graphs h of a sender: those of ts up to the n-th. *)
Stretch(ts, h, n) ==
  /\ Len(h) <= n /\ n <= Len(ts)
  /\ \A i \in 1..Len(h) : h[i] = ts[(n - Len(h)) + i]

(* ... and q is on its way to it. A page that is in the room will have got   *)
(* the k graphs that the sender's task took, but the last if it is pending   *)
(* and the first b.                                                          *)
Incoming(ts, h, q, s, k, live, pending, b) ==
  \E n, e \in Nat :
    /\ Stretch(ts, h, n)
    /\ Sent(ts, s, q, n, e)
    /\ live => (pending => e + 1 = k) /\ (~pending => e = k) /\ n <= b + Len(h)

(* The sender tells one more. *)
LEMMA IncomingTold ==
  ASSUME NEW G, NEW ts \in Seq(G), NEW g \in G, NEW h \in Seq(G), NEW q, Len(q) \in Nat, NEW s,
         NEW k, NEW live, NEW pending, NEW b \in Nat, Incoming(ts, h, q, s, k, live, pending, b)
  PROVE  Incoming(Append(ts, g), h, q, s, k, live, pending, b)
<1>1. PICK n \in Nat, e \in Nat :
        /\ Stretch(ts, h, n) /\ Sent(ts, s, q, n, e)
        /\ live => (pending => e + 1 = k) /\ (~pending => e = k) /\ n <= b + Len(h)
  BY Zenon DEF Incoming
<1>2. Stretch(Append(ts, g), h, n)
  BY <1>1 DEF Stretch
<1>3. Sent(Append(ts, g), s, q, n, e)
  BY <1>1, SentOn
<1> QED
  BY <1>1, <1>2, <1>3, Zenon DEF Incoming

(* The page receives the first message. *)
LEMMA IncomingRead ==
  ASSUME NEW G, NEW ts \in Seq(G), NEW h \in Seq(G), NEW M, NEW q \in Seq(M), q # <<>>, NEW s,
         NEW k, NEW live, NEW pending, NEW b \in Nat, Incoming(ts, h, q, s, k, live, pending, b)
  PROVE  Incoming(ts, IF Head(q).type = "graph_edit" /\ Head(q).from = s
                      THEN Append(h, Head(q).graph) ELSE h, Tail(q), s, k, live, pending, b)
<1> DEFINE m == Head(q)
           h2 == IF m.type = "graph_edit" /\ m.from = s THEN Append(h, m.graph) ELSE h
<1>1. PICK n \in Nat, e \in Nat :
        /\ Stretch(ts, h, n) /\ Sent(ts, s, q, n, e)
        /\ live => (pending => e + 1 = k) /\ (~pending => e = k) /\ n <= b + Len(h)
  BY Zenon DEF Incoming
<1>2. PICK c \in Nat : Counted(ts, s, m, n, c) /\ Sent(ts, s, Tail(q), c, e)
  BY <1>1, SentFirst
<1> HIDE DEF m
<1>3. Stretch(ts, h2, c) /\ ((c = n + 1 /\ Len(h2) = Len(h) + 1) \/ (c = n /\ h2 = h))
  <2>1. CASE m.type = "graph_edit" /\ m.from = s
    <3>1. c = n + 1 /\ c <= Len(ts) /\ m.graph = ts[c] /\ Len(ts) \in Nat
      BY <1>2, <2>1 DEF Counted
    <3>2. ts[c] \in G
      BY <3>1
    <3>3. /\ Len(h) \in Nat /\ Len(Append(h, ts[c])) = Len(h) + 1
          /\ Append(h, ts[c])[Len(h) + 1] = ts[c]
          /\ \A i \in 1..Len(h) : Append(h, ts[c])[i] = h[i]
      BY <3>2, Queues
    <3> DEFINE hh == Append(h, ts[c])
    <3> HIDE DEF hh
    <3>4. Len(h) <= n /\ n <= Len(ts) /\ \A i \in 1..Len(h) : h[i] = ts[(n - Len(h)) + i]
      BY <1>1 DEF Stretch
    <3>5. /\ Len(hh) = Len(h) + 1 /\ hh[Len(h) + 1] = ts[c]
          /\ \A i \in 1..Len(h) : hh[i] = h[i]
      BY <3>3 DEF hh
    <3>6. ASSUME NEW i \in 1..Len(hh) PROVE hh[i] = ts[(c - Len(hh)) + i]
      <4>1. CASE i = Len(h) + 1
        BY <3>1, <3>3, <3>5, <4>1, (c - Len(hh)) + i = c
      <4>2. CASE i \in 1..Len(h)
        BY <3>1, <3>3, <3>4, <3>5, <4>2, (c - Len(hh)) + i = (n - Len(h)) + i
      <4> QED
        BY <3>3, <3>5, <4>1, <4>2
    <3>7. h2 = hh
      BY <2>1, <3>1 DEF hh
    <3> HIDE DEF h2
    <3> QED
      BY <3>1, <3>3, <3>4, <3>5, <3>6, <3>7 DEF Stretch
  <2>2. CASE ~(m.type = "graph_edit" /\ m.from = s)
    <3>1. c = n /\ h2 = h
      BY <1>2, <2>2 DEF Counted
    <3> QED
      BY <1>1, <3>1
  <2> QED
    BY <2>1, <2>2
<1> HIDE DEF h2
<1>4. live => (pending => e + 1 = k) /\ (~pending => e = k) /\ c <= b + Len(h2)
  <2>1. n <= b + Len(h) => c <= b + Len(h2)
    <3>1. Len(h) \in Nat
      OBVIOUS
    <3>2. CASE c = n + 1 /\ Len(h2) = Len(h) + 1
      BY <3>1, <3>2
    <3>3. CASE c = n /\ h2 = h
      BY <3>3
    <3> QED
      BY <1>3, <3>2, <3>3
  <2> QED
    BY <1>1, <2>1
<1>5. Incoming(ts, h2, Tail(q), s, k, live, pending, b)
  BY <1>2, <1>3, <1>4, Zenon DEF Incoming
<1> QED
  BY <1>5 DEF h2, m

(* The page is sent a message that is no graph of s. *)
LEMMA IncomingOther ==
  ASSUME NEW ts, NEW h, NEW M, NEW q \in Seq(M), NEW m \in M, NEW s,
         NEW k, NEW live, NEW pending, NEW b \in Nat, Incoming(ts, h, q, s, k, live, pending, b),
         ~(m.type = "graph_edit" /\ m.from = s)
  PROVE  Incoming(ts, h, Append(q, m), s, k, live, pending, b)
<1>1. PICK n \in Nat, e \in Nat :
        /\ Stretch(ts, h, n) /\ Sent(ts, s, q, n, e)
        /\ live => (pending => e + 1 = k) /\ (~pending => e = k) /\ n <= b + Len(h)
  BY Zenon DEF Incoming
<1>2. Counted(ts, s, m, e, e)
  BY DEF Counted
<1>3. Sent(ts, s, Append(q, m), n, e)
  BY <1>1, <1>2, SentMore
<1> QED
  BY <1>1, <1>3, Zenon DEF Incoming

(* The page is sent the graph that was pending. *)
LEMMA IncomingEdit ==
  ASSUME NEW ts, NEW h, NEW M, NEW q \in Seq(M), NEW m \in M, NEW s,
         NEW k \in Nat, NEW live, live, NEW pending, pending, NEW b \in Nat,
         Incoming(ts, h, q, s, k, live, pending, b),
         m.type = "graph_edit", m.from = s, m.graph = ts[k], k <= Len(ts)
  PROVE  Incoming(ts, h, Append(q, m), s, k, live, FALSE, b)
<1>1. PICK n \in Nat, e \in Nat : Stretch(ts, h, n) /\ Sent(ts, s, q, n, e) /\ e + 1 = k /\ n <= b + Len(h)
  BY Zenon DEF Incoming
<1>2. Counted(ts, s, m, e, k)
  BY <1>1 DEF Counted
<1>3. Sent(ts, s, Append(q, m), n, k)
  BY <1>1, <1>2, SentMore
<1> QED
  BY <1>1, <1>3, Zenon DEF Incoming

(* The page is not connected: nothing is on its way. *)
LEMMA IncomingNone ==
  ASSUME NEW ts, NEW h, NEW q, NEW s, NEW k, NEW live, NEW pending, NEW b \in Nat,
         Incoming(ts, h, q, s, k, live, pending, b), NEW j, NEW p, NEW b2
  PROVE  Incoming(ts, h, <<>>, s, j, FALSE, p, b2)
<1>1. PICK n \in Nat, e \in Nat : Stretch(ts, h, n) /\ Sent(ts, s, q, n, e)
  BY Zenon DEF Incoming
<1>2. Sent(ts, s, <<>>, n, n)
  BY SentNone
<1> QED
  BY <1>1, <1>2, Zenon DEF Incoming

(* A page that has received nothing, when it joins or is closed. *)
LEMMA IncomingFresh ==
  ASSUME NEW ts, Len(ts) \in Nat, NEW s, NEW k \in Nat, k <= Len(ts),
         NEW live, NEW pending \in BOOLEAN, pending => k > 0, NEW b \in Nat, live => k <= b
  PROVE  Incoming(ts, <<>>, <<>>, s, k, live, pending, b)
<1> DEFINE n == IF pending THEN k - 1 ELSE k
<1>1. n \in Nat /\ n <= Len(ts) /\ (pending => n + 1 = k) /\ (~pending => n = k)
      /\ n <= k
  OBVIOUS
<1> HIDE DEF n
<1>2. Len(<<>>) = 0
  OBVIOUS
<1>3. Stretch(ts, <<>>, n)
  BY <1>1, <1>2 DEF Stretch
<1>4. Sent(ts, s, <<>>, n, n)
  BY <1>1, SentNone
<1>5. live => (pending => n + 1 = k) /\ (~pending => n = k) /\ n <= b + Len(<<>>)
  BY <1>1, <1>2
<1> QED
  BY <1>1, <1>3, <1>4, <1>5, Zenon DEF Incoming

(* What was received, as EditsInOrder says it. *)
LEMMA StretchIsPart ==
  ASSUME NEW G, NEW ts \in Seq(G), NEW h \in Seq(G), NEW n \in Nat, Stretch(ts, h, n)
  PROVE  \E i \in 1..(1 + Len(ts) - Len(h)) : h = SubSeq(ts, i, i + Len(h) - 1)
<1> DEFINE i == (n - Len(h)) + 1
<1>1. /\ Len(h) <= n /\ n <= Len(ts) /\ Len(h) \in Nat /\ Len(ts) \in Nat
      /\ \A j \in 1..Len(h) : h[j] = ts[(n - Len(h)) + j]
  BY DEF Stretch
<1>2. i \in 1..(1 + Len(ts) - Len(h)) /\ i + Len(h) - 1 = n
  BY <1>1
<1>3. h = SubSeq(ts, i, n)
  <2> DEFINE r == SubSeq(ts, i, n)
  <2>1. r \in Seq(G) /\ Len(r) = Len(h) /\ \A j \in 1..Len(h) : r[j] = ts[(n - Len(h)) + j]
    BY <1>1, <1>2
  <2> HIDE DEF r, i
  <2>2. \A j \in 1..Len(h) : r[j] = h[j]
    BY <1>1, <2>1
  <2>3. h = r
    BY <2>1, <2>2
  <2> QED
    BY <2>3 DEF r
<1> HIDE DEF i
<1> QED
  BY <1>2, <1>3

(* ... and when it reaches to the end, as EditsReachPeers does. *)
LEMMA StretchIsSuffix ==
  ASSUME NEW G, NEW ts \in Seq(G), NEW h \in Seq(G), Stretch(ts, h, Len(ts))
  PROVE  IsSuffix(h, ts)
<1> DEFINE a == Reverse(h)
           b == Reverse(ts)
           n == Len(h)
           m == Len(ts)
<1>1. n \in Nat /\ m \in Nat /\ n <= m /\ \A i \in 1..n : h[i] = ts[(m - n) + i]
  BY DEF Stretch
<1>2. /\ \A i \in 1..n : h[(n - i) + 1] \in G
      /\ \A i \in 1..m : ts[(m - i) + 1] \in G
  BY <1>1
<1>3. /\ a \in Seq(G) /\ Len(a) = n /\ \A i \in 1..n : a[i] = h[(n - i) + 1]
      /\ b \in Seq(G) /\ Len(b) = m /\ \A i \in 1..m : b[i] = ts[(m - i) + 1]
  BY <1>1, <1>2 DEF Reverse
<1> HIDE DEF a, b, n, m
<1>4. \A i \in 1..n : a[i] = b[i]
  <2> SUFFICES ASSUME NEW i \in 1..n PROVE a[i] = b[i]
    OBVIOUS
  <2>1. (n - i) + 1 \in 1..n /\ (m - n) + ((n - i) + 1) = (m - i) + 1 /\ i \in 1..m
    BY <1>1
  <2>2. h[(n - i) + 1] = ts[(m - n) + ((n - i) + 1)]
    BY <1>1, <2>1
  <2> QED
    BY <1>3, <2>1, <2>2
<1>5. SubSeq(a, 1, n) = SubSeq(b, 1, n)
  <2> DEFINE x == SubSeq(a, 1, n)
             y == SubSeq(b, 1, n)
  <2>1. x \in Seq(G) /\ Len(x) = n /\ \A i \in 1..n : x[i] = a[i]
    BY <1>1, <1>3
  <2>2. y \in Seq(G) /\ Len(y) = n /\ \A i \in 1..n : y[i] = b[i]
    BY <1>1, <1>3
  <2> HIDE DEF x, y
  <2>3. x = y
    BY <1>4, <2>1, <2>2
  <2> QED
    BY <2>3 DEF x, y
<1>6. IsPrefix(a, b)
  BY <1>1, <1>3, <1>5 DEF IsPrefix
<1> QED
  BY <1>6 DEF IsSuffix, a, b

-----------------------------------------------------------------------------
(* The steps again, by what they change of the room: whether a page is       *)
(* there, what it shows of the others, and the queues and tasks.             *)
Tab(c) == view[c].tab
Screen(c) == [collaborators |-> view[c].collaborators, cursors |-> view[c].cursors]
Same(c) == Tab(c)' = Tab(c) /\ Screen(c)' = Screen(c)
AllSame == \A d \in Clients : Same(d)
OthersSame(c) == \A d \in Clients \ {c} : Same(d)

(* What a page becomes by the steps that the room does not see. *)
LEMMA PageKeeps ==
    ASSUME ViewFits, NEW c \in Clients, NEW page, Show(c, page)
    PROVE  /\ OthersSame(c)
           /\ Tab(c)' = page.tab
           /\ Screen(c)' = [collaborators |-> page.collaborators, cursors |-> page.cursors]
<1>1. view \in [Clients -> Pages] /\ view' = [view EXCEPT ![c] = page]
  BY DEF ViewFits, Show
<1>2. view'[c] = page /\ \A d \in Clients \ {c} : view'[d] = view[d]
  BY <1>1
<1> QED
  BY <1>2 DEF OthersSame, Same, Tab, Screen

(* Nothing that the room sees changes. *)
Quiet == UNCHANGED <<up, down, members, handler, told, heard, earlier, crossed>> /\ AllSame

(* A page with the same tab and the same users and cursors. *)
LEMMA PageQuiet ==
    ASSUME ViewFits, NEW c \in Clients, NEW page, Show(c, page),
           page.tab = view[c].tab, page.collaborators = view[c].collaborators,
           page.cursors = view[c].cursors
    PROVE  AllSame
BY PageKeeps DEF AllSame, OthersSame, Same, Tab, Screen

(* The steps of a page by itself. *)
LEMMA QuietSteps ==
    ASSUME TypeInv, NEW c \in Clients,
           \/ Loaded(c) \/ TimerFires(c) \/ PutSaved(c) \/ PutRefused(c) \/ Calm(c)
           \/ Switch(c) \/ Edit(c) \/ Save(c)
    PROVE  Quiet
<1>0. ViewFits /\ view[c] \in Pages
  BY DEF TypeInv, ViewFits
<1>1. UNCHANGED <<up, down, members, handler, told, heard, earlier, crossed>>
  BY DEF Loaded, TimerFires, PutSaved, PutRefused, Calm, Switch, Edit, Save
<1> DEFINE Like(page) == /\ page.tab = view[c].tab
                         /\ page.collaborators = view[c].collaborators
                         /\ page.cursors = view[c].cursors
<1>2. \E page : Show(c, page) /\ Like(page)
  <2>1. CASE Loaded(c)
    <3> DEFINE page == [view[c] EXCEPT !.canvas = view[c].load, !.load = None,
                                   !.saveTo = view[c].pkg]
    <3>s. Show(c, page)
      BY <2>1 DEF Loaded
    <3>l. Like(page)
      BY <1>0 DEF Pages
    <3> HIDE DEF page, Like
    <3> QED
      BY <3>s, <3>l
  <2>2. CASE TimerFires(c)
    <3> DEFINE page == [view[c] EXCEPT !.timer = None, !.saving = TRUE,
                                   !.puts = @ \cup {Put(Root, view[c].timer)}]
    <3>s. Show(c, page)
      BY <2>2 DEF TimerFires
    <3>l. Like(page)
      BY <1>0 DEF Pages
    <3> HIDE DEF page, Like
    <3> QED
      BY <3>s, <3>l
  <2>3. CASE PutSaved(c)
    <3>1. PICK r \in view[c].puts :
            Show(c, [view[c] EXCEPT !.puts = (@ \ {r}) \cup {[r EXCEPT !.saved = TRUE]}])
      BY <2>3 DEF PutSaved
    <3> DEFINE S == (view[c].puts \ {r}) \cup {[r EXCEPT !.saved = TRUE]}
               page == [view[c] EXCEPT !.puts = S]
    <3>s. Show(c, page)
      BY <3>1
    <3> HIDE DEF S
    <3>l. Like(page)
      BY <1>0 DEF Pages
    <3> HIDE DEF page, Like
    <3> QED
      BY <3>s, <3>l
  <2>4. CASE PutRefused(c)
    <3>1. PICK r \in view[c].puts :
            Show(c, [view[c] EXCEPT !.puts = @ \ {r}, !.saving = FALSE])
      BY <2>4 DEF PutRefused
    <3> DEFINE page == [view[c] EXCEPT !.puts = @ \ {r}, !.saving = FALSE]
    <3>s. Show(c, page)
      BY <3>1
    <3>l. Like(page)
      BY <1>0 DEF Pages
    <3> HIDE DEF page, Like
    <3> QED
      BY <3>s, <3>l
  <2>5. CASE Calm(c)
    <3> DEFINE page == [view[c] EXCEPT !.remote = FALSE]
    <3>s. Show(c, page)
      BY <2>5 DEF Calm
    <3>l. Like(page)
      BY <1>0 DEF Pages
    <3> HIDE DEF page, Like
    <3> QED
      BY <3>s, <3>l
  <2>6. CASE Switch(c)
    <3>1. PICK p : Show(c, [view[c] EXCEPT !.pkg = p, !.load = disk[p]])
      BY <2>6 DEF Switch
    <3> DEFINE page == [view[c] EXCEPT !.pkg = p, !.load = disk[p]]
    <3>s. Show(c, page)
      BY <3>1
    <3>l. Like(page)
      BY <1>0 DEF Pages
    <3> HIDE DEF page, Like
    <3> QED
      BY <3>s, <3>l
  <2>7. CASE Edit(c)
    <3> DEFINE g == Graph(view[c].pkg, edits + 1)
               t == IF view[c].remote THEN view[c].timer ELSE g
               b == view[c].remote /\ view[c].saving
               page == [view[c] EXCEPT !.canvas = g, !.saveTo = view[c].pkg, !.timer = t,
                                       !.saving = b]
    <3>s. Show(c, page)
      BY <2>7 DEF Edit
    <3> HIDE DEF g, t, b
    <3>l. Like(page)
      BY <1>0 DEF Pages
    <3> HIDE DEF page, Like
    <3> QED
      BY <3>s, <3>l
  <2>8. CASE Save(c)
    <3> DEFINE page == [view[c] EXCEPT !.timer = None, !.saving = TRUE,
                                   !.puts = @ \cup {Put(view[c].saveTo, view[c].canvas)}]
    <3>s. Show(c, page)
      BY <2>8 DEF Save
    <3>l. Like(page)
      BY <1>0 DEF Pages
    <3> HIDE DEF page, Like
    <3> QED
      BY <3>s, <3>l
  <2> QED
    BY <2>1, <2>2, <2>3, <2>4, <2>5, <2>6, <2>7, <2>8
<1>3. AllSame
  BY <1>0, <1>2, PageQuiet
<1> QED
  BY <1>1, <1>3 DEF Quiet

(* A page opens. *)
LEMMA OpenStep ==
    ASSUME TypeInv, NEW c \in Clients, Open(c)
    PROVE  /\ Tab(c) = "new" /\ Tab(c)' = "open" /\ Screen(c)' = Screen(c) /\ OthersSame(c)
           /\ up' = [up EXCEPT ![c] = <<Joining(c)>>]
           /\ UNCHANGED <<down, members, handler, told, heard, earlier, crossed>>
<1>0. ViewFits /\ view[c] \in Pages
  BY DEF TypeInv, ViewFits
<1>1. /\ view[c].tab = "new" /\ Show(c, [view[c] EXCEPT !.tab = "open", !.load = disk[Root]])
      /\ up' = [up EXCEPT ![c] = <<Joining(c)>>]
      /\ UNCHANGED <<down, members, handler, told, heard, earlier, crossed>>
  BY DEF Open
<1> DEFINE page == [view[c] EXCEPT !.tab = "open", !.load = disk[Root]]
<1>2. /\ page.tab = "open" /\ page.collaborators = view[c].collaborators
      /\ page.cursors = view[c].cursors
  BY <1>0 DEF Pages
<1>3. Show(c, page)
  BY <1>1
<1> HIDE DEF page
<1> QED
  BY <1>0, <1>1, <1>2, <1>3, PageKeeps DEF Tab, Screen

(* A PUT was answered well: the page tells the others, if it is connected.   *)
LEMMA AnsweredStep ==
    ASSUME TypeInv, NEW c \in Clients, PutAnswered(c)
    PROVE  \/ Quiet
           \/ \E g \in Graphs :
                /\ Tab(c) = "open" /\ AllSame
                /\ up' = [up EXCEPT ![c] = Append(@, GraphEdit(c, g))]
                /\ told' = [told EXCEPT ![c] = Append(@, g)]
                /\ GraphEdit(c, g) \in Fitting
                /\ UNCHANGED <<down, members, handler, heard, earlier, crossed>>
<1>0. ViewFits /\ view[c] \in Pages
  BY DEF TypeInv, ViewFits
<1>1. PICK r \in view[c].puts :
        /\ r.saved
        /\ Show(c, [view[c] EXCEPT !.puts = @ \ {r}, !.saving = FALSE])
        /\ IF Online(c)
           THEN /\ up' = [up EXCEPT ![c] = Append(@, GraphEdit(c, r.graph))]
                /\ told' = [told EXCEPT ![c] = Append(@, r.graph)]
           ELSE UNCHANGED <<up, told>>
  BY DEF PutAnswered
<1>2. UNCHANGED <<down, members, handler, heard, earlier, crossed>>
  BY DEF PutAnswered
<1>3. r \in Requests
  BY <1>0 DEF Pages
<1>4. r.graph \in Graphs /\ GraphEdit(c, r.graph) \in Fitting
  <2>1. r.graph \in Graphs /\ r.graph \in accepted
    BY <1>1, <1>3 DEF Requests
  <2> QED
    BY <2>1 DEF GraphEdit, Fitting, Edits
<1>5. AllSame
  <2> DEFINE page == [view[c] EXCEPT !.puts = @ \ {r}, !.saving = FALSE]
  <2>1. /\ page.tab = view[c].tab /\ page.collaborators = view[c].collaborators
        /\ page.cursors = view[c].cursors
    BY <1>0 DEF Pages
  <2>2. Show(c, page)
    BY <1>1
  <2> HIDE DEF page
  <2> QED
    BY <1>0, <2>1, <2>2, PageQuiet
<1>6. CASE Online(c)
  BY <1>1, <1>2, <1>4, <1>5, <1>6 DEF Online, Tab
<1>7. CASE ~Online(c)
  BY <1>1, <1>2, <1>5, <1>7 DEF Quiet
<1> QED
  BY <1>6, <1>7

(* A page sends its cursor. *)
LEMMA CursorStep ==
    ASSUME TypeInv, NEW c \in Clients, MoveCursor(c)
    PROVE  /\ Tab(c) = "open" /\ AllSame
           /\ up' = [up EXCEPT ![c] = Append(@, Cursor(c))] /\ Cursor(c) \in Fitting
           /\ UNCHANGED <<down, members, handler, told, heard, earlier, crossed>>
<1>1. Cursor(c) \in Fitting
  BY DEF Cursor, Cursors, Fitting
<1>2. view' = view
  BY DEF MoveCursor
<1> QED
  BY <1>1, <1>2 DEF MoveCursor, Online, Tab, AllSame, Same, Screen

(* A page receives the first message of its queue. *)
LEMMA ReceiveStep ==
    ASSUME TypeInv, NEW c \in Clients, Receive(c)
    PROVE  /\ Tab(c) = "open" /\ Tab(c)' = "open" /\ down[c] # <<>> /\ OthersSame(c)
           /\ Head(down[c]) \in Fitting
           /\ Screen(c)' = Screened(c, Head(down[c]), Screen(c))
           /\ heard' = IF Head(down[c]).type # "graph_edit" THEN heard
                       ELSE [heard EXCEPT ![c][Head(down[c]).from] =
                               Append(@, Head(down[c]).graph)]
           /\ down' = [down EXCEPT ![c] = Tail(@)]
           /\ UNCHANGED <<up, members, handler, told, earlier, crossed>>
<1>0. ViewFits /\ view[c] \in Pages /\ down[c] \in Seq(Fitting)
  BY DEF TypeInv, ViewFits, MessagesFit
<1> DEFINE m == Head(down[c])
<1>1. /\ Online(c) /\ down[c] # <<>> /\ Show(c, Received(c, m))
      /\ heard' = IF m.type # "graph_edit" THEN heard
                  ELSE [heard EXCEPT ![c][m.from] = Append(@, m.graph)]
      /\ down' = [down EXCEPT ![c] = Tail(@)]
      /\ UNCHANGED <<up, members, handler, told, earlier, crossed>>
  BY DEF Receive
<1>2. m \in Fitting
  BY <1>0, <1>1
<1> HIDE DEF m
<1>3. m.type \in {"presence", "cursor", "graph_edit"}
  BY <1>2 DEF Fitting, Edits, Lists, Cursors
<1>4. /\ Received(c, m).tab = "open"
      /\ [collaborators |-> Received(c, m).collaborators, cursors |-> Received(c, m).cursors]
           = Screened(c, m, Screen(c))
  <2>1. CASE m.type = "presence"
    <3>1. Received(c, m) = [view[c] EXCEPT !.collaborators = m.users \ {c},
                                           !.cursors = @ \cap m.users]
      BY <2>1 DEF Received
    <3> QED
      BY <1>0, <1>1, <2>1, <3>1 DEF Screened, Screen, Pages, Online
  <2>2. CASE m.type = "cursor"
    <3>1. Received(c, m) = [view[c] EXCEPT !.cursors = @ \cup {m.from}]
      BY <2>2 DEF Received
    <3> QED
      BY <1>0, <1>1, <2>2, <3>1 DEF Screened, Screen, Pages, Online
  <2>3. CASE m.type = "graph_edit"
    <3>1. Received(c, m) = [view[c] EXCEPT !.canvas = m.graph, !.remote = TRUE,
                                           !.saveTo = view[c].pkg]
      BY <2>3 DEF Received
    <3> QED
      BY <1>0, <1>1, <2>3, <3>1 DEF Screened, Screen, Pages, Online
  <2> QED
    BY <1>3, <2>1, <2>2, <2>3
<1>5. /\ OthersSame(c) /\ Tab(c)' = Received(c, m).tab
      /\ Screen(c)' = [collaborators |-> Received(c, m).collaborators,
                       cursors |-> Received(c, m).cursors]
  BY <1>0, <1>1, PageKeeps
<1> QED
  BY <1>1, <1>2, <1>4, <1>5 DEF Online, Tab, m

(* A page's connection breaks. *)
LEMMA OfflineStep ==
    ASSUME TypeInv, NEW c \in Clients, GoOffline(c)
    PROVE  /\ Tab(c) = "open" /\ Tab(c)' = "offline" /\ Screen(c)' = Screen(c) /\ OthersSame(c)
           /\ \E n \in 0..Len(up[c]) : up' = [up EXCEPT ![c] = SubSeq(up[c], 1, n)]
           /\ down' = [down EXCEPT ![c] = <<>>]
           /\ UNCHANGED <<members, handler, told, heard, earlier, crossed>>
<1>0. ViewFits /\ view[c] \in Pages
  BY DEF TypeInv, ViewFits
<1>1. /\ Online(c) /\ Show(c, [view[c] EXCEPT !.tab = "offline"])
      /\ \E n \in 0..Len(up[c]) : up' = [up EXCEPT ![c] = SubSeq(up[c], 1, n)]
      /\ down' = [down EXCEPT ![c] = <<>>]
      /\ UNCHANGED <<members, handler, told, heard, earlier, crossed>>
  BY DEF GoOffline
<1> DEFINE page == [view[c] EXCEPT !.tab = "offline"]
<1>2. /\ page.tab = "offline" /\ page.collaborators = view[c].collaborators
      /\ page.cursors = view[c].cursors
  BY <1>0 DEF Pages
<1>3. Show(c, page)
  BY <1>1
<1> HIDE DEF page
<1> QED
  BY <1>0, <1>1, <1>2, <1>3, PageKeeps DEF Tab, Screen, Online

(* A page is closed. *)
LEMMA CloseStep ==
    ASSUME TypeInv, NEW c \in Clients, Close(c)
    PROVE  /\ Tab(c) \in {"open", "offline"} /\ Tab(c)' = "closed" /\ OthersSame(c)
           /\ Screen(c)' = [collaborators |-> {}, cursors |-> {}]
           /\ down' = [down EXCEPT ![c] = <<>>]
           /\ heard' = [heard EXCEPT ![c] = [s \in Clients |-> <<>>]]
           /\ UNCHANGED <<up, members, handler, told, earlier, crossed>>
<1>0. ViewFits
  BY DEF TypeInv
<1>1. PICK kept, timer : Show(c, [Closed("closed") EXCEPT !.puts = kept, !.timer = timer])
  BY DEF Close
<1> DEFINE page == [Closed("closed") EXCEPT !.puts = kept, !.timer = timer]
<1>2. page.tab = "closed" /\ page.collaborators = {} /\ page.cursors = {}
  BY DEF Closed
<1>3. Show(c, page)
  BY <1>1
<1> HIDE DEF page
<1>4. /\ IsOpen(c) /\ down' = [down EXCEPT ![c] = <<>>]
      /\ heard' = [heard EXCEPT ![c] = [s \in Clients |-> <<>>]]
      /\ UNCHANGED <<up, members, handler, told, earlier, crossed>>
  BY DEF Close
<1> QED
  BY <1>0, <1>2, <1>3, <1>4, PageKeeps DEF Tab, Screen, IsOpen

-----------------------------------------------------------------------------
(* The steps of the server leave the pages alone. *)
LEMMA ServerSteps ==
    ASSUME TypeInv, NEW c \in Clients, Socket(c)
    PROVE  AllSame /\ UNCHANGED <<told, heard>>
BY DEF Socket, Join, PassCursor, TakeEdit, SaveEdit, StartCast, Cast, Leave, AllSame, Same,
   Tab, Screen

(* A task takes a cursor or a graph from its queue. *)
LEMMA TakeStep ==
    ASSUME TypeInv, NEW c \in Clients, PassCursor(c) \/ TakeEdit(c)
    PROVE  /\ handler[c].at = "idle" /\ up[c] # <<>>
           /\ NextIn(c).type \in {"cursor", "graph_edit"}
           /\ up' = [up EXCEPT ![c] = Tail(@)]
           /\ \E t \in Tasks :
                /\ handler' = [handler EXCEPT ![c] = t]
                /\ t.at \in {"save", "list"} /\ t.msg = NextIn(c)
           /\ UNCHANGED <<down, members, crossed>>
<1>1. /\ handler[c].at = "idle" /\ up[c] # <<>> /\ NextIn(c).type \in {"cursor", "graph_edit"}
      /\ up' = [up EXCEPT ![c] = Tail(@)] /\ UNCHANGED <<down, members, crossed>>
  BY DEF PassCursor, TakeEdit, Waits, Take
<1>2. PICK at \in {"save", "list"} :
        handler' = [handler EXCEPT ![c] = [Idle EXCEPT !.at = at, !.msg = NextIn(c)]]
           /\ (at = "save" => NextIn(c).type = "graph_edit")
  BY DEF PassCursor, TakeEdit, Waits
<1>3. NextIn(c) \in Fitting
  <2>1. NextIn(c) \in Fitting \cup Joins
    BY <1>1 DEF TypeInv, MessagesFit, NextIn
  <2> QED
    BY <1>1, <2>1 DEF Joins
<1>4. [Idle EXCEPT !.at = at, !.msg = NextIn(c)] \in Tasks
  <2>1. NextIn(c).type = "graph_edit" => NextIn(c) \in Edits
    BY <1>3 DEF Fitting, Cursors, Lists
  <2> QED
    BY <1>2, <1>3, <2>1, IdleFits, TaskUpdates
<1>5. [Idle EXCEPT !.at = at, !.msg = NextIn(c)].at = at
      /\ [Idle EXCEPT !.at = at, !.msg = NextIn(c)].msg = NextIn(c)
  BY DEF Idle
<1> QED
  BY <1>1, <1>2, <1>4, <1>5

(* A graph was saved, or not. *)
LEMMA SaveStep ==
    ASSUME TypeInv, NEW c \in Clients, SaveEdit(c)
    PROVE  /\ handler[c].at = "save"
           /\ \E t \in Tasks : /\ handler' = [handler EXCEPT ![c] = t]
                               /\ t.at = "list" /\ t.msg = handler[c].msg
           /\ UNCHANGED <<up, down, members, crossed>>
<1>0. handler[c] \in Tasks
  BY DEF TypeInv, TasksFit
<1>1. /\ handler[c].at = "save" /\ handler' = [handler EXCEPT ![c].at = "list"]
      /\ UNCHANGED <<up, down, members, crossed>>
  BY DEF SaveEdit
<1> DEFINE t == [handler[c] EXCEPT !.at = "list"]
<1>2. t \in Tasks
  BY <1>0, <1>1, TaskUpdates
<1>3. t.at = "list" /\ t.msg = handler[c].msg
  BY <1>0 DEF Tasks
<1>4. handler' = [handler EXCEPT ![c] = t]
  BY <1>1
<1> HIDE DEF t
<1> QED
  BY <1>1, <1>2, <1>3, <1>4

(* A broadcast goes on to those in left. *)
Went(c, left) ==
    \E t \in Tasks :
      /\ handler' = [handler EXCEPT ![c] = t]
      /\ left # <<>> => /\ t.msg = handler[c].msg /\ t.left = left
                        /\ t.at = IF handler[c].at \in {"bye", "last"} THEN "last" ELSE "cast"
      /\ left = <<>> => t.at = IF handler[c].at \in {"bye", "last"} THEN "gone" ELSE "idle"

(* Casting says so. *)
LEMMA CastingStep ==
    ASSUME TypeInv, NEW c \in Clients, NEW left \in Seq(Clients), Casting(c, left),
           handler[c].at \notin {"idle", "gone"}
    PROVE  Went(c, left)
<1>0. handler[c] \in Tasks
  BY DEF TypeInv, TasksFit
<1> DEFINE leaves == handler[c].at \in {"bye", "last"}
           next == [handler[c] EXCEPT !.left = left, !.at = IF leaves THEN "last" ELSE "cast"]
           end == [Idle EXCEPT !.at = IF leaves THEN "gone" ELSE "idle"]
<1>1. left # <<>> => next \in Tasks
  BY <1>0, TaskUpdates
<1>2. end \in Tasks
  <2>1. [Idle EXCEPT !.at = "gone"] \in Tasks /\ [Idle EXCEPT !.at = "idle"] \in Tasks
    BY IdleFits, TaskUpdates
  <2> QED
    BY <2>1
<1>3. /\ next.msg = handler[c].msg /\ next.left = left
      /\ next.at = IF leaves THEN "last" ELSE "cast"
  <2> DEFINE a == IF leaves THEN "last" ELSE "cast"
             L == Seq(Clients)
  <2> HIDE DEF a, leaves, L
  <2>1. [handler[c] EXCEPT !.left = left, !.at = a].msg = handler[c].msg
        /\ [handler[c] EXCEPT !.left = left, !.at = a].left = left
        /\ [handler[c] EXCEPT !.left = left, !.at = a].at = a
    BY <1>0 DEF Tasks
  <2> QED
    BY <2>1 DEF a
<1>4. end.at = IF leaves THEN "gone" ELSE "idle"
  BY DEF Idle
<1>5. handler' = [handler EXCEPT ![c] = IF left # <<>> THEN next ELSE end]
  BY DEF Casting
<1> HIDE DEF next, end
<1>6. CASE left # <<>>
  BY <1>1, <1>3, <1>5, <1>6 DEF Went
<1>7. CASE left = <<>>
  BY <1>2, <1>4, <1>5, <1>7 DEF Went
<1> QED
  BY <1>6, <1>7

(* A broadcast starts ... *)
LEMMA StartStep ==
    ASSUME TypeInv, NEW c \in Clients, StartCast(c)
    PROVE  /\ handler[c].at \in {"list", "bye"} /\ Went(c, Recipients(handler[c].msg))
           /\ Recipients(handler[c].msg) \in Seq(Clients)
           /\ UNCHANGED <<up, down, members, crossed>>
BY CastingStep, RecipientsType DEF StartCast, TypeInv

(* ... and passes its message to one client. *)
LEMMA CastStep ==
    ASSUME TypeInv, NEW c \in Clients, Cast(c)
    PROVE  /\ handler[c].at \in {"cast", "last"} /\ handler[c].left # <<>>
           /\ handler[c].msg \in Fitting
           /\ Head(handler[c].left) \in Clients
           /\ Went(c, Tail(handler[c].left))
           /\ IF Tab(Head(handler[c].left)) = "open"
              THEN down' = [down EXCEPT ![Head(handler[c].left)] = Append(@, handler[c].msg)]
              ELSE UNCHANGED down
           /\ UNCHANGED <<up, members, crossed>>
<1>0. handler[c] \in Tasks
  BY DEF TypeInv, TasksFit
<1>1. handler[c].at \in {"cast", "last"}
  BY DEF Cast
<1>2. handler[c].left \in Seq(Clients) /\ handler[c].left # <<>> /\ handler[c].msg \in Fitting
  BY <1>0, <1>1 DEF Tasks
<1>3. Head(handler[c].left) \in Clients /\ Tail(handler[c].left) \in Seq(Clients)
  BY <1>2
<1>4. Went(c, Tail(handler[c].left))
  BY <1>1, <1>3, CastingStep DEF Cast
<1> QED
  BY <1>1, <1>2, <1>3, <1>4 DEF Cast, Online, Tab

(* A client joins ... *)
LEMMA JoinStep ==
    ASSUME TypeInv, NEW c \in Clients, Join(c)
    PROVE  /\ handler[c].at = "idle" /\ up[c] # <<>> /\ NextIn(c).type = "join" /\ ~Reading
           /\ up' = [up EXCEPT ![c] = Tail(@)]
           /\ Announce(c, Append(members, c))
           /\ \E t \in Tasks : /\ handler' = [handler EXCEPT ![c] = t]
                               /\ t.at = "list" /\ t.msg = Presence(members')
           /\ UNCHANGED down
<1>1. /\ handler[c].at = "idle" /\ up[c] # <<>> /\ NextIn(c).type = "join" /\ ~Reading
      /\ up' = [up EXCEPT ![c] = Tail(@)] /\ Announce(c, Append(members, c)) /\ UNCHANGED down
      /\ handler' = [handler EXCEPT ![c] = [Idle EXCEPT !.at = "list", !.msg = Presence(members')]]
  BY DEF Join, Waits, Take
<1> DEFINE t == [Idle EXCEPT !.at = "list", !.msg = Presence(members')]
<1>2. t.at = "list" /\ t.msg = Presence(members')
  BY DEF Idle
<1>3. t \in Tasks
  <2>1. members' \in Seq(Clients)
    BY <1>1 DEF Announce, TypeInv, RoomType
  <2>2. Presence(members') \in Fitting
    BY <2>1 DEF Presence, Fitting, Lists, ToSet
  <2> QED
    BY <2>2, IdleFits, TaskUpdates
<1> HIDE DEF t
<1>4. handler' = [handler EXCEPT ![c] = t]
  BY <1>1 DEF t
<1> QED
  BY <1>1, <1>2, <1>3, <1>4

(* ... and leaves. *)
LEMMA LeaveStep ==
    ASSUME TypeInv, NEW c \in Clients, Leave(c)
    PROVE  /\ handler[c].at = "idle" /\ up[c] = <<>> /\ Tab(c) \in {"closed", "offline"}
           /\ \E t \in Tasks :
                /\ handler' = [handler EXCEPT ![c] = t]
                /\ c \in ToSet(members) => /\ ~Reading /\ Announce(c, Without(members, c))
                                           /\ t.at = "bye" /\ t.msg = Presence(members')
                /\ c \notin ToSet(members) => t.at = "gone" /\ UNCHANGED <<members, crossed>>
           /\ UNCHANGED <<up, down>>
<1>0. handler[c] \in Tasks
  BY DEF TypeInv, TasksFit
<1>1. /\ handler[c].at = "idle" /\ up[c] = <<>> /\ Tab(c) \in {"closed", "offline"}
      /\ UNCHANGED <<up, down>>
  BY DEF Leave, Tab
<1>2. CASE c \in ToSet(members)
  <2>1. /\ ~Reading /\ Announce(c, Without(members, c))
        /\ handler' = [handler EXCEPT ![c] = [Idle EXCEPT !.at = "bye", !.msg = Presence(members')]]
    BY <1>2 DEF Leave
  <2> DEFINE t == [Idle EXCEPT !.at = "bye", !.msg = Presence(members')]
  <2>2. t.at = "bye" /\ t.msg = Presence(members')
    BY DEF Idle
  <2>3. t \in Tasks
    <3>1. members' \in Seq(Clients)
      BY <2>1, WithoutLeaves DEF Announce, TypeInv, RoomType
    <3>2. Presence(members') \in Fitting
      BY <3>1 DEF Presence, Fitting, Lists, ToSet
    <3> QED
      BY <3>2, IdleFits, TaskUpdates
  <2>4. handler' = [handler EXCEPT ![c] = t]
    BY <2>1
  <2> HIDE DEF t
  <2> QED
    BY <1>1, <1>2, <2>1, <2>2, <2>3, <2>4
<1>3. CASE c \notin ToSet(members)
  <2> DEFINE t == [handler[c] EXCEPT !.at = "gone"]
  <2>1. t \in Tasks
    BY <1>0, TaskUpdates
  <2>2. t.at = "gone"
    BY <1>0 DEF Tasks
  <2>3. handler' = [handler EXCEPT ![c] = t] /\ UNCHANGED <<members, crossed>>
    BY <1>3 DEF Leave
  <2> HIDE DEF t
  <2> QED
    BY <1>1, <1>3, <2>1, <2>2, <2>3
<1> QED
  BY <1>2, <1>3

-----------------------------------------------------------------------------
(* A client's place: its page, queue and task fit together, and with whether *)
(* it is in the room. It joins first, and once it has left it is gone.       *)
Seat(s, tab, q, task, in) ==
  /\ task.at \notin {"idle", "gone"} /\ task.msg.type # "presence" => task.msg.from = s
  /\ task.at \in {"save", "list", "cast"} => in
  /\ task.at \in {"bye", "last", "gone"} => ~in /\ q = <<>> /\ tab \in {"closed", "offline"}
  /\ task.at \in {"bye", "last"} => task.msg.type = "presence"
  /\ tab = "new" => q = <<>> /\ task.at = "idle" /\ ~in
  /\ \A i \in 1..Len(q) : /\ q[i].from = s /\ q[i].type # "presence"
                          /\ q[i].type = "join" => i = 1 /\ ~in
  /\ ~in /\ q # <<>> => q[1].type = "join"
  /\ ~in /\ tab = "open" => q # <<>>

(* The same for the queue of messages to it: there are none unless it is     *)
(* connected and in the room, and none of its own.                           *)
Inbox(s, tab, cursors, d, hs, in) ==
  /\ tab # "open" \/ ~in => d = <<>>
  /\ tab \in {"new", "open"} /\ ~in => \A t \in Clients : hs[t] = <<>>
  /\ s \notin cursors
  /\ \A i \in 1..Len(d) : d[i].type # "presence" => d[i].from # s

(* Those whom a broadcast has yet to reach are in the room, each once.       *)
Round(s, task, room) ==
  task.at \in {"cast", "last"} =>
    /\ Distinct(task.left)
    /\ ToSet(task.left) \subseteq IF task.msg.type = "presence" THEN room ELSE room \ {s}

In(s) == s \in ToSet(members)
SeatsFit == \A s \in Clients : Seat(s, Tab(s), up[s], handler[s], In(s))
InboxesFit == \A s \in Clients : Inbox(s, Tab(s), Screen(s).cursors, down[s], heard[s], In(s))
RoundsFit == \A s \in Clients : Round(s, handler[s], ToSet(members))
RoomInv == Distinct(members) /\ SeatsFit /\ InboxesFit /\ RoundsFit

(* Only whether a client is in the room matters. *)
LEMMA SeatIn ==
  ASSUME NEW s, NEW tab, NEW q, NEW task, NEW in, NEW in2, in <=> in2, Seat(s, tab, q, task, in)
  PROVE  Seat(s, tab, q, task, in2)
BY DEF Seat

(* Likewise. *)
LEMMA InboxIn ==
  ASSUME NEW s, NEW tab, NEW cs, NEW d, NEW hs, NEW in, NEW in2, in <=> in2,
         Inbox(s, tab, cs, d, hs, in)
  PROVE  Inbox(s, tab, cs, d, hs, in2)
BY DEF Inbox

(* At first nobody is there. *)
LEMMA InitRoom == Init => RoomInv
<1> SUFFICES ASSUME Init PROVE RoomInv
  OBVIOUS
<1>1. Len(<<>>) = 0 /\ DOMAIN <<>> = {}
  OBVIOUS
<1>2. /\ members = <<>> /\ ToSet(members) = {}
      /\ \A s \in Clients : /\ Tab(s) = "new" /\ up[s] = <<>> /\ down[s] = <<>> /\ handler[s] = Idle
                            /\ Screen(s).cursors = {} /\ \A t \in Clients : heard[s][t] = <<>>
  BY <1>1 DEF Init, Tab, Screen, Closed, ToSet
<1>3. Distinct(members)
  BY <1>1, <1>2 DEF Distinct
<1>4. Idle.at = "idle"
  BY DEF Idle
<1>5. SeatsFit
  BY <1>1, <1>2, <1>4 DEF SeatsFit, Seat, In
<1>6. InboxesFit
  BY <1>1, <1>2 DEF InboxesFit, Inbox, In
<1>7. RoundsFit
  BY <1>2, <1>4 DEF RoundsFit, Round
<1> QED
  BY <1>3, <1>5, <1>6, <1>7 DEF RoomInv

(* Who is in the room after somebody joined or left. *)
LEMMA RoomAfter ==
    ASSUME TypeInv, NEW c \in Clients
    PROVE  /\ members' = Append(members, c) =>
                /\ ToSet(members') = ToSet(members) \cup {c}
                /\ Distinct(members) /\ ~In(c) => Distinct(members')
           /\ members' = Without(members, c) =>
                /\ ToSet(members') = ToSet(members) \ {c}
                /\ Distinct(members) => Distinct(members')
<1>1. members \in Seq(Clients)
  BY DEF TypeInv, RoomType
<1>2. /\ ToSet(Append(members, c)) = ToSet(members) \cup {c}
      /\ Distinct(members) /\ c \notin ToSet(members) => Distinct(Append(members, c))
  BY <1>1, AppendedSet
<1>3. /\ ToSet(Without(members, c)) = ToSet(members) \ {c}
      /\ Distinct(members) => Distinct(Without(members, c))
  BY <1>1, WithoutLeaves
<1>4. In(c) <=> c \in ToSet(members)
  BY DEF In
<1> DEFINE ms == members'
<1>5. ms = members'
  OBVIOUS
<1> HIDE DEF ms
<1>6. ms = Append(members, c) => /\ ToSet(ms) = ToSet(members) \cup {c}
                                 /\ Distinct(members) /\ ~In(c) => Distinct(ms)
  BY <1>2, <1>4
<1>7. ms = Without(members, c) => /\ ToSet(ms) = ToSet(members) \ {c}
                                  /\ Distinct(members) => Distinct(ms)
  BY <1>3
<1> QED
  BY <1>6, <1>7 DEF ms

(* A client waits in its queue and its task. *)
LEMMA SeatTypes ==
    ASSUME TypeInv, NEW s \in Clients
    PROVE  /\ up[s] \in Seq(Fitting \cup Joins) /\ Len(up[s]) \in Nat
           /\ handler[s] \in Tasks
           /\ handler[s].at \in {"idle", "save", "list", "cast", "bye", "last", "gone"}
           /\ down[s] \in Seq(Fitting) /\ Len(down[s]) \in Nat
BY DEF TypeInv, MessagesFit, TasksFit, Tasks

(* One more message of its own is sent. *)
LEMMA SeatSends ==
  ASSUME NEW M, NEW q \in Seq(M), NEW m \in M, NEW s, NEW task, NEW in,
         Seat(s, "open", q, task, in), m.from = s, m.type \notin {"presence", "join"}
  PROVE  Seat(s, "open", Append(q, m), task, in)
<1> DEFINE r == Append(q, m)
           n == Len(q)
<1>0. n \in Nat /\ Len(r) = n + 1 /\ r[n + 1] = m /\ \A i \in 1..n : r[i] = q[i]
  BY Queues
<1>1. /\ n \in Nat /\ Len(r) = n + 1 /\ r[n + 1] = m /\ \A i \in 1..n : r[i] = q[i]
      /\ r # <<>> /\ (q # <<>> => n >= 1)
  <2>1. q # <<>> => Len(q) >= 1
    BY Queues
  <2>2. Len(<<>>) = 0
    OBVIOUS
  <2> HIDE DEF r
  <2> QED
    BY <1>0, <2>1, <2>2
<1> HIDE DEF r, n
<1>2. ASSUME NEW i \in 1..Len(r)
      PROVE  r[i].from = s /\ r[i].type # "presence" /\ (r[i].type = "join" => i = 1 /\ ~in)
  <2>1. CASE i = n + 1
    BY <1>1, <2>1
  <2>2. CASE i \in 1..n
    BY <1>1, <2>2 DEF Seat, n
  <2> QED
    BY <1>1, <2>1, <2>2
<1>3. task.at \notin {"bye", "last", "gone"}
  BY DEF Seat
<1>4. ~in => r[1].type = "join"
  <2>1. ~in => q # <<>> /\ q[1].type = "join"
    BY DEF Seat
  <2> QED
    BY <1>1, <2>1
<1> QED
  BY <1>1, <1>2, <1>3, <1>4 DEF Seat, r

(* The task takes the first message. *)
LEMMA SeatTakes ==
  ASSUME NEW M, NEW q \in Seq(M), q # <<>>, NEW s, NEW tab, NEW task, NEW in, NEW t,
         Seat(s, tab, q, task, in), task.at = "idle",
         t.at \in {"save", "list"}, t.msg.type # "presence" => t.msg = Head(q)
  PROVE  Seat(s, tab, Tail(q), t, TRUE)
<1> DEFINE r == Tail(q)
           n == Len(q)
<1>1. /\ n \in Nat /\ n >= 1 /\ Len(r) = n - 1 /\ Head(q) = q[1]
      /\ \A i \in 1..(n - 1) : r[i] = q[i + 1]
  BY Queues
<1>2. \A i \in 1..n : /\ q[i].from = s /\ q[i].type # "presence"
                      /\ (q[i].type = "join" => i = 1)
  BY DEF Seat
<1>3. tab # "new"
  BY DEF Seat
<1> HIDE DEF r, n
<1>4. ASSUME NEW i \in 1..Len(r)
      PROVE  r[i].from = s /\ r[i].type # "presence" /\ r[i].type # "join"
  <2>1. i \in 1..(n - 1) /\ i + 1 \in 1..n /\ i + 1 # 1
    BY <1>1
  <2> QED
    BY <1>1, <1>2, <2>1
<1>5. t.msg.type # "presence" => t.msg.from = s
  BY <1>1, <1>2
<1> QED
  BY <1>3, <1>4, <1>5 DEF Seat, r

(* The task goes on with its message, or is done with it. *)
LEMMA SeatGoesOn ==
  ASSUME NEW s, NEW tab, NEW q, NEW task, NEW in, NEW t, Seat(s, tab, q, task, in),
         task.at \in {"save", "list", "cast", "bye", "last"},
         \/ /\ t.msg = task.msg
            /\ t.at \in IF task.at \in {"bye", "last"} THEN {"last"} ELSE {"list", "cast"}
         \/ t.at = IF task.at \in {"bye", "last"} THEN "gone" ELSE "idle"
  PROVE  Seat(s, tab, q, t, in)
<1>1. CASE task.at \in {"bye", "last"}
  BY <1>1 DEF Seat
<1>2. CASE task.at \in {"save", "list", "cast"}
  BY <1>2 DEF Seat
<1> QED
  BY <1>1, <1>2

(* What is sent is lost from some point on, and the page is offline. *)
LEMMA SeatDrops ==
  ASSUME NEW M, NEW q \in Seq(M), NEW n \in 0..Len(q), NEW s, NEW task, NEW in,
         Seat(s, "open", q, task, in)
  PROVE  Seat(s, "offline", SubSeq(q, 1, n), task, in)
<1> DEFINE r == SubSeq(q, 1, n)
<1>1. /\ Len(q) \in Nat /\ r \in Seq(M) /\ Len(r) = n /\ \A i \in 1..n : r[i] = q[i]
  BY Queues
<1> HIDE DEF r
<1>2. r # <<>> => n >= 1 /\ q # <<>>
  BY <1>1
<1>3. \A i \in 1..n : i \in 1..Len(q)
  BY <1>1
<1>4. ~in /\ r # <<>> => r[1].type = "join"
  BY <1>1, <1>2 DEF Seat
<1>5. task.at \notin {"bye", "last", "gone"}
  BY DEF Seat
<1>6. \A i \in 1..Len(r) : /\ r[i].from = s /\ r[i].type # "presence"
                           /\ r[i].type = "join" => i = 1 /\ ~in
  BY <1>1, <1>3 DEF Seat
<1> QED
  BY <1>4, <1>5, <1>6 DEF Seat, r

(* The others keep their places whatever c does. *)
LEMMA OthersKeepSeats ==
    ASSUME SeatsFit, NEW c \in Clients,
           \A s \in Clients \ {c} : /\ Tab(s)' = Tab(s) /\ up'[s] = up[s]
                                    /\ handler'[s] = handler[s] /\ (In(s)' <=> In(s)),
           Seat(c, Tab(c)', up'[c], handler'[c], In(c)')
    PROVE  SeatsFit'
<1>1. ASSUME NEW s \in Clients \ {c} PROVE Seat(s, Tab(s)', up'[s], handler'[s], In(s)')
  <2>1. Seat(s, Tab(s)', up'[s], handler'[s], In(s))
    BY <1>1 DEF SeatsFit
  <2>2. In(s) <=> In(s)'
    BY <1>1
  <2> HIDE DEF In
  <2> QED
    BY <2>1, <2>2, SeatIn
<1>2. \A s \in Clients : Seat(s, Tab(s)', up'[s], handler'[s], In(s)')
  BY <1>1
<1> QED
  BY <1>2 DEF SeatsFit

(* A step that the room sees. *)
LEMMA Steps ==
    ASSUME TypeInv, [Next]_vars, ~Quiet
    PROVE  \E c \in Clients :
             \/ Open(c) \/ PutAnswered(c) \/ MoveCursor(c) \/ Receive(c) \/ GoOffline(c) \/ Close(c)
             \/ Join(c) \/ PassCursor(c) \/ TakeEdit(c) \/ SaveEdit(c) \/ StartCast(c) \/ Cast(c)
             \/ Leave(c)
<1>1. ~UNCHANGED vars
  BY DEF vars, Quiet, AllSame, Same, Tab, Screen
<1>2. PICK c \in Clients :
        \/ Page(c) \/ Socket(c)
        \/ Open(c) \/ Switch(c) \/ Edit(c) \/ Save(c) \/ PutRefused(c) \/ MoveCursor(c)
        \/ GoOffline(c) \/ Close(c)
  BY <1>1 DEF Next
<1>3. ~(\/ Loaded(c) \/ TimerFires(c) \/ PutSaved(c) \/ PutRefused(c) \/ Calm(c)
        \/ Switch(c) \/ Edit(c) \/ Save(c))
  BY QuietSteps
<1> QED
  BY <1>2, <1>3 DEF Page, Socket

(* Everybody keeps a place. *)
LEMMA StepSeats ==
    ASSUME TypeInv, RoomInv, [Next]_vars
    PROVE  SeatsFit'
<1>0. SeatsFit
  BY DEF RoomInv
<1>h. /\ up \in [Clients -> Seq(Fitting \cup Joins)]
      /\ handler \in [Clients -> Tasks]
  BY DEF TypeInv, MessagesFit, TasksFit
<1>i. \A c \in Clients : Seat(c, Tab(c), up[c], handler[c], In(c))
  BY <1>0 DEF SeatsFit
<1>q. CASE Quiet
  <2>1. \A s \in Clients : Tab(s)' = Tab(s) /\ up' = up /\ handler' = handler /\ members' = members
    BY <1>q DEF Quiet, AllSame, Same
  <2> QED
    BY <1>i, <2>1 DEF SeatsFit, In
<1>1. ASSUME NEW c \in Clients, Open(c) PROVE SeatsFit'
  <2>1. /\ Tab(c) = "new" /\ Tab(c)' = "open" /\ OthersSame(c)
        /\ up' = [up EXCEPT ![c] = <<Joining(c)>>] /\ UNCHANGED <<members, handler>>
    BY <1>1, OpenStep
  <2>2. up'[c] = <<Joining(c)>> /\ (In(c)' <=> In(c)) /\ handler'[c] = handler[c]
    BY <1>h, <2>1 DEF In
  <2>3. Len(<<Joining(c)>>) = 1 /\ <<Joining(c)>>[1] = Joining(c) /\ <<Joining(c)>> # <<>>
    OBVIOUS
  <2>4. handler[c].at = "idle" /\ ~In(c)
    BY <1>i, <2>1 DEF Seat
  <2>5. Seat(c, "open", <<Joining(c)>>, handler[c], In(c)')
    <3>1. Joining(c).type = "join" /\ Joining(c).from = c
      BY DEF Joining
    <3> DEFINE q == <<Joining(c)>>
               m == Joining(c)
    <3>2. Len(q) = 1 /\ q[1] = m /\ q # <<>>
      BY <2>3
    <3> HIDE DEF q, m
    <3>3. m.type = "join" /\ m.from = c
      BY <3>1 DEF m
    <3>4. Seat(c, "open", q, handler[c], In(c)')
      BY <2>2, <2>4, <3>2, <3>3 DEF Seat
    <3> QED
      BY <3>4 DEF q
  <2>6. Seat(c, Tab(c)', up'[c], handler'[c], In(c)')
    BY <2>1, <2>2, <2>5
  <2>7. \A s \in Clients \ {c} : /\ Tab(s)' = Tab(s) /\ up'[s] = up[s]
                                 /\ handler'[s] = handler[s] /\ (In(s)' <=> In(s))
    BY <1>h, <2>1 DEF OthersSame, Same, In
  <2> QED
    BY <1>0, <2>6, <2>7, OthersKeepSeats
<1>2. ASSUME NEW c \in Clients, PutAnswered(c) \/ MoveCursor(c), ~Quiet PROVE SeatsFit'
  <2>1. PICK m \in Fitting :
          /\ Tab(c) = "open" /\ AllSame /\ up' = [up EXCEPT ![c] = Append(@, m)]
          /\ m.from = c /\ m.type \notin {"presence", "join"} /\ UNCHANGED <<members, handler>>
    <3>1. CASE PutAnswered(c)
      <4>1. PICK g \in Graphs :
              /\ Tab(c) = "open" /\ AllSame /\ up' = [up EXCEPT ![c] = Append(@, GraphEdit(c, g))]
              /\ GraphEdit(c, g) \in Fitting /\ UNCHANGED <<members, handler>>
        BY <1>2, <3>1, AnsweredStep
      <4>2. GraphEdit(c, g).from = c /\ GraphEdit(c, g).type = "graph_edit"
        BY DEF GraphEdit
      <4> QED
        BY <4>1, <4>2
    <3>2. CASE MoveCursor(c)
      <4>1. Cursor(c).from = c /\ Cursor(c).type = "cursor"
        BY DEF Cursor
      <4> QED
        BY <3>2, <4>1, CursorStep
    <3> QED
      BY <1>2, <3>1, <3>2
  <2>2. up'[c] = Append(up[c], m) /\ (In(c)' <=> In(c)) /\ handler'[c] = handler[c]
        /\ Tab(c)' = "open"
    BY <1>h, <2>1 DEF In, AllSame, Same
  <2>3. Seat(c, "open", Append(up[c], m), handler[c], In(c))
    <3>1. m \in Fitting \cup Joins /\ up[c] \in Seq(Fitting \cup Joins)
      BY <1>h
    <3>2. Seat(c, "open", up[c], handler[c], In(c))
      BY <1>i, <2>1
    <3> HIDE DEF In
    <3> QED
      BY <2>1, <3>1, <3>2, SeatSends
  <2>4. Seat(c, Tab(c)', up'[c], handler'[c], In(c)')
    BY <2>2, <2>3, SeatIn
  <2>5. \A s \in Clients \ {c} : /\ Tab(s)' = Tab(s) /\ up'[s] = up[s]
                                 /\ handler'[s] = handler[s] /\ (In(s)' <=> In(s))
    BY <1>h, <2>1 DEF AllSame, Same, In
  <2> QED
    BY <1>0, <2>4, <2>5, OthersKeepSeats
<1>3. ASSUME NEW c \in Clients, Receive(c) PROVE SeatsFit'
  <2>1. /\ Tab(c) = "open" /\ Tab(c)' = "open" /\ OthersSame(c) /\ UNCHANGED <<up, members, handler>>
    BY <1>3, ReceiveStep
  <2>2. \A s \in Clients : Tab(s)' = Tab(s)
    BY <2>1 DEF OthersSame, Same
  <2> QED
    BY <1>i, <2>1, <2>2 DEF SeatsFit, In
<1>4. ASSUME NEW c \in Clients, GoOffline(c) PROVE SeatsFit'
  <2>1. PICK n \in 0..Len(up[c]) :
          /\ Tab(c) = "open" /\ Tab(c)' = "offline" /\ OthersSame(c)
          /\ up' = [up EXCEPT ![c] = SubSeq(up[c], 1, n)]
          /\ UNCHANGED <<members, handler>>
    BY <1>4, OfflineStep
  <2>2. up'[c] = SubSeq(up[c], 1, n) /\ (In(c)' <=> In(c)) /\ handler'[c] = handler[c]
    BY <1>h, <2>1 DEF In
  <2>3. Seat(c, "offline", SubSeq(up[c], 1, n), handler[c], In(c))
    <3>1. up[c] \in Seq(Fitting \cup Joins)
      BY <1>h
    <3>2. Seat(c, "open", up[c], handler[c], In(c))
      BY <1>i, <2>1
    <3> HIDE DEF In
    <3> QED
      BY <2>1, <3>1, <3>2, SeatDrops
  <2>4. Seat(c, Tab(c)', up'[c], handler'[c], In(c)')
    <3>1. Seat(c, Tab(c)', up'[c], handler'[c], In(c))
      BY <2>1, <2>2, <2>3
    <3>2. In(c) <=> In(c)'
      BY <2>2
    <3> HIDE DEF In
    <3> QED
      BY <3>1, <3>2, SeatIn
  <2>5. \A s \in Clients \ {c} : /\ Tab(s)' = Tab(s) /\ up'[s] = up[s]
                                 /\ handler'[s] = handler[s] /\ (In(s)' <=> In(s))
    BY <1>h, <2>1 DEF OthersSame, Same, In
  <2> QED
    BY <1>0, <2>4, <2>5, OthersKeepSeats
<1>5. ASSUME NEW c \in Clients, Close(c) PROVE SeatsFit'
  <2>1. /\ Tab(c) \in {"open", "offline"} /\ Tab(c)' = "closed" /\ OthersSame(c)
        /\ UNCHANGED <<up, members, handler>>
    BY <1>5, CloseStep
  <2>2. Seat(c, "closed", up[c], handler[c], In(c))
    <3>1. Seat(c, Tab(c), up[c], handler[c], In(c))
      BY <1>i
    <3> QED
      BY <2>1, <3>1 DEF Seat
  <2>3. Seat(c, Tab(c)', up'[c], handler'[c], In(c)')
    BY <2>1, <2>2 DEF In
  <2>4. \A s \in Clients \ {c} : /\ Tab(s)' = Tab(s) /\ up'[s] = up[s]
                                 /\ handler'[s] = handler[s] /\ (In(s)' <=> In(s))
    BY <2>1 DEF OthersSame, Same, In
  <2> QED
    BY <1>0, <2>3, <2>4, OthersKeepSeats
<1>6. ASSUME NEW c \in Clients, Join(c) PROVE SeatsFit'
  <2>1. PICK t \in Tasks :
          /\ handler[c].at = "idle" /\ up[c] # <<>> /\ up' = [up EXCEPT ![c] = Tail(@)]
          /\ members' = Append(members, c) /\ handler' = [handler EXCEPT ![c] = t]
          /\ t.at = "list" /\ t.msg = Presence(members')
    BY <1>6, JoinStep DEF Announce
  <2>2. AllSame
    BY <1>6, ServerSteps DEF Socket
  <2>3. ToSet(members') = ToSet(members) \cup {c}
    BY <2>1, RoomAfter
  <2>4. /\ up'[c] = Tail(up[c]) /\ handler'[c] = t /\ Tab(c)' = Tab(c) /\ In(c)'
    BY <1>h, <2>1, <2>2, <2>3 DEF AllSame, Same, In
  <2>5. Seat(c, Tab(c), Tail(up[c]), t, TRUE)
    <3>1. t.msg.type = "presence" /\ up[c] \in Seq(Fitting \cup Joins)
      BY <1>h, <2>1 DEF Presence
    <3>2. Seat(c, Tab(c), up[c], handler[c], In(c))
      BY <1>i
    <3> HIDE DEF In
    <3> QED
      BY <2>1, <3>1, <3>2, SeatTakes
  <2>6. Seat(c, Tab(c)', up'[c], handler'[c], In(c)')
    BY <2>4, <2>5, SeatIn
  <2>7. \A s \in Clients \ {c} : /\ Tab(s)' = Tab(s) /\ up'[s] = up[s]
                                 /\ handler'[s] = handler[s] /\ (In(s)' <=> In(s))
    BY <1>h, <2>1, <2>2, <2>3 DEF AllSame, Same, In
  <2> QED
    BY <1>0, <2>6, <2>7, OthersKeepSeats
<1>7. ASSUME NEW c \in Clients, PassCursor(c) \/ TakeEdit(c) PROVE SeatsFit'
  <2>1. PICK t \in Tasks :
          /\ handler[c].at = "idle" /\ up[c] # <<>> /\ NextIn(c).type \in {"cursor", "graph_edit"}
          /\ up' = [up EXCEPT ![c] = Tail(@)] /\ handler' = [handler EXCEPT ![c] = t]
          /\ t.at \in {"save", "list"} /\ t.msg = NextIn(c) /\ UNCHANGED members
    BY <1>7, TakeStep
  <2>2. AllSame
    BY <1>7, ServerSteps DEF Socket
  <2>3. Seat(c, Tab(c), up[c], handler[c], In(c)) /\ up[c] \in Seq(Fitting \cup Joins)
    BY <1>h, <1>i
  <2>4. In(c)
    <3>1. up[c][1] = NextIn(c)
      BY <2>1, <2>3, Queues DEF NextIn
    <3> QED
      BY <2>1, <2>3, <3>1 DEF Seat
  <2>5. /\ up'[c] = Tail(up[c]) /\ handler'[c] = t /\ Tab(c)' = Tab(c) /\ In(c)'
    BY <1>h, <2>1, <2>2, <2>4 DEF AllSame, Same, In
  <2>6. Seat(c, Tab(c), Tail(up[c]), t, TRUE)
    <3>1. t.msg = Head(up[c])
      BY <2>1 DEF NextIn
    <3> HIDE DEF In
    <3> QED
      BY <2>1, <2>3, <3>1, SeatTakes
  <2>7. Seat(c, Tab(c)', up'[c], handler'[c], In(c)')
    BY <2>5, <2>6, SeatIn
  <2>8. \A s \in Clients \ {c} : /\ Tab(s)' = Tab(s) /\ up'[s] = up[s]
                                 /\ handler'[s] = handler[s] /\ (In(s)' <=> In(s))
    BY <1>h, <2>1, <2>2 DEF AllSame, Same, In
  <2> QED
    BY <1>0, <2>7, <2>8, OthersKeepSeats
<1>8. ASSUME NEW c \in Clients, SaveEdit(c) \/ StartCast(c) \/ Cast(c) PROVE SeatsFit'
  <2>1. PICK t \in Tasks :
          /\ handler[c].at \in {"save", "list", "cast", "bye", "last"}
          /\ handler' = [handler EXCEPT ![c] = t] /\ UNCHANGED <<up, members>>
          /\ \/ /\ t.msg = handler[c].msg
                /\ t.at \in IF handler[c].at \in {"bye", "last"} THEN {"last"} ELSE {"list", "cast"}
             \/ t.at = IF handler[c].at \in {"bye", "last"} THEN "gone" ELSE "idle"
    <3>1. CASE SaveEdit(c)
      BY <3>1, SaveStep
    <3>2. CASE StartCast(c)
      BY <3>2, StartStep DEF Went
    <3>3. CASE Cast(c)
      BY <3>3, CastStep DEF Went
    <3> QED
      BY <1>8, <3>1, <3>2, <3>3
  <2>2. AllSame
    BY <1>8, ServerSteps DEF Socket
  <2>3. Seat(c, Tab(c), up[c], handler[c], In(c))
    BY <1>i
  <2>4. Seat(c, Tab(c), up[c], t, In(c))
    <3> HIDE DEF In
    <3> QED
      BY <2>1, <2>3, SeatGoesOn
  <2>5. /\ up'[c] = up[c] /\ handler'[c] = t /\ Tab(c)' = Tab(c) /\ (In(c)' <=> In(c))
    BY <1>h, <2>1, <2>2 DEF AllSame, Same, In
  <2>6. Seat(c, Tab(c)', up'[c], handler'[c], In(c)')
    BY <2>4, <2>5, SeatIn
  <2>7. \A s \in Clients \ {c} : /\ Tab(s)' = Tab(s) /\ up'[s] = up[s]
                                 /\ handler'[s] = handler[s] /\ (In(s)' <=> In(s))
    BY <1>h, <2>1, <2>2 DEF AllSame, Same, In
  <2> QED
    BY <1>0, <2>6, <2>7, OthersKeepSeats
<1>9. ASSUME NEW c \in Clients, Leave(c) PROVE SeatsFit'
  <2>1. PICK t \in Tasks :
          /\ handler[c].at = "idle" /\ up[c] = <<>> /\ Tab(c) \in {"closed", "offline"}
          /\ handler' = [handler EXCEPT ![c] = t] /\ UNCHANGED up
          /\ In(c) => /\ members' = Without(members, c)
                      /\ t.at = "bye" /\ t.msg = Presence(members')
          /\ ~In(c) => t.at = "gone" /\ UNCHANGED members
    BY <1>9, LeaveStep DEF Announce, In
  <2>2. AllSame
    BY <1>9, ServerSteps DEF Socket
  <2>3. In(c) => ToSet(members') = ToSet(members) \ {c}
    BY <2>1, RoomAfter
  <2>4. /\ up'[c] = <<>> /\ handler'[c] = t /\ Tab(c)' = Tab(c) /\ ~In(c)'
    BY <1>h, <2>1, <2>2, <2>3 DEF AllSame, Same, In
  <2>5. Seat(c, Tab(c), <<>>, t, FALSE)
    <3>1. Len(<<>>) = 0
      OBVIOUS
    <3>2. t.at \in {"bye", "gone"} /\ (t.at = "bye" => t.msg.type = "presence")
      BY <2>1 DEF Presence
    <3> QED
      BY <2>1, <3>1, <3>2 DEF Seat
  <2>6. Seat(c, Tab(c)', up'[c], handler'[c], In(c)')
    <3>1. Seat(c, Tab(c)', up'[c], handler'[c], FALSE)
      BY <2>4, <2>5
    <3>2. FALSE <=> In(c)'
      BY <2>4
    <3> HIDE DEF In
    <3> QED
      BY <3>1, <3>2, SeatIn
  <2>7. \A s \in Clients \ {c} : /\ Tab(s)' = Tab(s) /\ up'[s] = up[s]
                                 /\ handler'[s] = handler[s] /\ (In(s)' <=> In(s))
    BY <1>h, <2>1, <2>2, <2>3 DEF AllSame, Same, In
  <2> QED
    BY <1>0, <2>6, <2>7, OthersKeepSeats
<1> QED
  BY <1>q, <1>1, <1>2, <1>3, <1>4, <1>5, <1>6, <1>7, <1>8, <1>9, Steps

-----------------------------------------------------------------------------
(* What the rest of a sequence has. *)
LEMMA TailSet ==
  ASSUME NEW S, NEW q \in Seq(S), q # <<>>
  PROVE  /\ Tail(q) \in Seq(S)
         /\ ToSet(q) = {Head(q)} \cup ToSet(Tail(q))
         /\ Distinct(q) => Distinct(Tail(q)) /\ Head(q) \notin ToSet(Tail(q))
<1> DEFINE r == Tail(q)
           n == Len(q)
<1>1. /\ n \in Nat /\ n >= 1 /\ r \in Seq(S) /\ Len(r) = n - 1 /\ Head(q) = q[1]
      /\ \A i \in 1..(n - 1) : r[i] = q[i + 1]
  BY Queues
<1>2. DOMAIN q = 1..n /\ DOMAIN r = 1..(n - 1)
  BY <1>1
<1> HIDE DEF r, n
<1>3. ToSet(q) = {q[i] : i \in 1..n} /\ ToSet(r) = {r[i] : i \in 1..(n - 1)}
  BY <1>2 DEF ToSet
<1>4. ASSUME NEW i \in 1..(n - 1) PROVE i + 1 \in 1..n /\ r[i] = q[i + 1]
  BY <1>1
<1>5. ASSUME NEW i \in 1..n, i # 1 PROVE i - 1 \in 1..(n - 1) /\ r[i - 1] = q[i]
  <2>1. i - 1 \in 1..(n - 1) /\ (i - 1) + 1 = i
    BY <1>1, <1>5
  <2> QED
    BY <1>1, <2>1
<1>6. ToSet(q) = {Head(q)} \cup ToSet(r)
  <2>1. ToSet(q) \subseteq {Head(q)} \cup ToSet(r)
    BY <1>1, <1>3, <1>5
  <2>2. q[1] \in ToSet(q) /\ ToSet(r) \subseteq ToSet(q)
    BY <1>1, <1>3, <1>4
  <2> QED
    BY <1>1, <2>1, <2>2
<1>7. ASSUME Distinct(q) PROVE Distinct(r) /\ Head(q) \notin ToSet(r)
  <2>1. \A i, j \in 1..n : q[i] = q[j] => i = j
    BY <1>2, <1>7 DEF Distinct
  <2>2. ASSUME NEW i \in 1..(n - 1), NEW j \in 1..(n - 1), r[i] = r[j] PROVE i = j
    BY <1>1, <1>4, <2>1, <2>2
  <2>3. ASSUME NEW i \in 1..(n - 1) PROVE r[i] # q[1]
    BY <1>1, <1>4, <2>1
  <2> QED
    BY <1>1, <1>2, <1>3, <2>2, <2>3 DEF Distinct
<1> QED
  BY <1>1, <1>6, <1>7 DEF r

(* The others' queues stay as they are. *)
LEMMA OthersKeepInboxes ==
    ASSUME InboxesFit, NEW c \in Clients,
           \A s \in Clients \ {c} : /\ Same(s) /\ down'[s] = down[s]
                                    /\ heard'[s] = heard[s] /\ (In(s)' <=> In(s)),
           Inbox(c, Tab(c)', Screen(c)'.cursors, down'[c], heard'[c], In(c)')
    PROVE  InboxesFit'
<1>1. ASSUME NEW s \in Clients \ {c}
      PROVE  Inbox(s, Tab(s)', Screen(s)'.cursors, down'[s], heard'[s], In(s)')
  <2>1. Inbox(s, Tab(s)', Screen(s)'.cursors, down'[s], heard'[s], In(s))
    BY <1>1 DEF InboxesFit, Same
  <2>2. In(s) <=> In(s)'
    BY <1>1
  <2> HIDE DEF In
  <2> QED
    BY <2>1, <2>2, InboxIn
<1>2. \A s \in Clients : Inbox(s, Tab(s)', Screen(s)'.cursors, down'[s], heard'[s], In(s)')
  BY <1>1
<1> QED
  BY <1>2 DEF InboxesFit

(* A page receives the first message. *)
LEMMA InboxReceives ==
  ASSUME NEW q \in Seq(Fitting), q # <<>>, NEW s, NEW screen, NEW hs, NEW hs2, NEW in,
         Inbox(s, "open", screen.cursors, q, hs, in)
  PROVE  Inbox(s, "open", Screened(s, Head(q), screen).cursors, Tail(q), hs2, in) \/
         screen # [collaborators |-> screen.collaborators, cursors |-> screen.cursors]
<1> SUFFICES ASSUME screen = [collaborators |-> screen.collaborators, cursors |-> screen.cursors]
             PROVE  Inbox(s, "open", Screened(s, Head(q), screen).cursors, Tail(q), hs2, in)
  OBVIOUS
<1> DEFINE r == Tail(q)
           n == Len(q)
           m == Head(q)
<1>1. /\ n \in Nat /\ n >= 1 /\ Len(r) = n - 1 /\ m = q[1]
      /\ \A i \in 1..(n - 1) : r[i] = q[i + 1]
  BY Queues
<1>2. \A i \in 1..n : q[i].type # "presence" => q[i].from # s
  BY DEF Inbox
<1>3. s \notin screen.cursors /\ in
  BY DEF Inbox
<1> HIDE DEF r, n, m
<1>4. \A i \in 1..Len(r) : r[i].type # "presence" => r[i].from # s
  BY <1>1, <1>2
<1>5. s \notin Screened(s, m, screen).cursors
  <2>1. m.type # "presence" => m.from # s
    BY <1>1, <1>2
  <2> DEFINE a == screen.collaborators
             b == screen.cursors
  <2>2. screen = [collaborators |-> a, cursors |-> b] /\ s \notin b
    BY <1>3
  <2> HIDE DEF a, b
  <2>3. CASE m.type = "presence"
    BY <2>2, <2>3 DEF Screened
  <2>4. CASE m.type = "cursor"
    BY <2>1, <2>2, <2>4 DEF Screened
  <2>5. CASE m.type \notin {"presence", "cursor"}
    BY <2>2, <2>5 DEF Screened
  <2> QED
    BY <2>3, <2>4, <2>5
<1> QED
  BY <1>3, <1>4, <1>5 DEF Inbox, r, m

(* Messages come only to those who are connected and in the room. *)
LEMMA StepInboxes ==
    ASSUME TypeInv, RoomInv, [Next]_vars
    PROVE  InboxesFit'
<1>0. InboxesFit /\ SeatsFit
  BY DEF RoomInv
<1>h. /\ down \in [Clients -> Seq(Fitting)] /\ heard \in [Clients -> [Clients -> Seq(Graphs)]]
      /\ handler \in [Clients -> Tasks]
  BY DEF TypeInv, MessagesFit, HistoryType, TasksFit
<1>i. \A s \in Clients : Inbox(s, Tab(s), Screen(s).cursors, down[s], heard[s], In(s))
  BY <1>0 DEF InboxesFit
<1>j. \A s \in Clients : Seat(s, Tab(s), up[s], handler[s], In(s))
  BY <1>0 DEF SeatsFit
<1>s. ASSUME AllSame, UNCHANGED <<down, heard, members>> PROVE InboxesFit'
  <2>1. \A s \in Clients : Tab(s)' = Tab(s) /\ Screen(s)' = Screen(s)
    BY <1>s DEF AllSame, Same
  <2> QED
    BY <1>i, <1>s, <2>1 DEF InboxesFit, In
<1>1. ASSUME NEW c \in Clients, Open(c) PROVE InboxesFit'
  <2>1. /\ Tab(c) = "new" /\ Tab(c)' = "open" /\ Screen(c)' = Screen(c) /\ OthersSame(c)
        /\ UNCHANGED <<down, members, heard>>
    BY <1>1, OpenStep
  <2>2. ~In(c) /\ Inbox(c, "new", Screen(c).cursors, down[c], heard[c], In(c))
    BY <1>i, <1>j, <2>1 DEF Seat
  <2>3. Inbox(c, "open", Screen(c).cursors, down[c], heard[c], In(c)')
    BY <2>1, <2>2 DEF Inbox, In
  <2>4. Inbox(c, Tab(c)', Screen(c)'.cursors, down'[c], heard'[c], In(c)')
    BY <2>1, <2>3
  <2>5. \A s \in Clients \ {c} : /\ Same(s) /\ down'[s] = down[s]
                                 /\ heard'[s] = heard[s] /\ (In(s)' <=> In(s))
    BY <2>1 DEF OthersSame, In
  <2> QED
    BY <1>0, <2>4, <2>5, OthersKeepInboxes
<1>2. ASSUME NEW c \in Clients, PutAnswered(c) \/ MoveCursor(c), ~Quiet PROVE InboxesFit'
  BY <1>2, <1>s, AnsweredStep, CursorStep
<1>3. ASSUME NEW c \in Clients, Receive(c) PROVE InboxesFit'
  <2>1. /\ Tab(c) = "open" /\ Tab(c)' = "open" /\ OthersSame(c) /\ down[c] # <<>>
        /\ Screen(c)' = Screened(c, Head(down[c]), Screen(c))
        /\ heard' = IF Head(down[c]).type # "graph_edit" THEN heard
                    ELSE [heard EXCEPT ![c][Head(down[c]).from] = Append(@, Head(down[c]).graph)]
        /\ down' = [down EXCEPT ![c] = Tail(@)] /\ UNCHANGED members
    BY <1>3, ReceiveStep
  <2>2. Inbox(c, "open", Screen(c)'.cursors, Tail(down[c]), heard'[c], In(c))
    <3>1. Inbox(c, "open", Screen(c).cursors, down[c], heard[c], In(c)) /\ down[c] \in Seq(Fitting)
      BY <1>h, <1>i, <2>1
    <3>2. Screen(c) = [collaborators |-> Screen(c).collaborators, cursors |-> Screen(c).cursors]
      BY DEF Screen
    <3> HIDE DEF In, Screen
    <3>3. Inbox(c, "open", Screened(c, Head(down[c]), Screen(c)).cursors, Tail(down[c]),
                heard'[c], In(c))
      BY <2>1, <3>1, <3>2, InboxReceives
    <3> QED
      BY <2>1, <3>3
  <2>3. down'[c] = Tail(down[c]) /\ (In(c) <=> In(c)')
    BY <1>h, <2>1 DEF In
  <2>4. Inbox(c, Tab(c)', Screen(c)'.cursors, down'[c], heard'[c], In(c)')
    <3>1. Inbox(c, Tab(c)', Screen(c)'.cursors, down'[c], heard'[c], In(c))
      BY <2>1, <2>2, <2>3
    <3> HIDE DEF In
    <3> QED
      BY <2>3, <3>1, InboxIn
  <2>5. \A s \in Clients \ {c} : /\ Same(s) /\ down'[s] = down[s]
                                 /\ heard'[s] = heard[s] /\ (In(s)' <=> In(s))
    BY <1>h, <2>1 DEF OthersSame, In
  <2> QED
    BY <1>0, <2>4, <2>5, OthersKeepInboxes
<1>4. ASSUME NEW c \in Clients, GoOffline(c) \/ Close(c) PROVE InboxesFit'
  <2>1. /\ Tab(c)' \in {"offline", "closed"} /\ OthersSame(c)
        /\ Screen(c)' = Screen(c) \/ Screen(c)' = [collaborators |-> {}, cursors |-> {}]
        /\ down' = [down EXCEPT ![c] = <<>>]
        /\ \A s \in Clients \ {c} : heard'[s] = heard[s]
        /\ UNCHANGED members
    <3>1. CASE GoOffline(c)
      BY <3>1, OfflineStep
    <3>2. CASE Close(c)
      BY <1>h, <3>2, CloseStep
    <3> QED
      BY <1>4, <3>1, <3>2
  <2>2. down'[c] = <<>> /\ Len(<<>>) = 0 /\ c \notin Screen(c)'.cursors
    <3>1. c \notin Screen(c).cursors
      BY <1>i DEF Inbox
    <3> QED
      BY <1>h, <2>1, <3>1
  <2>3. Inbox(c, Tab(c)', Screen(c)'.cursors, down'[c], heard'[c], In(c)')
    BY <2>1, <2>2 DEF Inbox
  <2>4. \A s \in Clients \ {c} : /\ Same(s) /\ down'[s] = down[s]
                                 /\ heard'[s] = heard[s] /\ (In(s)' <=> In(s))
    BY <1>h, <2>1 DEF OthersSame, In
  <2> QED
    BY <1>0, <2>3, <2>4, OthersKeepInboxes
<1>5. ASSUME NEW c \in Clients, PassCursor(c) \/ TakeEdit(c) \/ SaveEdit(c) \/ StartCast(c)
      PROVE  InboxesFit'
  BY <1>s, <1>5, ServerSteps, TakeStep, SaveStep, StartStep DEF Socket
<1>6. ASSUME NEW c \in Clients, Join(c) PROVE InboxesFit'
  <2>1. members' = Append(members, c) /\ UNCHANGED <<down, heard>> /\ AllSame
    BY <1>6, JoinStep, ServerSteps DEF Announce, Socket
  <2>2. ToSet(members') = ToSet(members) \cup {c}
    BY <2>1, RoomAfter
  <2>3. Tab(c)' = Tab(c) /\ Screen(c)' = Screen(c) /\ In(c)'
    BY <2>1, <2>2 DEF AllSame, Same, In
  <2>4. Inbox(c, Tab(c), Screen(c).cursors, down[c], heard[c], TRUE)
    <3>1. Inbox(c, Tab(c), Screen(c).cursors, down[c], heard[c], In(c))
      BY <1>i
    <3> QED
      BY <3>1 DEF Inbox
  <2>5. Inbox(c, Tab(c)', Screen(c)'.cursors, down'[c], heard'[c], In(c)')
    <3>1. Inbox(c, Tab(c)', Screen(c)'.cursors, down'[c], heard'[c], TRUE)
      BY <2>1, <2>3, <2>4
    <3>2. TRUE <=> In(c)'
      BY <2>3
    <3> HIDE DEF In
    <3> QED
      BY <3>1, <3>2, InboxIn
  <2>6. \A s \in Clients \ {c} : /\ Same(s) /\ down'[s] = down[s]
                                 /\ heard'[s] = heard[s] /\ (In(s)' <=> In(s))
    BY <2>1, <2>2 DEF AllSame, In
  <2> QED
    BY <1>0, <2>5, <2>6, OthersKeepInboxes
<1>7. ASSUME NEW c \in Clients, Leave(c) PROVE InboxesFit'
  <2>1. /\ Tab(c) \in {"closed", "offline"} /\ UNCHANGED <<down, heard>> /\ AllSame
        /\ In(c) => members' = Without(members, c)
        /\ ~In(c) => UNCHANGED members
    BY <1>7, LeaveStep, ServerSteps DEF Announce, Socket, In
  <2>2. ToSet(members') = ToSet(members) \/ ToSet(members') = ToSet(members) \ {c}
    BY <2>1, RoomAfter
  <2>3. Tab(c)' = Tab(c) /\ Screen(c)' = Screen(c)
    BY <2>1 DEF AllSame, Same
  <2>4. Inbox(c, Tab(c), Screen(c).cursors, down[c], heard[c], In(c))
    BY <1>i
  <2>5. Inbox(c, Tab(c)', Screen(c)'.cursors, down'[c], heard'[c], In(c)')
    BY <2>1, <2>3, <2>4 DEF Inbox
  <2>6. \A s \in Clients \ {c} : /\ Same(s) /\ down'[s] = down[s]
                                 /\ heard'[s] = heard[s] /\ (In(s)' <=> In(s))
    BY <2>1, <2>2 DEF AllSame, In
  <2> QED
    BY <1>0, <2>5, <2>6, OthersKeepInboxes
<1>8. ASSUME NEW c \in Clients, Cast(c) PROVE InboxesFit'
  <2>d. PICK d \in Clients, m \in Fitting : d = Head(handler[c].left) /\ m = handler[c].msg
    BY <1>8, CastStep
  <2>1. /\ handler[c].at \in {"cast", "last"} /\ handler[c].left # <<>>
        /\ IF Tab(d) = "open" THEN down' = [down EXCEPT ![d] = Append(@, m)] ELSE UNCHANGED down
        /\ UNCHANGED members
    BY <1>8, <2>d, CastStep
  <2>2. AllSame /\ UNCHANGED heard
    BY <1>8, ServerSteps DEF Socket
  <2>3. In(d) /\ (m.type # "presence" => m.from # d)
    <3>1. /\ Round(c, handler[c], ToSet(members)) /\ Seat(c, Tab(c), up[c], handler[c], In(c))
      BY <1>j DEF RoomInv, RoundsFit
    <3>2. d \in ToSet(handler[c].left)
      <4>1. handler[c].left \in Seq(Clients) /\ handler[c].left # <<>>
        BY <1>h, <2>1 DEF Tasks
      <4> QED
        BY <2>d, <4>1, TailSet
    <3>3. d \in ToSet(members) /\ (m.type # "presence" => d # c)
      BY <2>d, <2>1, <3>1, <3>2 DEF Round
    <3>4. m.type # "presence" => m.from = c
      BY <2>d, <2>1, <3>1 DEF Seat
    <3> QED
      BY <3>3, <3>4 DEF In
  <2>4. CASE Tab(d) # "open"
    BY <1>s, <2>1, <2>2, <2>4
  <2>5. CASE Tab(d) = "open"
    <3> DEFINE q == down[d]
               r == Append(q, m)
    <3>1. /\ Len(q) \in Nat /\ Len(r) = Len(q) + 1 /\ r[Len(q) + 1] = m
          /\ \A i \in 1..Len(q) : r[i] = q[i]
      BY <1>h, <2>1, Queues
    <3>2. Inbox(d, "open", Screen(d).cursors, q, heard[d], In(d))
      BY <1>i, <2>1, <2>5
    <3> HIDE DEF q, r
    <3>3. ASSUME NEW i \in 1..Len(r) PROVE r[i].type # "presence" => r[i].from # d
      BY <2>3, <3>1, <3>2 DEF Inbox
    <3>4. Inbox(d, "open", Screen(d).cursors, r, heard[d], In(d))
      BY <2>3, <3>2, <3>3 DEF Inbox
    <3>5. /\ down' = [down EXCEPT ![d] = r] /\ down'[d] = r
          /\ Tab(d)' = "open" /\ Screen(d)' = Screen(d) /\ (In(d) <=> In(d)')
      <4>1. down' = [down EXCEPT ![d] = r]
        BY <2>1, <2>5 DEF q, r
      <4>2. down'[d] = r
        BY <1>h, <2>1, <4>1
      <4>3. Tab(d)' = "open" /\ Screen(d)' = Screen(d)
        BY <2>1, <2>2, <2>5 DEF AllSame, Same
      <4> QED
        BY <2>1, <4>1, <4>2, <4>3 DEF In
    <3>6. Inbox(d, Tab(d)', Screen(d)'.cursors, down'[d], heard'[d], In(d)')
      <4>1. Inbox(d, Tab(d)', Screen(d)'.cursors, down'[d], heard'[d], In(d))
        BY <2>2, <3>4, <3>5
      <4>2. In(d) <=> In(d)'
        BY <3>5
      <4> HIDE DEF In
      <4> QED
        BY <4>1, <4>2, InboxIn
    <3>7. \A s \in Clients \ {d} : /\ Same(s) /\ down'[s] = down[s]
                                   /\ heard'[s] = heard[s] /\ (In(s)' <=> In(s))
      BY <1>h, <2>1, <2>2, <3>5 DEF AllSame, In
    <3> QED
      BY <1>0, <2>1, <3>6, <3>7, OthersKeepInboxes
  <2> QED
    BY <2>4, <2>5
<1> QED
  BY <1>s, <1>1, <1>2, <1>3, <1>4, <1>5, <1>6, <1>7, <1>8, Steps DEF Quiet

(* Broadcasts go to those in the room, which nobody joins or leaves meanwhile. *)
LEMMA StepRounds ==
    ASSUME TypeInv, RoomInv, [Next]_vars
    PROVE  Distinct(members)' /\ RoundsFit'
<1>0. Distinct(members) /\ RoundsFit /\ SeatsFit
  BY DEF RoomInv
<1>h. handler \in [Clients -> Tasks]
  BY DEF TypeInv, TasksFit
<1>s. ASSUME UNCHANGED <<handler, members>> PROVE Distinct(members)' /\ RoundsFit'
  BY <1>0, <1>s DEF Distinct, RoundsFit, Round
<1>k. ASSUME NEW c \in Clients, UNCHANGED members, NEW t, handler' = [handler EXCEPT ![c] = t],
             Round(c, t, ToSet(members))
      PROVE  Distinct(members)' /\ RoundsFit'
  <2>1. \A s \in Clients : Round(s, handler'[s], ToSet(members))
    BY <1>0, <1>h, <1>k DEF RoundsFit
  <2>2. \A s \in Clients : Round(s, handler'[s], ToSet(members'))
    BY <1>k, <2>1
  <2> QED
    BY <1>0, <1>k, <2>2 DEF RoundsFit, Distinct
<1>n. ASSUME NEW c \in Clients, ~Reading, NEW t, handler' = [handler EXCEPT ![c] = t],
             t.at \notin {"cast", "last"}
      PROVE  RoundsFit'
  <2>1. \A s \in Clients : handler'[s].at \notin {"cast", "last"}
    BY <1>h, <1>n DEF Reading
  <2> QED
    BY <2>1 DEF RoundsFit, Round
<1>1. ASSUME NEW c \in Clients, Join(c) PROVE Distinct(members)' /\ RoundsFit'
  <2>1. /\ up[c] # <<>> /\ NextIn(c).type = "join" /\ members' = Append(members, c) /\ ~Reading
        /\ \E t : handler' = [handler EXCEPT ![c] = t] /\ t.at = "list"
    BY <1>1, JoinStep DEF Announce
  <2>2. ~In(c)
    <3>1. Seat(c, Tab(c), up[c], handler[c], In(c)) /\ up[c] \in Seq(Fitting \cup Joins)
      BY <1>0, SeatTypes DEF SeatsFit
    <3>2. up[c][1] = NextIn(c) /\ 1 \in 1..Len(up[c])
      BY <2>1, <3>1, Queues DEF NextIn
    <3> QED
      BY <2>1, <3>1, <3>2 DEF Seat
  <2>3. Distinct(members')
    BY <1>0, <2>1, <2>2, RoomAfter
  <2>4. RoundsFit'
    BY <1>n, <2>1
  <2> QED
    BY <2>3, <2>4 DEF Distinct
<1>2. ASSUME NEW c \in Clients, Leave(c) PROVE Distinct(members)' /\ RoundsFit'
  <2>1. PICK t \in Tasks :
          /\ handler' = [handler EXCEPT ![c] = t]
          /\ In(c) => /\ ~Reading /\ members' = Without(members, c) /\ t.at = "bye"
          /\ ~In(c) => t.at = "gone" /\ UNCHANGED members
    BY <1>2, LeaveStep DEF Announce, In
  <2>2. CASE In(c)
    <3>1. Distinct(members')
      BY <1>0, <2>1, <2>2, RoomAfter
    <3>2. RoundsFit'
      BY <1>n, <2>1, <2>2
    <3> QED
      BY <3>1, <3>2 DEF Distinct
  <2>3. CASE ~In(c)
    <3>1. Round(c, t, ToSet(members))
      BY <2>1, <2>3 DEF Round
    <3> QED
      BY <1>k, <2>1, <2>3, <3>1
  <2> QED
    BY <2>2, <2>3
<1>3. ASSUME NEW c \in Clients, PassCursor(c) \/ TakeEdit(c) \/ SaveEdit(c)
      PROVE  Distinct(members)' /\ RoundsFit'
  <2>1. PICK t : /\ handler' = [handler EXCEPT ![c] = t] /\ t.at \in {"save", "list"}
                 /\ UNCHANGED members
    BY <1>3, TakeStep, SaveStep
  <2>2. Round(c, t, ToSet(members))
    BY <2>1 DEF Round
  <2> QED
    BY <1>k, <2>1, <2>2
<1>4. ASSUME NEW c \in Clients, NEW left \in Seq(Clients), Went(c, left), UNCHANGED members,
             Distinct(left),
             ToSet(left) \subseteq IF handler[c].msg.type = "presence" THEN ToSet(members)
                                   ELSE ToSet(members) \ {c}
      PROVE  Distinct(members)' /\ RoundsFit'
  <2>1. PICK t : /\ handler' = [handler EXCEPT ![c] = t]
                 /\ left # <<>> => t.msg = handler[c].msg /\ t.left = left
                 /\ left = <<>> => t.at \in {"gone", "idle"}
    BY <1>4 DEF Went
  <2>2. Round(c, t, ToSet(members))
    <3>1. CASE left # <<>>
      BY <1>4, <2>1, <3>1 DEF Round
    <3>2. CASE left = <<>>
      BY <2>1, <3>2 DEF Round
    <3> QED
      BY <3>1, <3>2
  <2> QED
    BY <1>4, <1>k, <2>1, <2>2
<1>5. ASSUME NEW c \in Clients, StartCast(c) PROVE Distinct(members)' /\ RoundsFit'
  <2> DEFINE m == handler[c].msg
             left == Recipients(m)
  <2>1. handler[c].at \in {"list", "bye"} /\ Went(c, left) /\ left \in Seq(Clients)
        /\ UNCHANGED members
    BY <1>5, StartStep
  <2>2. m.type # "presence" => m.from = c
    BY <1>0, <2>1 DEF SeatsFit, Seat
  <2>3. members \in Seq(Clients)
    BY DEF TypeInv, RoomType
  <2> HIDE DEF m
  <2>4. /\ Distinct(left)
        /\ ToSet(left) \subseteq IF m.type = "presence" THEN ToSet(members)
                                 ELSE ToSet(members) \ {c}
    BY <1>0, <2>2, <2>3, WithoutLeaves DEF Recipients
  <2> QED
    BY <1>4, <2>1, <2>4 DEF m
<1>6. ASSUME NEW c \in Clients, Cast(c) PROVE Distinct(members)' /\ RoundsFit'
  <2> DEFINE was == handler[c].left
  <2>1. /\ handler[c].at \in {"cast", "last"} /\ was # <<>> /\ Went(c, Tail(was))
        /\ UNCHANGED members
    BY <1>6, CastStep
  <2>2. was \in Seq(Clients)
    BY <1>h DEF Tasks
  <2>3. /\ Distinct(was)
        /\ ToSet(was) \subseteq IF handler[c].msg.type = "presence" THEN ToSet(members)
                                ELSE ToSet(members) \ {c}
    BY <1>0, <2>1 DEF RoundsFit, Round
  <2> HIDE DEF was
  <2>4. /\ Tail(was) \in Seq(Clients) /\ Distinct(Tail(was)) /\ ToSet(Tail(was)) \subseteq ToSet(was)
    BY <2>1, <2>2, <2>3, TailSet
  <2> QED
    BY <1>4, <2>1, <2>3, <2>4
<1>7. ASSUME NEW c \in Clients,
             Open(c) \/ PutAnswered(c) \/ MoveCursor(c) \/ Receive(c) \/ GoOffline(c) \/ Close(c)
      PROVE  Distinct(members)' /\ RoundsFit'
  BY <1>s, <1>7 DEF Open, PutAnswered, MoveCursor, Receive, GoOffline, Close
<1> QED
  BY <1>s, <1>1, <1>2, <1>3, <1>5, <1>6, <1>7, Steps DEF Quiet

(* The room, its queues and its tasks fit together in every state. *)
LEMMA StepRoomInv == TypeInv /\ RoomInv /\ [Next]_vars => RoomInv'
BY StepSeats, StepInboxes, StepRounds DEF RoomInv

-----------------------------------------------------------------------------
(* The order of the graphs. The task of s took k graphs of those that s sent *)
(* from its queue, and the rest is in the queue: all of it, as long as the   *)
(* page is connected.                                                        *)
Outgoing(ts, q, task, s, tab, k) ==
  /\ k <= Len(ts)
  /\ \E v \in Nat : Sent(ts, s, q, k, v) /\ (tab \in {"new", "open"} => v = Len(ts))
  /\ task.at \in {"save", "list", "cast"} /\ task.msg.type = "graph_edit" =>
       k > 0 /\ task.msg.graph = ts[k]

(* A page that takes part, and a graph that is still to be passed on to it.  *)
Live(c, s) == Tab(c) = "open" /\ In(c) /\ c # s
Pending(c, s) ==
  /\ handler[s].at \in {"save", "list", "cast"} /\ handler[s].msg.type = "graph_edit"
  /\ handler[s].at = "cast" => c \in ToSet(handler[s].left)

Ordered(s, k) ==
  /\ Outgoing(told[s], up[s], handler[s], s, Tab(s), k)
  /\ \A c \in Clients : Incoming(told[s], heard[c][s], down[c], s, k, Live(c, s), Pending(c, s), earlier[c][s])
OrderInv == \A s \in Clients : \E k \in Nat : Ordered(s, k)

(* Only those who take part matter. *)
LEMMA IncomingLive ==
  ASSUME NEW ts, NEW h, NEW q, NEW s, NEW k, NEW live, NEW pending, NEW live2, NEW pending2, NEW b,
         Incoming(ts, h, q, s, k, live, pending, b), live2 => live /\ (pending <=> pending2)
  PROVE  Incoming(ts, h, q, s, k, live2, pending2, b)
<1>1. PICK n \in Nat, e \in Nat :
        /\ Stretch(ts, h, n) /\ Sent(ts, s, q, n, e)
        /\ live => (pending => e + 1 = k) /\ (~pending => e = k) /\ n <= b + Len(h)
  BY Zenon DEF Incoming
<1>2. live2 => (pending2 => e + 1 = k) /\ (~pending2 => e = k) /\ n <= b + Len(h)
  BY <1>1
<1> QED
  BY <1>1, <1>2, Zenon DEF Incoming

(* ... and of a page that takes no part nothing is said. *)
LEMMA IncomingAway ==
  ASSUME NEW ts, NEW h, NEW q, NEW s, NEW k, NEW live, NEW pending, NEW b, NEW live2, NEW pending2,
         NEW b2, Incoming(ts, h, q, s, k, live, pending, b), ~live2
  PROVE  Incoming(ts, h, q, s, k, live2, pending2, b2)
<1>1. PICK n \in Nat, e \in Nat : Stretch(ts, h, n) /\ Sent(ts, s, q, n, e)
  BY Zenon DEF Incoming
<1>2. live2 => (pending2 => e + 1 = k) /\ (~pending2 => e = k) /\ n <= b2 + Len(h)
  OBVIOUS
<1> QED
  BY <1>1, <1>2, Zenon DEF Incoming

(* The next graph is taken, and pending for all. *)
LEMMA IncomingTaken ==
  ASSUME NEW ts, NEW h, NEW q, NEW s, NEW k \in Nat, NEW live, NEW b,
         Incoming(ts, h, q, s, k, live, FALSE, b)
  PROVE  Incoming(ts, h, q, s, k + 1, live, TRUE, b)
<1>1. PICK n \in Nat, e \in Nat : Stretch(ts, h, n) /\ Sent(ts, s, q, n, e) /\ (live => e = k /\ n <= b + Len(h))
  BY Zenon DEF Incoming
<1>2. live => (TRUE => e + 1 = k + 1) /\ (~TRUE => e = k + 1) /\ n <= b + Len(h)
  BY <1>1
<1> QED
  BY <1>1, <1>2, Zenon DEF Incoming

(* At first nothing was sent. *)
LEMMA InitOrder == Init => OrderInv
<1> SUFFICES ASSUME Init, NEW s \in Clients PROVE Ordered(s, 0)
  BY DEF OrderInv
<1>1. /\ told[s] = <<>> /\ up[s] = <<>> /\ handler[s].at = "idle"
      /\ \A c \in Clients : down[c] = <<>> /\ heard[c][s] = <<>> /\ earlier[c][s] = 0
  BY DEF Init, Idle
<1>2. Len(<<>>) = 0
  OBVIOUS
<1>3. Sent(<<>>, s, <<>>, 0, 0)
  BY SentNone
<1>4. Outgoing(told[s], up[s], handler[s], s, Tab(s), 0)
  BY <1>1, <1>2, <1>3 DEF Outgoing
<1>5. ASSUME NEW c \in Clients
      PROVE  Incoming(told[s], heard[c][s], down[c], s, 0, Live(c, s), Pending(c, s), earlier[c][s])
  <2>1. ~Pending(c, s)
    BY <1>1 DEF Pending
  <2>2. Incoming(<<>>, <<>>, <<>>, s, 0, Live(c, s), FALSE, 0)
    <3>1. ASSUME NEW live PROVE Incoming(<<>>, <<>>, <<>>, s, 0, live, FALSE, 0)
      <4>1. Len(<<>>) \in Nat /\ 0 <= Len(<<>>) /\ FALSE \in BOOLEAN /\ 0 \in Nat
        BY <1>2
      <4> QED
        BY <4>1, IncomingFresh
    <3> QED
      BY <3>1
  <2> HIDE DEF Live, Pending
  <2>3. Incoming(<<>>, <<>>, <<>>, s, 0, Live(c, s), Pending(c, s), 0)
    BY <2>1, <2>2, IncomingLive
  <2> QED
    BY <1>1, <2>3
<1> QED
  BY <1>4, <1>5 DEF Ordered

(* The sender's side: it sends ... *)
LEMMA OutgoingSends ==
  ASSUME NEW G, NEW ts \in Seq(G), NEW g \in G, NEW M, NEW q \in Seq(M), NEW m \in M, NEW s,
         NEW task, NEW k \in Nat, Outgoing(ts, q, task, s, "open", k),
         m.type = "graph_edit", m.from = s, m.graph = g
  PROVE  Outgoing(Append(ts, g), Append(q, m), task, s, "open", k)
<1> DEFINE us == Append(ts, g)
           n == Len(ts)
<1>1. n \in Nat /\ Len(us) = n + 1 /\ us[n + 1] = g /\ \A i \in 1..n : us[i] = ts[i]
  BY Queues
<1>2. k <= n /\ Sent(ts, s, q, k, n)
  BY DEF Outgoing
<1>3. Sent(us, s, q, k, n)
  <2>1. Len(q) \in Nat
    BY Queues
  <2> HIDE DEF n
  <2> QED
    BY <1>2, <2>1, SentOn
<1> HIDE DEF us, n
<1>4. Counted(us, s, m, n, n + 1)
  BY <1>1 DEF Counted
<1>5. Sent(us, s, Append(q, m), k, n + 1)
  BY <1>1, <1>3, <1>4, SentMore
<1>6. task.at \in {"save", "list", "cast"} /\ task.msg.type = "graph_edit" =>
        k > 0 /\ task.msg.graph = us[k]
  <2>1. k > 0 => us[k] = ts[k]
    BY <1>1, <1>2
  <2> QED
    BY <2>1 DEF Outgoing
<1> QED
  BY <1>1, <1>2, <1>5, <1>6 DEF Outgoing, us

(* ... something else ... *)
LEMMA OutgoingOther ==
  ASSUME NEW ts, NEW M, NEW q \in Seq(M), NEW m \in M, NEW s, NEW task, NEW tab, NEW k \in Nat,
         Outgoing(ts, q, task, s, tab, k), m.type # "graph_edit"
  PROVE  Outgoing(ts, Append(q, m), task, s, tab, k)
<1>1. PICK v \in Nat : Sent(ts, s, q, k, v) /\ (tab \in {"new", "open"} => v = Len(ts))
  BY DEF Outgoing
<1>2. Counted(ts, s, m, v, v)
  BY DEF Counted
<1>3. Sent(ts, s, Append(q, m), k, v)
  BY <1>1, <1>2, SentMore
<1> QED
  BY <1>1, <1>3 DEF Outgoing

(* ... and its task takes the first message. *)
LEMMA OutgoingTakes ==
  ASSUME NEW ts, NEW M, NEW q \in Seq(M), q # <<>>, NEW s, NEW task, NEW tab, NEW k \in Nat,
         NEW t, Outgoing(ts, q, task, s, tab, k), NEW m, m = Head(q), m.from = s,
         t.at \in {"save", "list"}, m.type = "graph_edit" => t.msg = m,
         m.type # "graph_edit" => t.msg.type # "graph_edit"
  PROVE  /\ m.type = "graph_edit" => Outgoing(ts, Tail(q), t, s, tab, k + 1)
         /\ m.type # "graph_edit" => Outgoing(ts, Tail(q), t, s, tab, k)
<1>1. PICK v \in Nat : Sent(ts, s, q, k, v) /\ (tab \in {"new", "open"} => v = Len(ts))
  BY DEF Outgoing
<1>2. PICK c \in Nat : Counted(ts, s, Head(q), k, c) /\ Sent(ts, s, Tail(q), c, v)
  BY <1>1, SentFirst
<1>3. CASE Head(q).type = "graph_edit"
  <2>1. c = k + 1 /\ c <= Len(ts) /\ Head(q).graph = ts[c]
    BY <1>2, <1>3 DEF Counted
  <2> QED
    BY <1>1, <1>2, <1>3, <2>1 DEF Outgoing
<1>4. CASE Head(q).type # "graph_edit"
  <2>1. c = k
    BY <1>2, <1>4 DEF Counted
  <2> QED
    BY <1>1, <1>2, <1>4, <2>1 DEF Outgoing
<1> QED
  BY <1>3, <1>4

(* A task that goes on with its message, or has none about a graph. *)
LEMMA OutgoingGoesOn ==
  ASSUME NEW ts, NEW q, NEW s, NEW task, NEW tab, NEW k, NEW t,
         Outgoing(ts, q, task, s, tab, k),
         t.at \in {"save", "list", "cast"} /\ t.msg.type = "graph_edit" =>
           task.at \in {"save", "list", "cast"} /\ t.msg = task.msg
  PROVE  Outgoing(ts, q, t, s, tab, k)
BY DEF Outgoing

(* What a broadcast has yet to do, for those who take part: StartCast. *)
LEMMA StartPending ==
    ASSUME TypeInv, RoomInv, NEW a \in Clients, StartCast(a), NEW c \in Clients
    PROVE  Live(c, a)' => Live(c, a) /\ (Pending(c, a) <=> Pending(c, a)')
<1> DEFINE m == handler[a].msg
           left == Recipients(m)
<1>1. /\ handler[a].at \in {"list", "bye"} /\ Went(a, left) /\ left \in Seq(Clients)
      /\ UNCHANGED members
  BY StartStep
<1>2. AllSame
  BY ServerSteps DEF Socket
<1>3. Live(c, a)' <=> Live(c, a)
  BY <1>1, <1>2 DEF Live, AllSame, Same, In
<1>4. /\ m.type # "presence" => m.from = a
      /\ handler[a].at = "bye" => m.type = "presence"
  BY <1>1 DEF RoomInv, SeatsFit, Seat
<1>5. handler \in [Clients -> Tasks] /\ members \in Seq(Clients)
  BY DEF TypeInv, TasksFit, RoomType
<1>6. ASSUME Live(c, a), m.type = "graph_edit" PROVE c \in ToSet(left)
  <2>1. left = Without(members, a) /\ c \in ToSet(members) /\ c # a
    BY <1>4, <1>6 DEF Recipients, Live, In
  <2> QED
    BY <1>5, <2>1, WithoutLeaves
<1>7. ASSUME Live(c, a), m.type = "graph_edit" PROVE left # <<>>
  <2>1. ToSet(<<>>) = {}
    BY DEF ToSet
  <2> HIDE DEF left
  <2> QED
    BY <1>6, <1>7, <2>1
<1>8. PICK t : /\ handler' = [handler EXCEPT ![a] = t]
               /\ left # <<>> => /\ t.msg = m /\ t.left = left
                                 /\ t.at = IF handler[a].at \in {"bye", "last"} THEN "last" ELSE "cast"
               /\ left = <<>> => t.at = IF handler[a].at \in {"bye", "last"} THEN "gone" ELSE "idle"
  BY <1>1 DEF Went
<1>9. handler'[a] = t
  BY <1>5, <1>8
<1> HIDE DEF m, left
<1>10. ASSUME Live(c, a) PROVE Pending(c, a) <=> Pending(c, a)'
  <2>1. CASE m.type = "graph_edit"
    <3>1. left # <<>> /\ c \in ToSet(left) /\ handler[a].at = "list"
      BY <1>1, <1>4, <1>6, <1>7, <1>10, <2>1
    <3>2. t.msg = m /\ t.left = left /\ t.at = "cast"
      BY <1>8, <3>1
    <3> QED
      BY <1>9, <2>1, <3>1, <3>2 DEF Pending, m
  <2>2. CASE m.type # "graph_edit"
    <3>1. t.at \in {"gone", "idle"} \/ t.msg = m
      BY <1>8
    <3> QED
      BY <1>9, <2>2, <3>1 DEF Pending, m
  <2> QED
    BY <2>1, <2>2
<1> QED
  BY <1>3, <1>10

(* ... and Cast, for all but the one that the message was passed to. *)
LEMMA CastPending ==
    ASSUME TypeInv, RoomInv, NEW a \in Clients, Cast(a), NEW c \in Clients
    PROVE  /\ c # Head(handler[a].left) => (Pending(c, a) <=> Pending(c, a)')
           /\ c = Head(handler[a].left) =>
                /\ handler[a].msg.type = "graph_edit" => Pending(c, a)
                /\ ~Pending(c, a)'
<1> DEFINE m == handler[a].msg
           was == handler[a].left
<1>1. handler[a].at \in {"cast", "last"} /\ was # <<>> /\ Went(a, Tail(was))
  BY CastStep
<1>2. handler \in [Clients -> Tasks] /\ was \in Seq(Clients)
  BY DEF TypeInv, TasksFit, Tasks
<1>3. Distinct(was) /\ (handler[a].at = "last" => m.type = "presence")
  BY <1>1 DEF RoomInv, RoundsFit, Round, SeatsFit, Seat
<1>4. PICK t : /\ handler' = [handler EXCEPT ![a] = t]
               /\ Tail(was) # <<>> =>
                    /\ t.msg = m /\ t.left = Tail(was)
                    /\ t.at = IF handler[a].at \in {"bye", "last"} THEN "last" ELSE "cast"
               /\ Tail(was) = <<>> =>
                    t.at = IF handler[a].at \in {"bye", "last"} THEN "gone" ELSE "idle"
  BY <1>1 DEF Went
<1>5. handler'[a] = t
  BY <1>2, <1>4
<1>6. ToSet(was) = {Head(was)} \cup ToSet(Tail(was)) /\ Head(was) \notin ToSet(Tail(was))
  <2> HIDE DEF was
  <2> QED
    BY <1>1, <1>2, <1>3, TailSet
<1>7. Tail(was) = <<>> => ToSet(Tail(was)) = {}
  BY DEF ToSet
<1> DEFINE rest == Tail(was)
           d == Head(was)
<1>8. Pending(c, a) <=> m.type = "graph_edit" /\ c \in ToSet(was)
  <2>1. m.type = "graph_edit" => handler[a].at = "cast"
    BY <1>1, <1>3
  <2> QED
    BY <1>1, <2>1 DEF Pending
<1>9. Pending(c, a)' <=> m.type = "graph_edit" /\ c \in ToSet(rest)
  <2>0. Pending(c, a)' <=> /\ t.at \in {"save", "list", "cast"} /\ t.msg.type = "graph_edit"
                           /\ t.at = "cast" => c \in ToSet(t.left)
    BY <1>5 DEF Pending
  <2>1. CASE rest # <<>>
    <3> HIDE DEF rest, m, was
    <3>1. t.msg = m /\ t.left = rest /\ t.at \in {"cast", "last"}
          /\ (m.type = "graph_edit" => t.at = "cast")
      BY <1>1, <1>3, <1>4, <2>1 DEF rest
    <3> QED
      BY <2>0, <3>1
  <2>2. CASE rest = <<>>
    <3>1. t.at \in {"gone", "idle"} /\ c \notin ToSet(rest)
      BY <1>4, <1>7, <2>2
    <3> QED
      BY <2>0, <3>1
  <2> QED
    BY <2>1, <2>2
<1> HIDE DEF m, rest, Pending
<1>10. ToSet(was) = {d} \cup ToSet(rest) /\ d \notin ToSet(rest)
  BY <1>6 DEF rest
<1> QED
  BY <1>8, <1>9, <1>10 DEF m


-----------------------------------------------------------------------------
(* The order of the graphs from one state to the next. What does not change  *)
(* for a page keeps it ...                                                   *)
LEMMA IncomingSame ==
    ASSUME NEW s \in Clients, NEW c \in Clients, NEW k,
           Incoming(told[s], heard[c][s], down[c], s, k, Live(c, s), Pending(c, s), earlier[c][s]),
           told'[s] = told[s], heard'[c][s] = heard[c][s], down'[c] = down[c],
           earlier'[c][s] = earlier[c][s],
           Live(c, s)' => Live(c, s) /\ (Pending(c, s) <=> Pending(c, s)')
    PROVE  Incoming(told[s], heard[c][s], down[c], s, k, Live(c, s), Pending(c, s), earlier[c][s])'
<1> HIDE DEF Live, Pending
<1>1. Incoming(told[s], heard[c][s], down[c], s, k, Live(c, s)', Pending(c, s)', earlier[c][s])
  BY IncomingLive
<1> QED
  BY <1>1

(* ... and what concerns neither its place nor its sender's.                 *)
LEMMA OrderedSame ==
    ASSUME NEW s \in Clients, NEW k, Ordered(s, k),
           told'[s] = told[s], up'[s] = up[s], handler'[s] = handler[s], Tab(s)' = Tab(s),
           \A c \in Clients : /\ heard'[c][s] = heard[c][s] /\ down'[c] = down[c]
                            /\ earlier'[c][s] = earlier[c][s],
           \A c \in Clients : Live(c, s)' => Live(c, s)
    PROVE  Ordered(s, k)'
<1>1. Outgoing(told[s], up[s], handler[s], s, Tab(s), k)'
  BY DEF Ordered
<1>2. ASSUME NEW c \in Clients
      PROVE  Incoming(told[s], heard[c][s], down[c], s, k, Live(c, s), Pending(c, s), earlier[c][s])'
  <2>1. Pending(c, s)' <=> Pending(c, s)
    BY DEF Pending
  <2>2. Incoming(told[s], heard[c][s], down[c], s, k, Live(c, s), Pending(c, s), earlier[c][s])
    BY DEF Ordered
  <2> HIDE DEF Live, Pending
  <2> QED
    BY <2>1, <2>2, IncomingSame
<1> QED
  BY <1>1, <1>2 DEF Ordered

(* Nothing that the room sees changes. *)
LEMMA QuietOrder ==
    ASSUME OrderInv, Quiet
    PROVE  OrderInv'
<1>1. ASSUME NEW s \in Clients, NEW k \in Nat, Ordered(s, k) PROVE Ordered(s, k)'
  <2>1. /\ \A c \in Clients : Tab(c)' = Tab(c)
        /\ told' = told /\ up' = up /\ handler' = handler /\ heard' = heard /\ down' = down
        /\ members' = members /\ earlier' = earlier
    BY DEF Quiet, AllSame, Same
  <2>2. \A c \in Clients : Live(c, s)' => Live(c, s)
    BY <2>1 DEF Live, In
  <2> QED
    BY <1>1, <2>1, <2>2, OrderedSame
<1> QED
  BY <1>1 DEF OrderInv

(* A page opens, and asks to join. *)
LEMMA OpenOrder ==
    ASSUME TypeInv, RoomInv, OrderInv, NEW a \in Clients, Open(a)
    PROVE  OrderInv'
<1>1. /\ Tab(a) = "new" /\ Tab(a)' = "open" /\ OthersSame(a)
      /\ up' = [up EXCEPT ![a] = <<Joining(a)>>]
      /\ UNCHANGED <<down, members, handler, told, heard, earlier>>
  BY OpenStep
<1>2. Seat(a, Tab(a), up[a], handler[a], In(a))
  BY DEF RoomInv, SeatsFit
<1>3. up[a] = <<>> /\ ~In(a)
  BY <1>1, <1>2 DEF Seat
<1>4. \A c, s \in Clients : Live(c, s)' => Live(c, s)
  BY <1>1, <1>3 DEF Live, In, OthersSame, Same
<1>5. up \in [Clients -> Seq(Fitting \cup Joins)]
  BY DEF TypeInv, MessagesFit
<1>6. ASSUME NEW s \in Clients \ {a}, NEW k \in Nat, Ordered(s, k) PROVE Ordered(s, k)'
  <2>1. up'[s] = up[s] /\ Tab(s)' = Tab(s)
    BY <1>1, <1>5 DEF OthersSame, Same
  <2> QED
    BY <1>1, <1>4, <1>6, <2>1, OrderedSame
<1>7. ASSUME NEW k \in Nat, Ordered(a, k) PROVE Ordered(a, k)'
  <2> DEFINE m == Joining(a)
  <2>1. m.type = "join" /\ Append(<<>>, m) = <<m>> /\ <<>> \in Seq({m}) /\ m \in {m}
    BY DEF Joining
  <2>2. Outgoing(told[a], <<>>, handler[a], a, "new", k)
    BY <1>1, <1>3, <1>7 DEF Ordered
  <2> HIDE DEF m
  <2>3. Outgoing(told[a], Append(<<>>, m), handler[a], a, "new", k)
    BY <2>1, <2>2, OutgoingOther
  <2>4. Outgoing(told[a], <<m>>, handler[a], a, "open", k)
    BY <2>1, <2>3 DEF Outgoing
  <2>5. up'[a] = <<m>>
    BY <1>1, <1>5 DEF m
  <2>6. Outgoing(told[a], up[a], handler[a], a, Tab(a), k)'
    BY <1>1, <2>4, <2>5
  <2>7. ASSUME NEW c \in Clients
        PROVE  Incoming(told[a], heard[c][a], down[c], a, k, Live(c, a), Pending(c, a), earlier[c][a])'
    <3>1. Pending(c, a)' <=> Pending(c, a)
      BY <1>1 DEF Pending
    <3>2. Incoming(told[a], heard[c][a], down[c], a, k, Live(c, a), Pending(c, a), earlier[c][a])
      BY <1>7 DEF Ordered
    <3> HIDE DEF Live, Pending
    <3> QED
      BY <1>1, <1>4, <3>1, <3>2, IncomingSame
  <2> QED
    BY <2>6, <2>7 DEF Ordered
<1> QED
  BY <1>6, <1>7 DEF OrderInv

(* A page tells the others, or sends its cursor. *)
LEMMA SendOrder ==
    ASSUME TypeInv, RoomInv, OrderInv, NEW a \in Clients, PutAnswered(a) \/ MoveCursor(a), ~Quiet
    PROVE  OrderInv'
<1>0. /\ up \in [Clients -> Seq(Fitting \cup Joins)] /\ told \in [Clients -> Seq(Graphs)]
      /\ heard \in [Clients -> [Clients -> Seq(Graphs)]] /\ down \in [Clients -> Seq(Fitting)]
  BY DEF TypeInv, MessagesFit, HistoryType
<1>b. \A c, s \in Clients : earlier[c][s] \in Nat
  BY DEF TypeInv, HistoryType
<1>1. /\ Tab(a) = "open" /\ AllSame /\ UNCHANGED <<down, members, handler, heard, earlier>>
      /\ \/ \E g \in Graphs : /\ up' = [up EXCEPT ![a] = Append(@, GraphEdit(a, g))]
                              /\ told' = [told EXCEPT ![a] = Append(@, g)]
                              /\ GraphEdit(a, g) \in Fitting
         \/ /\ up' = [up EXCEPT ![a] = Append(@, Cursor(a))] /\ Cursor(a) \in Fitting
            /\ UNCHANGED told
  BY AnsweredStep, CursorStep
<1>2. \A s \in Clients : Tab(s)' = Tab(s)
  BY <1>1 DEF AllSame, Same
<1>3. \A c, s \in Clients : /\ Live(c, s)' => Live(c, s)
                            /\ Pending(c, s)' <=> Pending(c, s)
  BY <1>1, <1>2 DEF Live, In, Pending
<1>4. ASSUME NEW s \in Clients \ {a}, NEW k \in Nat, Ordered(s, k) PROVE Ordered(s, k)'
  <2>1. up'[s] = up[s] /\ told'[s] = told[s]
    BY <1>0, <1>1
  <2> QED
    BY <1>1, <1>2, <1>3, <1>4, <2>1, OrderedSame
<1>5. ASSUME NEW k \in Nat, Ordered(a, k) PROVE Ordered(a, k)'
  <2>0. /\ Outgoing(told[a], up[a], handler[a], a, "open", k)
        /\ \A c \in Clients : Incoming(told[a], heard[c][a], down[c], a, k, Live(c, a), Pending(c, a), earlier[c][a])
    BY <1>1, <1>5 DEF Ordered
  <2>1. CASE /\ up' = [up EXCEPT ![a] = Append(@, Cursor(a))] /\ Cursor(a) \in Fitting
             /\ UNCHANGED told
    <3> DEFINE m == Cursor(a)
    <3>1. m.type # "graph_edit" /\ m \in Fitting \cup Joins
      BY <2>1 DEF Cursor
    <3>2. up'[a] = Append(up[a], m) /\ up[a] \in Seq(Fitting \cup Joins)
      BY <1>0, <2>1
    <3> HIDE DEF m
    <3>3. Outgoing(told[a], Append(up[a], m), handler[a], a, "open", k)
      BY <2>0, <3>1, <3>2, OutgoingOther
    <3>4. Outgoing(told[a], up[a], handler[a], a, Tab(a), k)'
      BY <1>1, <1>2, <2>1, <3>2, <3>3
    <3>5. ASSUME NEW c \in Clients
          PROVE  Incoming(told[a], heard[c][a], down[c], a, k, Live(c, a), Pending(c, a), earlier[c][a])'
      <4> HIDE DEF Live, Pending
      <4> QED
        BY <1>1, <1>3, <2>0, <2>1, IncomingSame
    <3> QED
      BY <3>4, <3>5 DEF Ordered
  <2>2. CASE \E g \in Graphs : /\ up' = [up EXCEPT ![a] = Append(@, GraphEdit(a, g))]
                               /\ told' = [told EXCEPT ![a] = Append(@, g)]
                               /\ GraphEdit(a, g) \in Fitting
    <3>1. PICK g \in Graphs : /\ up' = [up EXCEPT ![a] = Append(@, GraphEdit(a, g))]
                              /\ told' = [told EXCEPT ![a] = Append(@, g)]
                              /\ GraphEdit(a, g) \in Fitting
      BY <2>2
    <3> DEFINE m == GraphEdit(a, g)
    <3>2. /\ m.type = "graph_edit" /\ m.from = a /\ m.graph = g /\ m \in Fitting \cup Joins
      BY <3>1 DEF GraphEdit
    <3>3. /\ up'[a] = Append(up[a], m) /\ up[a] \in Seq(Fitting \cup Joins)
          /\ told'[a] = Append(told[a], g) /\ told[a] \in Seq(Graphs)
      BY <1>0, <3>1
    <3> HIDE DEF m
    <3>4. Outgoing(Append(told[a], g), Append(up[a], m), handler[a], a, "open", k)
      BY <2>0, <3>2, <3>3, OutgoingSends
    <3>5. Outgoing(told[a], up[a], handler[a], a, Tab(a), k)'
      BY <1>1, <1>2, <3>3, <3>4
    <3>6. ASSUME NEW c \in Clients
          PROVE  Incoming(told[a], heard[c][a], down[c], a, k, Live(c, a), Pending(c, a), earlier[c][a])'
      <4>1. heard[c][a] \in Seq(Graphs) /\ Len(down[c]) \in Nat
        BY <1>0
      <4> HIDE DEF Live, Pending
      <4>2. Incoming(Append(told[a], g), heard[c][a], down[c], a, k, Live(c, a), Pending(c, a), earlier[c][a])
        BY <1>b, <2>0, <3>3, <4>1, IncomingTold
      <4>3. Incoming(Append(told[a], g), heard[c][a], down[c], a, k, Live(c, a)', Pending(c, a)', earlier[c][a])
        BY <1>3, <4>2, IncomingLive
      <4> QED
        BY <1>1, <3>3, <4>3
    <3> QED
      BY <3>5, <3>6 DEF Ordered
  <2> QED
    BY <1>1, <2>1, <2>2
<1> QED
  BY <1>4, <1>5 DEF OrderInv

(* A page receives the first message. *)
LEMMA ReceiveOrder ==
    ASSUME TypeInv, RoomInv, OrderInv, NEW a \in Clients, Receive(a)
    PROVE  OrderInv'
<1>0. /\ told \in [Clients -> Seq(Graphs)] /\ heard \in [Clients -> [Clients -> Seq(Graphs)]]
      /\ down \in [Clients -> Seq(Fitting)]
  BY DEF TypeInv, MessagesFit, HistoryType
<1>b. \A c, s \in Clients : earlier[c][s] \in Nat
  BY DEF TypeInv, HistoryType
<1>1. /\ Tab(a) = "open" /\ Tab(a)' = "open" /\ OthersSame(a) /\ down[a] # <<>>
      /\ Head(down[a]) \in Fitting
      /\ heard' = IF Head(down[a]).type # "graph_edit" THEN heard
                  ELSE [heard EXCEPT ![a][Head(down[a]).from] = Append(@, Head(down[a]).graph)]
      /\ down' = [down EXCEPT ![a] = Tail(@)]
      /\ UNCHANGED <<up, members, handler, told, earlier>>
  BY ReceiveStep
<1> DEFINE m == Head(down[a])
<1>2. \A s \in Clients : Tab(s)' = Tab(s)
  BY <1>1 DEF OthersSame, Same
<1>3. \A c, s \in Clients : /\ Live(c, s)' => Live(c, s)
                            /\ Pending(c, s)' <=> Pending(c, s)
  BY <1>1, <1>2 DEF Live, In, Pending
<1>4. \A s \in Clients : heard'[a][s] = IF m.type = "graph_edit" /\ m.from = s
                                        THEN Append(heard[a][s], m.graph) ELSE heard[a][s]
  <2>1. CASE m.type # "graph_edit"
    BY <1>1, <2>1
  <2>2. CASE m.type = "graph_edit"
    <3>1. m.from \in Clients
      BY <1>1, <2>2 DEF Fitting, Edits, Lists, Cursors
    <3>2. heard' = [heard EXCEPT ![a][m.from] = Append(@, m.graph)]
      BY <1>1, <2>2
    <3> HIDE DEF m
    <3>3. heard'[a] = [heard[a] EXCEPT ![m.from] = Append(@, m.graph)]
      BY <1>0, <3>2
    <3> QED
      BY <1>0, <2>2, <3>1, <3>3
  <2> QED
    BY <2>1, <2>2
<1>5. /\ down'[a] = Tail(down[a]) /\ down[a] \in Seq(Fitting)
      /\ \A c \in Clients \ {a} : down'[c] = down[c] /\ heard'[c] = heard[c]
  BY <1>0, <1>1
<1> SUFFICES ASSUME NEW s \in Clients, NEW k \in Nat, Ordered(s, k) PROVE Ordered(s, k)'
  BY DEF OrderInv
<1>6. Outgoing(told[s], up[s], handler[s], s, Tab(s), k)'
  BY <1>1, <1>2 DEF Ordered
<1>7. ASSUME NEW c \in Clients
      PROVE  Incoming(told[s], heard[c][s], down[c], s, k, Live(c, s), Pending(c, s), earlier[c][s])'
  <2>0. Incoming(told[s], heard[c][s], down[c], s, k, Live(c, s), Pending(c, s), earlier[c][s])
    BY DEF Ordered
  <2> HIDE DEF Live, Pending
  <2>1. CASE c # a
    BY <1>1, <1>3, <1>5, <2>0, <2>1, IncomingSame
  <2>2. CASE c = a
    <3>1. told[s] \in Seq(Graphs) /\ heard[a][s] \in Seq(Graphs)
      BY <1>0
    <3>2. Incoming(told[s], heard[a][s], down[a], s, k, Live(a, s), Pending(a, s), earlier[a][s])
      BY <2>0, <2>2
    <3>3. Incoming(told[s], IF m.type = "graph_edit" /\ m.from = s
                            THEN Append(heard[a][s], m.graph) ELSE heard[a][s],
                   Tail(down[a]), s, k, Live(a, s), Pending(a, s), earlier[a][s])
      BY <1>1, <1>5, <1>b, <3>1, <3>2, IncomingRead
    <3> HIDE DEF m
    <3>4. Incoming(told[s], heard'[a][s], down'[a], s, k, Live(a, s), Pending(a, s), earlier[a][s])
      BY <1>4, <1>5, <3>3
    <3>5. Incoming(told[s], heard'[a][s], down'[a], s, k, Live(a, s)', Pending(a, s)', earlier[a][s])
      BY <1>3, <3>4, IncomingLive
    <3> QED
      BY <1>1, <2>2, <3>5
  <2> QED
    BY <2>1, <2>2
<1> QED
  BY <1>6, <1>7 DEF Ordered

(* A page is cut off, or closed. *)
LEMMA EndOrder ==
    ASSUME TypeInv, RoomInv, OrderInv, NEW a \in Clients, GoOffline(a) \/ Close(a)
    PROVE  OrderInv'
<1>0. /\ up \in [Clients -> Seq(Fitting \cup Joins)]
      /\ told \in [Clients -> Seq(Graphs)] /\ heard \in [Clients -> [Clients -> Seq(Graphs)]]
      /\ down \in [Clients -> Seq(Fitting)]
  BY DEF TypeInv, MessagesFit, HistoryType
<1>b. \A c, s \in Clients : earlier[c][s] \in Nat
  BY DEF TypeInv, HistoryType
<1>1. /\ Tab(a)' \in {"offline", "closed"} /\ OthersSame(a)
      /\ \/ up' = up
         \/ \E n \in 0..Len(up[a]) : up' = [up EXCEPT ![a] = SubSeq(up[a], 1, n)]
      /\ down' = [down EXCEPT ![a] = <<>>]
      /\ heard' = heard \/ heard' = [heard EXCEPT ![a] = [s \in Clients |-> <<>>]]
      /\ UNCHANGED <<members, handler, told, earlier>>
  BY OfflineStep, CloseStep
<1>2. \A s \in Clients \ {a} : Tab(s)' = Tab(s)
  BY <1>1 DEF OthersSame, Same
<1>3. \A c, s \in Clients : /\ Live(c, s)' => Live(c, s) /\ c # a
                            /\ Pending(c, s)' <=> Pending(c, s)
  BY <1>1, <1>2 DEF Live, In, Pending
<1>4. /\ down'[a] = <<>> /\ \A c \in Clients \ {a} : down'[c] = down[c] /\ heard'[c] = heard[c]
      /\ \A s \in Clients : heard'[a][s] = heard[a][s] \/ heard'[a][s] = <<>>
  BY <1>0, <1>1
<1> SUFFICES ASSUME NEW s \in Clients, NEW k \in Nat, Ordered(s, k) PROVE Ordered(s, k)'
  BY DEF OrderInv
<1>5. Outgoing(told[s], up[s], handler[s], s, Tab(s), k)
  BY DEF Ordered
<1>6. Outgoing(told[s], up[s], handler[s], s, Tab(s), k)'
  <2>1. CASE s # a
    <3>1. up'[s] = up[s]
      BY <1>0, <1>1, <2>1
    <3> QED
      BY <1>1, <1>2, <1>5, <2>1, <3>1
  <2>2. CASE s = a
    <3>1. \E v \in Nat : Sent(told[a], a, up'[a], k, v)
      <4>1. PICK v \in Nat : Sent(told[a], a, up[a], k, v)
        BY <1>5, <2>2 DEF Outgoing
      <4>2. CASE up' = up
        BY <4>1, <4>2
      <4>3. CASE up' # up
        <5>1. PICK n \in 0..Len(up[a]) : up' = [up EXCEPT ![a] = SubSeq(up[a], 1, n)]
          BY <1>1, <4>3
        <5>2. up'[a] = SubSeq(up[a], 1, n) /\ up[a] \in Seq(Fitting \cup Joins)
          BY <1>0, <5>1
        <5> QED
          BY <4>1, <5>2, SentPart
      <4> QED
        BY <4>2, <4>3
    <3>2. Outgoing(told[a], up'[a], handler[a], a, Tab(a)', k)
      BY <1>1, <1>5, <2>2, <3>1 DEF Outgoing
    <3> QED
      BY <1>1, <2>2, <3>2
  <2> QED
    BY <2>1, <2>2
<1>7. ASSUME NEW c \in Clients
      PROVE  Incoming(told[s], heard[c][s], down[c], s, k, Live(c, s), Pending(c, s), earlier[c][s])'
  <2>0. Incoming(told[s], heard[c][s], down[c], s, k, Live(c, s), Pending(c, s), earlier[c][s])
    BY DEF Ordered
  <2>k. k <= Len(told[s]) /\ Len(told[s]) \in Nat
    BY <1>0, <1>5 DEF Outgoing
  <2> HIDE DEF Live, Pending
  <2>1. CASE c # a
    BY <1>1, <1>3, <1>4, <2>0, <2>1, IncomingSame
  <2>2. CASE c = a
    <3>1. Incoming(told[s], heard'[a][s], <<>>, s, k, FALSE, FALSE, earlier[a][s])
      <4>1. CASE heard'[a][s] = heard[a][s]
        BY <1>b, <2>0, <2>2, <4>1, IncomingNone
      <4>2. CASE heard'[a][s] = <<>>
        BY <1>b, <2>k, <4>2, IncomingFresh
      <4> QED
        BY <1>4, <4>1, <4>2
    <3>2. ~Live(a, s)'
      BY <1>3
    <3>3. Incoming(told[s], heard'[a][s], <<>>, s, k, Live(a, s)', Pending(a, s)', earlier[a][s])
      BY <3>1, <3>2, IncomingLive
    <3> QED
      BY <1>1, <1>4, <2>2, <3>3
  <2> QED
    BY <2>1, <2>2
<1> QED
  BY <1>6, <1>7 DEF Ordered

(* A client joins: from here on it is sent all that is sent. *)
LEMMA JoinOrder ==
    ASSUME TypeInv, RoomInv, OrderInv, NEW a \in Clients, Join(a)
    PROVE  OrderInv'
<1>0. /\ up \in [Clients -> Seq(Fitting \cup Joins)] /\ told \in [Clients -> Seq(Graphs)]
      /\ handler \in [Clients -> Tasks]
  BY DEF TypeInv, MessagesFit, HistoryType, TasksFit
<1>1. PICK t \in Tasks :
        /\ handler[a].at = "idle" /\ up[a] # <<>> /\ NextIn(a).type = "join"
        /\ up' = [up EXCEPT ![a] = Tail(@)] /\ members' = Append(members, a)
        /\ handler' = [handler EXCEPT ![a] = t] /\ t.at = "list" /\ t.msg = Presence(members')
        /\ UNCHANGED down
  BY JoinStep DEF Announce
<1>e. earlier \in [Clients -> [Clients -> Nat]]
  BY DEF TypeInv, HistoryType
<1>f. /\ \A c \in Clients \ {a}, s \in Clients : earlier'[c][s] = earlier[c][s]
      /\ \A s \in Clients : earlier'[a][s] = Len(told[s])
  BY <1>e DEF Join
<1>2. AllSame /\ UNCHANGED <<told, heard>>
  BY ServerSteps DEF Socket
<1>3. \A c \in Clients : Tab(c)' = Tab(c)
  BY <1>2 DEF AllSame, Same
<1>4. t.msg.type = "presence"
  BY <1>1 DEF Presence
<1>5. /\ handler'[a] = t /\ up'[a] = Tail(up[a]) /\ up[a] \in Seq(Fitting \cup Joins)
      /\ \A s \in Clients \ {a} : handler'[s] = handler[s] /\ up'[s] = up[s]
  BY <1>0, <1>1
<1>6. ToSet(members') = ToSet(members) \cup {a}
  BY <1>1, RoomAfter
<1>7. \A c, s \in Clients : /\ Live(c, s)' => Live(c, s) \/ (c = a /\ s # a /\ Tab(a) = "open")
                            /\ Pending(c, s)' <=> Pending(c, s)
  BY <1>1, <1>3, <1>4, <1>5, <1>6 DEF Live, In, Pending
<1>8. Seat(a, Tab(a), up[a], handler[a], In(a))
  BY DEF RoomInv, SeatsFit
<1>9. Head(up[a]).from = a /\ ~In(a) /\ Head(up[a]).type = "join"
  <2>1. up[a][1] = Head(up[a]) /\ 1 \in 1..Len(up[a])
    BY <1>1, <1>5, Queues
  <2> QED
    BY <1>1, <1>8, <2>1 DEF Seat, NextIn
<1>10. Tab(a) = "open" => down[a] = <<>> /\ \A s \in Clients : heard[a][s] = <<>>
  <2>1. Inbox(a, Tab(a), Screen(a).cursors, down[a], heard[a], In(a))
    BY DEF RoomInv, InboxesFit
  <2> QED
    BY <1>9, <2>1 DEF Inbox
<1> SUFFICES ASSUME NEW s \in Clients, NEW k \in Nat, Ordered(s, k) PROVE Ordered(s, k)'
  BY DEF OrderInv
<1>11. Outgoing(told[s], up[s], handler[s], s, Tab(s), k)
  BY DEF Ordered
<1>12. Outgoing(told[s], up[s], handler[s], s, Tab(s), k)'
  <2>1. CASE s # a
    BY <1>2, <1>3, <1>5, <1>11, <2>1
  <2>2. CASE s = a
    <3>1. Outgoing(told[a], up[a], handler[a], a, Tab(a), k)
      BY <1>11, <2>2
    <3> DEFINE q == up[a]
    <3>2. /\ q \in Seq(Fitting \cup Joins) /\ q # <<>> /\ Head(q).from = a
          /\ Head(q).type = "join" /\ Outgoing(told[a], q, handler[a], a, Tab(a), k)
      BY <1>1, <1>5, <1>9, <3>1
    <3> HIDE DEF q
    <3>3. Outgoing(told[a], Tail(q), t, a, Tab(a), k)
      BY <1>1, <1>4, <3>2, OutgoingTakes
    <3> QED
      BY <1>2, <1>3, <1>5, <2>2, <3>3 DEF q
  <2> QED
    BY <2>1, <2>2
<1>13. ASSUME NEW c \in Clients
       PROVE  Incoming(told[s], heard[c][s], down[c], s, k, Live(c, s), Pending(c, s), earlier[c][s])'
  <2>0. Incoming(told[s], heard[c][s], down[c], s, k, Live(c, s), Pending(c, s), earlier[c][s])
    BY DEF Ordered
  <2>k. k <= Len(told[s]) /\ Len(told[s]) \in Nat
    BY <1>0, <1>11 DEF Outgoing
  <2>p. Pending(c, s)' \in BOOLEAN /\ (Pending(c, s) => k > 0)
    BY <1>11 DEF Outgoing, Pending
  <2>1. CASE c # a
    <3>1. earlier'[c][s] = earlier[c][s]
      BY <1>f, <2>1
    <3> HIDE DEF Live, Pending
    <3> QED
      BY <1>1, <1>2, <1>7, <2>0, <2>1, <3>1, IncomingSame
  <2>2. CASE c = a /\ Tab(a) = "open"
    <3> HIDE DEF Live, Pending
    <3> DEFINE live == Live(c, s)'
               pending == Pending(c, s)'
    <3>1. pending \in BOOLEAN /\ (pending => k > 0)
      BY <1>7, <2>p
    <3> HIDE DEF live, pending
    <3>2. Incoming(told[s], <<>>, <<>>, s, k, live, pending, Len(told[s]))
      BY <2>k, <3>1, IncomingFresh
    <3> QED
      BY <1>1, <1>2, <1>f, <1>10, <2>2, <3>2 DEF live, pending
  <2>3. CASE c = a /\ Tab(a) # "open"
    <3>1. ~Live(c, s)'
      BY <1>3, <2>3 DEF Live
    <3> HIDE DEF Live, Pending
    <3> DEFINE live == Live(c, s)'
               pending == Pending(c, s)'
               b == earlier'[c][s]
    <3>2. ~live
      BY <3>1
    <3> HIDE DEF live, pending, b
    <3>3. Incoming(told[s], heard[c][s], down[c], s, k, live, pending, b)
      BY <2>0, <3>2, IncomingAway
    <3> QED
      BY <1>1, <1>2, <3>3 DEF live, pending, b
  <2> QED
    BY <2>1, <2>2, <2>3
<1> QED
  BY <1>12, <1>13 DEF Ordered

(* A task takes a cursor, or the next graph: this one is pending for all. *)
LEMMA TakeOrder ==
    ASSUME TypeInv, RoomInv, OrderInv, NEW a \in Clients, PassCursor(a) \/ TakeEdit(a)
    PROVE  OrderInv'
<1>0. /\ up \in [Clients -> Seq(Fitting \cup Joins)] /\ handler \in [Clients -> Tasks]
  BY DEF TypeInv, MessagesFit, TasksFit
<1>1. PICK t \in Tasks :
        /\ handler[a].at = "idle" /\ up[a] # <<>> /\ up' = [up EXCEPT ![a] = Tail(@)]
        /\ handler' = [handler EXCEPT ![a] = t] /\ t.at \in {"save", "list"}
        /\ t.msg = NextIn(a) /\ UNCHANGED <<down, members>>
  BY TakeStep
<1>2. AllSame /\ UNCHANGED <<told, heard, earlier>>
  <2>1. AllSame /\ UNCHANGED <<told, heard>>
    BY ServerSteps DEF Socket
  <2>2. UNCHANGED earlier
    BY DEF PassCursor, TakeEdit
  <2> QED
    BY <2>1, <2>2
<1>3. \A c \in Clients : Tab(c)' = Tab(c)
  BY <1>2 DEF AllSame, Same
<1>4. /\ handler'[a] = t /\ up'[a] = Tail(up[a]) /\ up[a] \in Seq(Fitting \cup Joins)
      /\ \A s \in Clients \ {a} : handler'[s] = handler[s] /\ up'[s] = up[s]
  BY <1>0, <1>1
<1>5. \A c, s \in Clients : Live(c, s)' => Live(c, s)
  BY <1>1, <1>3 DEF Live, In
<1>6. \A c \in Clients : ~Pending(c, a) /\ (Pending(c, a)' <=> t.msg.type = "graph_edit")
  BY <1>1, <1>4 DEF Pending
<1>7. t.msg = Head(up[a]) /\ t.msg.from = a
  <2>1. Seat(a, Tab(a), up[a], handler[a], In(a))
    BY DEF RoomInv, SeatsFit
  <2>2. up[a][1] = Head(up[a]) /\ 1 \in 1..Len(up[a])
    BY <1>1, <1>4, Queues
  <2> QED
    BY <1>1, <2>1, <2>2 DEF Seat, NextIn
<1>8. ASSUME NEW s \in Clients \ {a}, NEW k \in Nat, Ordered(s, k) PROVE Ordered(s, k)'
  BY <1>1, <1>2, <1>3, <1>4, <1>5, <1>8, OrderedSame
<1>9. ASSUME NEW k \in Nat, Ordered(a, k) PROVE \E j \in Nat : Ordered(a, j)'
  <2> DEFINE j == IF t.msg.type = "graph_edit" THEN k + 1 ELSE k
  <2>1. Outgoing(told[a], Tail(up[a]), t, a, Tab(a), j)
    <3> DEFINE q == up[a]
    <3>1. /\ q \in Seq(Fitting \cup Joins) /\ q # <<>> /\ t.msg = Head(q) /\ t.msg.from = a
          /\ Outgoing(told[a], q, handler[a], a, Tab(a), k) /\ t.at \in {"save", "list"}
      BY <1>1, <1>4, <1>7, <1>9 DEF Ordered
    <3> HIDE DEF q, j
    <3>2. /\ t.msg.type = "graph_edit" => Outgoing(told[a], Tail(q), t, a, Tab(a), k + 1)
          /\ t.msg.type # "graph_edit" => Outgoing(told[a], Tail(q), t, a, Tab(a), k)
      BY <3>1, OutgoingTakes
    <3> QED
      BY <3>2 DEF j, q
  <2>2. Outgoing(told[a], up[a], handler[a], a, Tab(a), j)'
    <3> HIDE DEF j
    <3> QED
      BY <1>2, <1>3, <1>4, <2>1
  <2>3. ASSUME NEW c \in Clients
        PROVE  Incoming(told[a], heard[c][a], down[c], a, j, Live(c, a), Pending(c, a), earlier[c][a])'
    <3>0. Incoming(told[a], heard[c][a], down[c], a, k, Live(c, a), Pending(c, a), earlier[c][a])
      BY <1>9 DEF Ordered
    <3> HIDE DEF Live, Pending
    <3>1. CASE t.msg.type = "graph_edit"
      <4> DEFINE live == Live(c, a)
                 now == Live(c, a)'
                 was == Pending(c, a)
                 pending == Pending(c, a)'
      <4>1. Incoming(told[a], heard[c][a], down[c], a, k, live, FALSE, earlier[c][a])
        <5> DEFINE none == FALSE
        <5>1. (was <=> none) /\ (live => live)
          BY <1>6
        <5>2. Incoming(told[a], heard[c][a], down[c], a, k, live, was, earlier[c][a])
          BY <3>0
        <5> HIDE DEF live, was, none
        <5>3. Incoming(told[a], heard[c][a], down[c], a, k, live, none, earlier[c][a])
          BY <5>1, <5>2, IncomingLive
        <5> QED
          BY <5>3 DEF none
      <4>2. pending /\ (now => live)
        BY <1>5, <1>6, <3>1
      <4> HIDE DEF live, now, pending
      <4>3. Incoming(told[a], heard[c][a], down[c], a, k + 1, live, TRUE, earlier[c][a])
        BY <4>1, IncomingTaken
      <4>4. Incoming(told[a], heard[c][a], down[c], a, k + 1, now, pending, earlier[c][a])
        BY <4>2, <4>3, IncomingLive
      <4> QED
        BY <1>1, <1>2, <3>1, <4>4 DEF now, pending
    <3>2. CASE t.msg.type # "graph_edit"
      <4>1. Incoming(told[a], heard[c][a], down[c], a, k, Live(c, a), Pending(c, a), earlier[c][a])'
        BY <1>1, <1>2, <1>5, <1>6, <3>0, <3>2, IncomingSame
      <4> QED
        BY <3>2, <4>1
    <3> QED
      BY <3>1, <3>2
  <2>4. j \in Nat
    OBVIOUS
  <2> HIDE DEF j
  <2>5. Ordered(a, j)'
    BY <2>2, <2>3 DEF Ordered
  <2> QED
    BY <2>4, <2>5
<1>10. ASSUME NEW s \in Clients PROVE \E j \in Nat : Ordered(s, j)'
  BY <1>8, <1>9 DEF OrderInv
<1> QED
  BY <1>10 DEF OrderInv

(* A task goes on with what it has, or is done with it, and passes nothing   *)
(* on yet.                                                                   *)
LEMMA GoesOnOrder ==
    ASSUME TypeInv, RoomInv, OrderInv, NEW a \in Clients, SaveEdit(a) \/ StartCast(a) \/ Leave(a)
    PROVE  OrderInv'
<1>0. handler \in [Clients -> Tasks]
  BY DEF TypeInv, TasksFit
<1>1. PICK t \in Tasks :
        /\ handler' = [handler EXCEPT ![a] = t]
        /\ t.at \in {"save", "list", "cast"} =>
             handler[a].at \in {"save", "list", "cast"} /\ t.msg = handler[a].msg
        /\ UNCHANGED <<up, down>> /\ ToSet(members') \subseteq ToSet(members)
  <2>1. CASE SaveEdit(a)
    BY <2>1, SaveStep
  <2>2. CASE StartCast(a)
    BY <2>2, StartStep DEF Went
  <2>3. CASE Leave(a)
    <3>1. PICK t \in Tasks :
            /\ handler' = [handler EXCEPT ![a] = t] /\ t.at \in {"bye", "gone"}
            /\ members' = Without(members, a) \/ UNCHANGED members
            /\ UNCHANGED <<up, down>>
      BY <2>3, LeaveStep DEF Announce
    <3>2. ToSet(members') \subseteq ToSet(members)
      BY <3>1, RoomAfter
    <3> QED
      BY <3>1, <3>2
  <2> QED
    BY <2>1, <2>2, <2>3
<1>2. AllSame /\ UNCHANGED <<told, heard, earlier>>
  <2>1. AllSame /\ UNCHANGED <<told, heard>>
    BY ServerSteps DEF Socket
  <2>2. UNCHANGED earlier
    BY DEF SaveEdit, StartCast, Leave
  <2> QED
    BY <2>1, <2>2
<1>3. \A c \in Clients : Tab(c)' = Tab(c)
  BY <1>2 DEF AllSame, Same
<1>4. handler'[a] = t /\ \A s \in Clients \ {a} : handler'[s] = handler[s]
  BY <1>0, <1>1
<1>5. \A c, s \in Clients : Live(c, s)' => Live(c, s)
  BY <1>1, <1>3 DEF Live, In
<1>6. ASSUME NEW c \in Clients, Live(c, a)' PROVE Pending(c, a) <=> Pending(c, a)'
  <2>1. CASE SaveEdit(a)
    <3>1. handler[a].at = "save" /\ t.at = "list" /\ t.msg = handler[a].msg
      <4>1. PICK u \in Tasks :
              /\ handler[a].at = "save" /\ handler' = [handler EXCEPT ![a] = u]
              /\ u.at = "list" /\ u.msg = handler[a].msg
        BY <2>1, SaveStep
      <4> QED
        BY <1>0, <1>4, <4>1
    <3> QED
      BY <1>4, <3>1 DEF Pending
  <2>2. CASE StartCast(a)
    <3> HIDE DEF Live, Pending
    <3> QED
      BY <1>6, <2>2, StartPending
  <2>3. CASE Leave(a)
    <3>1. handler[a].at = "idle"
      BY <2>3, LeaveStep
    <3> QED
      BY <1>1, <1>4, <3>1 DEF Pending
  <2> QED
    BY <2>1, <2>2, <2>3
<1>7. ASSUME NEW s \in Clients \ {a}, NEW k \in Nat, Ordered(s, k) PROVE Ordered(s, k)'
  BY <1>1, <1>2, <1>3, <1>4, <1>5, <1>7, OrderedSame
<1>8. ASSUME NEW k \in Nat, Ordered(a, k) PROVE Ordered(a, k)'
  <2>1. Outgoing(told[a], up[a], handler[a], a, Tab(a), k)
    BY <1>8 DEF Ordered
  <2>2. Outgoing(told[a], up[a], t, a, Tab(a), k)
    BY <1>1, <2>1, OutgoingGoesOn
  <2>3. Outgoing(told[a], up[a], handler[a], a, Tab(a), k)'
    BY <1>1, <1>2, <1>3, <1>4, <2>2
  <2>4. ASSUME NEW c \in Clients
        PROVE  Incoming(told[a], heard[c][a], down[c], a, k, Live(c, a), Pending(c, a), earlier[c][a])'
    <3>1. Incoming(told[a], heard[c][a], down[c], a, k, Live(c, a), Pending(c, a), earlier[c][a])
      BY <1>8 DEF Ordered
    <3> HIDE DEF Live, Pending
    <3> QED
      BY <1>1, <1>2, <1>5, <1>6, <3>1, IncomingSame
  <2> QED
    BY <2>3, <2>4 DEF Ordered
<1> QED
  BY <1>7, <1>8 DEF OrderInv

(* A message is passed on to one page. *)
LEMMA CastOrder ==
    ASSUME TypeInv, RoomInv, OrderInv, NEW a \in Clients, Cast(a)
    PROVE  OrderInv'
<1>0. /\ handler \in [Clients -> Tasks] /\ down \in [Clients -> Seq(Fitting)]
  BY DEF TypeInv, TasksFit, MessagesFit
<1>d. PICK d \in Clients, m \in Fitting : d = Head(handler[a].left) /\ m = handler[a].msg
  BY CastStep
<1>b. \A c, s \in Clients : earlier[c][s] \in Nat
  BY DEF TypeInv, HistoryType
<1>1. /\ handler[a].at \in {"cast", "last"} /\ handler[a].left # <<>>
      /\ IF Tab(d) = "open" THEN down' = [down EXCEPT ![d] = Append(@, m)] ELSE UNCHANGED down
      /\ UNCHANGED <<up, members>> /\ Went(a, Tail(handler[a].left))
  BY <1>d, CastStep
<1>2. PICK t \in Tasks :
        /\ handler' = [handler EXCEPT ![a] = t]
        /\ t.at \in {"save", "list", "cast"} =>
             handler[a].at \in {"save", "list", "cast"} /\ t.msg = handler[a].msg
  BY <1>1 DEF Went
<1>3. AllSame /\ UNCHANGED <<told, heard, earlier>>
  <2>1. AllSame /\ UNCHANGED <<told, heard>>
    BY ServerSteps DEF Socket
  <2>2. UNCHANGED earlier
    BY DEF Cast
  <2> QED
    BY <2>1, <2>2
<1>4. \A c \in Clients : Tab(c)' = Tab(c)
  BY <1>3 DEF AllSame, Same
<1>5. handler'[a] = t /\ \A s \in Clients \ {a} : handler'[s] = handler[s]
  BY <1>0, <1>2
<1>6. \A c, s \in Clients : Live(c, s)' => Live(c, s)
  BY <1>1, <1>4 DEF Live, In
<1>7. \A c, s \in Clients : s # a => (Pending(c, s)' <=> Pending(c, s))
  BY <1>5 DEF Pending
<1>8. /\ \A c \in Clients : c # d => (Pending(c, a) <=> Pending(c, a)')
      /\ m.type = "graph_edit" => Pending(d, a)
      /\ ~Pending(d, a)'
      /\ m.type # "graph_edit" => ~Pending(d, a)
  <2>1. m.type # "graph_edit" => ~Pending(d, a)
    BY <1>d DEF Pending
  <2> HIDE DEF Pending
  <2> QED
    BY <1>d, <2>1, CastPending
<1>9. m.type = "graph_edit" => m.from = a
  <2>1. Seat(a, Tab(a), up[a], handler[a], In(a))
    BY DEF RoomInv, SeatsFit
  <2> QED
    BY <1>d, <1>1, <2>1 DEF Seat
<1>10. m.type = "graph_edit" => In(d) /\ d # a
  <2>1. Round(a, handler[a], ToSet(members))
    BY DEF RoomInv, RoundsFit
  <2>2. d \in ToSet(handler[a].left)
    <3>1. handler[a].left \in Seq(Clients)
      BY <1>0 DEF Tasks
    <3> QED
      BY <1>d, <1>1, <3>1, TailSet
  <2> QED
    BY <1>d, <1>1, <2>1, <2>2 DEF Round, In
<1>11. \A c \in Clients : down'[c] = IF c = d /\ Tab(d) = "open" THEN Append(down[d], m)
                                                                 ELSE down[c]
  BY <1>0, <1>1
<1> SUFFICES ASSUME NEW s \in Clients, NEW k \in Nat, Ordered(s, k) PROVE Ordered(s, k)'
  BY DEF OrderInv
<1>12. Outgoing(told[s], up[s], handler[s], s, Tab(s), k)
  BY DEF Ordered
<1>13. Outgoing(told[s], up[s], handler[s], s, Tab(s), k)'
  <2>1. CASE s # a
    BY <1>1, <1>3, <1>4, <1>5, <1>12, <2>1
  <2>2. CASE s = a
    <3>1. Outgoing(told[a], up[a], handler[a], a, Tab(a), k)
      BY <1>12, <2>2
    <3>2. Outgoing(told[a], up[a], t, a, Tab(a), k)
      BY <1>2, <3>1, OutgoingGoesOn
    <3> QED
      BY <1>1, <1>3, <1>4, <1>5, <2>2, <3>2
  <2> QED
    BY <2>1, <2>2
<1>14. ASSUME NEW c \in Clients
       PROVE  Incoming(told[s], heard[c][s], down[c], s, k, Live(c, s), Pending(c, s), earlier[c][s])'
  <2>0. Incoming(told[s], heard[c][s], down[c], s, k, Live(c, s), Pending(c, s), earlier[c][s])
    BY DEF Ordered
  <2>1. CASE c # d
    <3> HIDE DEF Live, Pending
    <3> QED
      BY <1>3, <1>6, <1>7, <1>8, <1>11, <2>0, <2>1, IncomingSame
  <2>2. CASE c = d /\ Tab(d) # "open"
    <3>1. ~Live(d, s)' /\ down'[d] = down[d]
      BY <1>4, <1>11, <2>2 DEF Live
    <3> HIDE DEF Live, Pending
    <3> QED
      BY <1>3, <2>0, <2>2, <3>1, IncomingSame
  <2>3. CASE c = d /\ Tab(d) = "open"
    <3> DEFINE q == down[d]
    <3>1. down'[d] = Append(q, m) /\ q \in Seq(Fitting)
      BY <1>0, <1>11, <2>3
    <3>2. Incoming(told[s], heard[d][s], q, s, k, Live(d, s), Pending(d, s), earlier[d][s])
      BY <2>0, <2>3
    <3>3. m.type = "graph_edit" /\ s = a => Live(d, s)
      BY <1>10, <2>3 DEF Live
    <3> HIDE DEF q, Live, Pending
    <3>4. Incoming(told[s], heard[d][s], Append(q, m), s, k, Live(d, s)', Pending(d, s)', earlier[d][s])
      <4>1. CASE m.type = "graph_edit" /\ s = a
        <5>1. k <= Len(told[s]) /\ m.graph = told[s][k]
          <6>1. handler[a].at \in {"save", "list", "cast"} /\ handler[a].msg.type = "graph_edit"
            <7>1. Seat(a, Tab(a), up[a], handler[a], In(a))
              BY DEF RoomInv, SeatsFit
            <7> QED
              BY <1>d, <1>1, <4>1, <7>1 DEF Seat
          <6> QED
            BY <1>d, <1>12, <4>1, <6>1 DEF Outgoing
        <5> DEFINE live == Live(d, s)
                   pending == Pending(d, s)
        <5>2. live /\ pending /\ Incoming(told[s], heard[d][s], q, s, k, live, pending, earlier[d][s])
          BY <1>8, <3>2, <3>3, <4>1
        <5>3. m.from = s
          BY <1>9, <4>1
        <5> HIDE DEF live, pending
        <5>4. Incoming(told[s], heard[d][s], Append(q, m), s, k, live, FALSE, earlier[d][s])
          BY <3>1, <4>1, <5>1, <5>2, <5>3, <1>b, IncomingEdit
        <5>5. (Live(d, s)' => live) /\ ~Pending(d, s)'
          BY <1>8, <4>1, <5>2
        <5> QED
          BY <5>4, <5>5, IncomingLive
      <4>2. CASE ~(m.type = "graph_edit" /\ s = a)
        <5>1. ~(m.type = "graph_edit" /\ m.from = s)
          BY <1>9, <4>2
        <5>2. Incoming(told[s], heard[d][s], Append(q, m), s, k, Live(d, s), Pending(d, s), earlier[d][s])
          BY <1>b, <3>1, <3>2, <5>1, IncomingOther
        <5>3. Pending(d, s) <=> Pending(d, s)'
          BY <1>7, <1>8, <4>2
        <5> QED
          BY <1>6, <5>2, <5>3, IncomingLive
      <4> QED
        BY <4>1, <4>2
    <3> QED
      BY <1>3, <2>3, <3>1, <3>4
  <2> QED
    BY <2>1, <2>2, <2>3
<1> QED
  BY <1>13, <1>14 DEF Ordered

(* The order is kept by every step. *)
LEMMA StepOrder == TypeInv /\ RoomInv /\ OrderInv /\ [Next]_vars => OrderInv'
BY Steps, QuietOrder, OpenOrder, SendOrder, ReceiveOrder, EndOrder, JoinOrder, TakeOrder,
   GoesOnOrder, CastOrder

-----------------------------------------------------------------------------
(* A page received a stretch of what a peer sent, in its order: the socket's *)
(* task saves each graph before it passes it on, and neither leaves one out  *)
(* nor lets one overtake another (collab.rs, handle_socket and broadcast;    *)
(* ProjectCanvas.tsx, ws.onmessage).                                         *)
THEOREM EditsStayInOrder == Spec => []EditsInOrder
<1>1. TypeInv /\ OrderInv => EditsInOrder
  <2> SUFFICES ASSUME TypeInv, OrderInv, NEW c \in Clients, NEW s \in Clients
               PROVE  \E i \in 1..(1 + Len(told[s]) - Len(heard[c][s])) :
                        heard[c][s] = SubSeq(told[s], i, i + Len(heard[c][s]) - 1)
    BY DEF EditsInOrder
  <2>1. told[s] \in Seq(Graphs) /\ heard[c][s] \in Seq(Graphs)
    BY DEF TypeInv, HistoryType
  <2>2. PICK k \in Nat :
          Incoming(told[s], heard[c][s], down[c], s, k, Live(c, s), Pending(c, s), earlier[c][s])
    BY DEF OrderInv, Ordered
  <2>3. PICK n \in Nat : Stretch(told[s], heard[c][s], n)
    BY <2>2, Zenon DEF Incoming
  <2> QED
    BY <2>1, <2>3, StretchIsPart
<1>2. Init => TypeInv /\ RoomInv /\ OrderInv
  BY InitTypes, InitRoom, InitOrder
<1>3. TypeInv /\ RoomInv /\ OrderInv /\ [Next]_vars => (TypeInv /\ RoomInv /\ OrderInv)'
  BY StepTypes, StepRoomInv, StepOrder
<1> QED
  BY <1>1, <1>2, <1>3, PTL DEF Spec

(* When nothing is on its way, everyone in the room has received every graph *)
(* that anyone else in it sent since it joined, and these are the latest of  *)
(* those that were sent (collab.rs, join_room, leave_room and broadcast).    *)
THEOREM EditsReachAll == Spec => []EditsReachPeers
<1>1. TypeInv /\ RoomInv /\ OrderInv => EditsReachPeers
  <2> SUFFICES ASSUME TypeInv, RoomInv, OrderInv, Settled,
                      NEW c \in ToSet(members), NEW s \in ToSet(members), c # s
               PROVE  /\ IsSuffix(heard[c][s], told[s])
                      /\ Len(told[s]) <= earlier[c][s] + Len(heard[c][s])
    BY DEF EditsReachPeers
  <2>1. c \in Clients /\ s \in Clients
    BY DEF TypeInv, RoomType, ToSet
  <2>2. told[s] \in Seq(Graphs) /\ heard[c][s] \in Seq(Graphs)
    BY <2>1 DEF TypeInv, HistoryType
  <2>3. PICK k \in Nat :
          /\ Outgoing(told[s], up[s], handler[s], s, Tab(s), k)
          /\ Incoming(told[s], heard[c][s], down[c], s, k, Live(c, s), Pending(c, s), earlier[c][s])
    BY <2>1 DEF OrderInv, Ordered
  <2>4. ASSUME NEW d \in ToSet(members)
        PROVE  Tab(d) = "open" /\ handler[d].at = "idle" /\ up[d] = <<>> /\ down[d] = <<>>
    <3>1. d \in Clients /\ In(d)
      BY DEF TypeInv, RoomType, ToSet, In
    <3>2. Seat(d, Tab(d), up[d], handler[d], In(d))
      BY <3>1 DEF RoomInv, SeatsFit
    <3> QED
      BY <3>1, <3>2 DEF Settled, Seat, Online, Tab
  <2>5. k = Len(told[s])
    <3>1. PICK v \in Nat : Sent(told[s], s, up[s], k, v) /\ v = Len(told[s])
      BY <2>3, <2>4 DEF Outgoing
    <3> QED
      BY <2>4, <3>1, SentNone
  <2>6. Live(c, s) /\ ~Pending(c, s)
    BY <2>4 DEF Live, Pending, In
  <2>7. Stretch(told[s], heard[c][s], k) /\ k <= earlier[c][s] + Len(heard[c][s])
    <3> DEFINE live == Live(c, s)
               pending == Pending(c, s)
    <3>1. live /\ ~pending /\ Incoming(told[s], heard[c][s], <<>>, s, k, live, pending, earlier[c][s])
      BY <2>3, <2>4, <2>6
    <3> HIDE DEF live, pending
    <3>2. PICK n \in Nat, e \in Nat :
            /\ Stretch(told[s], heard[c][s], n) /\ Sent(told[s], s, <<>>, n, e)
            /\ live => (pending => e + 1 = k) /\ (~pending => e = k) /\ n <= earlier[c][s] + Len(heard[c][s])
      BY <3>1, Zenon DEF Incoming
    <3> QED
      BY <3>1, <3>2, SentNone
  <2> QED
    BY <2>2, <2>5, <2>7, StretchIsSuffix
<1>2. Init => TypeInv /\ RoomInv /\ OrderInv
  BY InitTypes, InitRoom, InitOrder
<1>3. TypeInv /\ RoomInv /\ OrderInv /\ [Next]_vars => (TypeInv /\ RoomInv /\ OrderInv)'
  BY StepTypes, StepRoomInv, StepOrder
<1> QED
  BY <1>1, <1>2, <1>3, PTL DEF Spec

-----------------------------------------------------------------------------
(* The users and cursors that a page shows. Once it has received what is on  *)
(* its way to it, it shows b: those in the room, if it is current.           *)
Showing(b) == b = [collaborators |-> b.collaborators, cursors |-> b.cursors]
Upto(c, q, screen, current, room) ==
  \E b : /\ Shows(c, q, screen, b) /\ Showing(b)
         /\ current => b.collaborators = room \ {c} /\ b.cursors \subseteq room

(* A list of the room's users is yet to be sent to a page, which is current  *)
(* if there is none and no two were on their way at once.                    *)
Due(c, a) ==
  Announcing(a) /\ (handler[a].at \in {"list", "bye"} \/ c \in ToSet(handler[a].left))
Current(c) == Tab(c) = "open" /\ In(c) /\ ~crossed /\ \A a \in Clients : ~Due(c, a)

ShownFits == \A c \in Clients : Upto(c, down[c], Screen(c), Current(c), ToSet(members))
ListsFit ==
  ~crossed =>
    \A a \in Clients :
      Announcing(a) => /\ handler[a].msg.users = ToSet(members)
                       /\ \A b \in Clients : Announcing(b) => a = b
PresenceInv == ShownFits /\ ListsFit

(* What a message makes of it is still a list of users and one of cursors. *)
LEMMA ScreenedShows ==
  ASSUME NEW c, NEW m, NEW b, Showing(b)
  PROVE  Showing(Screened(c, m, b))
<1> DEFINE us == b.collaborators
           cs == b.cursors
<1>1. b = [collaborators |-> us, cursors |-> cs]
  BY DEF Showing
<1> HIDE DEF us, cs
<1>2. CASE m.type = "presence"
  BY <1>2 DEF Screened, Showing
<1>3. CASE m.type = "cursor"
  BY <1>1, <1>3 DEF Screened, Showing
<1>4. CASE m.type \notin {"presence", "cursor"}
  BY <1>4 DEF Screened
<1> QED
  BY <1>2, <1>3, <1>4

(* Only those who are current matter. *)
LEMMA UptoKept ==
  ASSUME NEW c, NEW q, NEW screen, NEW current, NEW room, NEW current2, NEW room2,
         Upto(c, q, screen, current, room), current2 => current /\ room2 = room
  PROVE  Upto(c, q, screen, current2, room2)
<1>1. PICK b : /\ Shows(c, q, screen, b) /\ Showing(b)
               /\ current => b.collaborators = room \ {c} /\ b.cursors \subseteq room
  BY Zenon DEF Upto
<1>2. current2 => b.collaborators = room2 \ {c} /\ b.cursors \subseteq room2
  BY <1>1
<1> QED
  BY <1>1, <1>2, Zenon DEF Upto

(* Nothing is on its way to a page that is not connected. *)
LEMMA UptoNone ==
  ASSUME NEW c, NEW screen, Showing(screen), NEW current, NEW room, current = FALSE
  PROVE  Upto(c, <<>>, screen, current, room)
<1>1. Shows(c, <<>>, screen, screen)
  BY ShowsNone
<1> QED
  BY <1>1, Zenon DEF Upto

(* The page receives the first message. *)
LEMMA UptoRead ==
  ASSUME NEW M, NEW q \in Seq(M), q # <<>>, NEW c, NEW screen, NEW current, NEW room,
         Upto(c, q, screen, current, room)
  PROVE  Upto(c, Tail(q), Screened(c, Head(q), screen), current, room)
<1>1. PICK b : /\ Shows(c, q, screen, b) /\ Showing(b)
               /\ current => b.collaborators = room \ {c} /\ b.cursors \subseteq room
  BY Zenon DEF Upto
<1>2. Shows(c, Tail(q), Screened(c, Head(q), screen), b)
  BY <1>1, ShowsFirst
<1> QED
  BY <1>1, <1>2, Zenon DEF Upto

(* It is sent a list of those in the room: then it is current, ... *)
LEMMA UptoList ==
  ASSUME NEW M, NEW q \in Seq(M), NEW m \in M, NEW c, NEW screen, NEW current, NEW room,
         NEW current2, Upto(c, q, screen, current, room),
         m.type = "presence", current2 => m.users = room
  PROVE  Upto(c, Append(q, m), screen, current2, room)
<1>1. PICK b : Shows(c, q, screen, b) /\ Showing(b)
  BY Zenon DEF Upto
<1> DEFINE d == Screened(c, m, b)
<1>2. Shows(c, Append(q, m), screen, d)
  BY <1>1, ShowsMore
<1>3. Showing(d)
  BY <1>1, ScreenedShows
<1>4. d.collaborators = m.users \ {c} /\ d.cursors \subseteq m.users
  BY DEF Screened
<1> HIDE DEF d
<1>5. current2 => d.collaborators = room \ {c} /\ d.cursors \subseteq room
  BY <1>4
<1> QED
  BY <1>2, <1>3, <1>5, Zenon DEF Upto

(* ... and is still after something else, which comes from the room.         *)
LEMMA UptoOther ==
  ASSUME NEW M, NEW q \in Seq(M), NEW m \in M, NEW c, NEW screen, NEW current, NEW room,
         Upto(c, q, screen, current, room),
         m.type # "presence", m.from \in room
  PROVE  Upto(c, Append(q, m), screen, current, room)
<1>1. PICK b : /\ Shows(c, q, screen, b) /\ Showing(b)
               /\ current => b.collaborators = room \ {c} /\ b.cursors \subseteq room
  BY Zenon DEF Upto
<1> DEFINE d == Screened(c, m, b)
<1>2. Shows(c, Append(q, m), screen, d)
  BY <1>1, ShowsMore
<1>3. Showing(d)
  BY <1>1, ScreenedShows
<1>4. d.collaborators = b.collaborators /\ d.cursors \subseteq b.cursors \cup {m.from}
  <2> DEFINE us == b.collaborators
             cs == b.cursors
  <2>1. b = [collaborators |-> us, cursors |-> cs]
    BY <1>1 DEF Showing
  <2> HIDE DEF us, cs
  <2>2. CASE m.type = "cursor"
    BY <2>1, <2>2 DEF Screened
  <2>3. CASE m.type # "cursor"
    BY <2>3 DEF Screened
  <2> QED
    BY <2>2, <2>3
<1> HIDE DEF d
<1>5. current => d.collaborators = room \ {c} /\ d.cursors \subseteq room
  BY <1>1, <1>4
<1> QED
  BY <1>2, <1>3, <1>5, Zenon DEF Upto

(* At first nobody is in the room. *)
LEMMA InitPresence == Init => PresenceInv
<1> SUFFICES ASSUME Init PROVE PresenceInv
  OBVIOUS
<1>1. \A c \in Clients : down[c] = <<>> /\ Tab(c) = "new" /\ handler[c].at = "idle"
  BY DEF Init, Tab, Closed, Idle
<1>2. ASSUME NEW c \in Clients PROVE Upto(c, down[c], Screen(c), Current(c), ToSet(members))
  <2>1. Showing(Screen(c))
    BY DEF Showing, Screen
  <2>2. Current(c) = FALSE
    BY <1>1 DEF Current
  <2> HIDE DEF Current
  <2> QED
    BY <1>1, <2>1, <2>2, UptoNone
<1>3. ListsFit
  BY <1>1 DEF ListsFit, Announcing
<1> QED
  BY <1>2, <1>3 DEF PresenceInv, ShownFits

(* What neither receives nor is sent anything shows what it did. *)
LEMMA ShownSame ==
    ASSUME ShownFits, NEW c \in Clients, down'[c] = down[c], Screen(c)' = Screen(c),
           Current(c)' => Current(c) /\ ToSet(members') = ToSet(members)
    PROVE  Upto(c, down[c], Screen(c), Current(c), ToSet(members))'
<1>1. Upto(c, down[c], Screen(c), Current(c), ToSet(members))
  BY DEF ShownFits
<1> DEFINE room == ToSet(members)
           room2 == ToSet(members')
           now == Current(c)'
           current == Current(c)
<1>2. Upto(c, down[c], Screen(c), now, room2)
  <2>1. now => current /\ room2 = room
    OBVIOUS
  <2>2. Upto(c, down[c], Screen(c), current, room)
    BY <1>1
  <2> HIDE DEF room, room2, now, current
  <2> QED
    BY <2>1, <2>2, UptoKept
<1>3. Upto(c, down'[c], Screen(c)', now, room2)
  <2> HIDE DEF now, room2
  <2> QED
    BY <1>2
<1> QED
  BY <1>3 DEF room2, now

(* No task has another list of users. *)
LEMMA ListsSame ==
    ASSUME ListsFit, crossed' = crossed, ToSet(members') = ToSet(members),
           \A a \in Clients : Announcing(a)' => Announcing(a) /\ handler'[a].msg = handler[a].msg
    PROVE  ListsFit'
BY DEF ListsFit

(* The steps of a page. *)
LEMMA PagePresence ==
    ASSUME TypeInv, RoomInv, PresenceInv,
           \/ Quiet
           \/ \E a \in Clients : Open(a) \/ PutAnswered(a) \/ MoveCursor(a) \/ Receive(a)
                                 \/ GoOffline(a) \/ Close(a)
    PROVE  PresenceInv'
<1>0. ShownFits /\ ListsFit /\ down \in [Clients -> Seq(Fitting)]
  BY DEF PresenceInv, TypeInv, MessagesFit
<1>1. UNCHANGED <<members, handler, crossed>>
  BY OpenStep, AnsweredStep, CursorStep, ReceiveStep, OfflineStep, CloseStep DEF Quiet
<1>2. ListsFit'
  BY <1>0, <1>1, ListsSame DEF Announcing
<1>3. \A c \in Clients : Current(c)' <=> /\ Tab(c)' = "open" /\ In(c) /\ ~crossed
                                         /\ \A b \in Clients : ~Due(c, b)
  BY <1>1 DEF Current, In, Due, Announcing
<1>4. \A c \in Clients : Tab(c)' = Tab(c) => (Current(c)' <=> Current(c))
  BY <1>3 DEF Current
<1>s. ASSUME NEW c \in Clients, Same(c), down'[c] = down[c]
      PROVE  Upto(c, down[c], Screen(c), Current(c), ToSet(members))'
  <2>1. (Current(c)' <=> Current(c)) /\ Screen(c)' = Screen(c) /\ ToSet(members') = ToSet(members)
    BY <1>s, <1>1, <1>4 DEF Same
  <2> HIDE DEF Current
  <2> QED
    BY <1>0, <1>s, <2>1, ShownSame
<1>5. CASE AllSame /\ UNCHANGED down
  BY <1>2, <1>s, <1>5 DEF AllSame, PresenceInv, ShownFits
<1>6. ASSUME NEW a \in Clients, OthersSame(a), \A c \in Clients \ {a} : down'[c] = down[c],
             Upto(a, down[a], Screen(a), Current(a), ToSet(members))'
      PROVE  PresenceInv'
  BY <1>2, <1>s, <1>6 DEF OthersSame, PresenceInv, ShownFits
<1>7. ASSUME NEW a \in Clients, Open(a) PROVE PresenceInv'
  <2>1. Tab(a) = "new" /\ Screen(a)' = Screen(a) /\ OthersSame(a) /\ UNCHANGED down
    BY <1>7, OpenStep
  <2>2. ~In(a)
    <3>1. Seat(a, Tab(a), up[a], handler[a], In(a))
      BY DEF RoomInv, SeatsFit
    <3> QED
      BY <2>1, <3>1 DEF Seat
  <2>3. ~Current(a)'
    BY <1>3, <2>2
  <2>4. Upto(a, down[a], Screen(a), Current(a), ToSet(members))'
    BY <1>0, <2>1, <2>3, ShownSame
  <2> QED
    BY <1>6, <2>1, <2>4
<1>8. ASSUME NEW a \in Clients, GoOffline(a) \/ Close(a) PROVE PresenceInv'
  <2>1. /\ Tab(a)' \in {"offline", "closed"} /\ OthersSame(a) /\ down' = [down EXCEPT ![a] = <<>>]
    BY <1>8, OfflineStep, CloseStep
  <2>2. down'[a] = <<>> /\ \A c \in Clients \ {a} : down'[c] = down[c]
    BY <1>0, <2>1
  <2>3. Showing(Screen(a)') /\ Current(a)' = FALSE
    BY <1>3, <2>1 DEF Screen, Showing
  <2>4. Upto(a, down[a], Screen(a), Current(a), ToSet(members))'
    <3> DEFINE screen == Screen(a)'
               now == Current(a)'
               room == ToSet(members')
    <3>1. Showing(screen) /\ now = FALSE
      BY <2>3
    <3> HIDE DEF screen, now, room
    <3>2. Upto(a, <<>>, screen, now, room)
      BY <3>1, UptoNone
    <3> QED
      BY <2>2, <3>2 DEF screen, now, room
  <2> QED
    BY <1>6, <2>1, <2>2, <2>4
<1>9. ASSUME NEW a \in Clients, Receive(a) PROVE PresenceInv'
  <2>1. /\ Tab(a) = "open" /\ Tab(a)' = "open" /\ down[a] # <<>> /\ OthersSame(a)
        /\ Screen(a)' = Screened(a, Head(down[a]), Screen(a))
        /\ down' = [down EXCEPT ![a] = Tail(@)]
    BY <1>9, ReceiveStep
  <2>2. /\ down'[a] = Tail(down[a]) /\ \A c \in Clients \ {a} : down'[c] = down[c]
        /\ down[a] \in Seq(Fitting)
    BY <1>0, <2>1
  <2>3. (Current(a)' <=> Current(a)) /\ ToSet(members') = ToSet(members)
    BY <1>1, <1>4, <2>1
  <2>4. Upto(a, down[a], Screen(a), Current(a), ToSet(members))'
    <3> DEFINE q == down[a]
               screen == Screen(a)
               screen2 == Screened(a, Head(q), screen)
               current == Current(a)
               now == Current(a)'
               room == ToSet(members)
               room2 == ToSet(members')
    <3>1. q \in Seq(Fitting) /\ q # <<>> /\ Upto(a, q, screen, current, room)
      BY <1>0, <2>1, <2>2 DEF ShownFits
    <3>2. now => current /\ room2 = room
      BY <2>3
    <3> HIDE DEF q, screen, screen2, current, now, room, room2
    <3>3. Upto(a, Tail(q), screen2, current, room)
      BY <3>1, UptoRead DEF screen2
    <3>4. room2 = room
      BY <2>3 DEF room, room2
    <3>5. Upto(a, Tail(q), screen2, now, room2)
      BY <3>2, <3>3, <3>4, UptoKept
    <3>6. q = down[a] /\ screen2 = Screen(a)'
      BY <2>1 DEF q, screen2, screen
    <3>7. Upto(a, down'[a], Screen(a)', now, room2)
      BY <2>2, <3>5, <3>6
    <3> QED
      BY <3>7 DEF now, room2
  <2> QED
    BY <1>6, <2>1, <2>2, <2>4
<1>10. ASSUME NEW a \in Clients, PutAnswered(a) \/ MoveCursor(a) PROVE AllSame /\ UNCHANGED down
  BY <1>10, AnsweredStep, CursorStep DEF Quiet
<1> QED
  BY <1>5, <1>7, <1>8, <1>9, <1>10 DEF Quiet

(* A client joins or leaves: a list of the room is due to everybody. *)
LEMMA AnnouncePresence ==
    ASSUME TypeInv, RoomInv, PresenceInv, NEW a \in Clients, Join(a) \/ (Leave(a) /\ In(a))
    PROVE  PresenceInv'
<1>0. ShownFits /\ ListsFit /\ handler \in [Clients -> Tasks]
  BY DEF PresenceInv, TypeInv, TasksFit
<1>1. PICK t \in Tasks :
        /\ handler' = [handler EXCEPT ![a] = t] /\ t.at \in {"list", "bye"}
        /\ t.msg = Presence(members') /\ UNCHANGED down
        /\ crossed' = (crossed \/ \E d \in Clients \ {a} : Announcing(d))
  BY JoinStep, LeaveStep DEF Announce, In
<1>2. AllSame
  BY ServerSteps DEF Socket
<1>3. /\ handler'[a] = t /\ \A b \in Clients \ {a} : handler'[b] = handler[b]
      /\ t.msg.type = "presence" /\ t.msg.users = ToSet(members')
  BY <1>0, <1>1 DEF Presence
<1>4. ASSUME NEW c \in Clients PROVE ~Current(c)'
  <2>1. Due(c, a)'
    BY <1>1, <1>3 DEF Due, Announcing
  <2> QED
    BY <2>1 DEF Current
<1>5. ASSUME NEW c \in Clients
      PROVE  Upto(c, down[c], Screen(c), Current(c), ToSet(members))'
  <2>1. down'[c] = down[c] /\ Screen(c)' = Screen(c) /\ ~Current(c)'
    BY <1>1, <1>2, <1>4 DEF AllSame, Same
  <2> QED
    BY <1>0, <2>1, ShownSame
<1>6. ListsFit'
  <2> SUFFICES ASSUME ~crossed', NEW b \in Clients, Announcing(b)'
               PROVE  b = a
    BY <1>3 DEF ListsFit
  <2> QED
    BY <1>1, <1>3 DEF Announcing
<1> QED
  BY <1>5, <1>6 DEF PresenceInv, ShownFits

(* A task that has no list and gets none. *)
LEMMA OtherPresence ==
    ASSUME TypeInv, RoomInv, PresenceInv, NEW a \in Clients,
           PassCursor(a) \/ TakeEdit(a) \/ SaveEdit(a) \/ (Leave(a) /\ ~In(a))
    PROVE  PresenceInv'
<1>0. ShownFits /\ ListsFit /\ handler \in [Clients -> Tasks]
  BY DEF PresenceInv, TypeInv, TasksFit
<1>1. PICK t \in Tasks :
        /\ handler' = [handler EXCEPT ![a] = t] /\ UNCHANGED <<down, members, crossed>>
        /\ handler[a].at \in {"idle", "save"}
        /\ t.at = "gone" \/ t.msg.type # "presence"
  <2>1. CASE PassCursor(a) \/ TakeEdit(a)
    BY <2>1, TakeStep
  <2>2. CASE SaveEdit(a)
    <3>1. handler[a].at = "save"
      BY <2>2, SaveStep
    <3>2. handler[a].msg.type # "presence"
      BY <1>0, <3>1 DEF Tasks, Edits
    <3> QED
      BY <2>2, <3>2, SaveStep
  <2>3. CASE Leave(a) /\ ~In(a)
    BY <2>3, LeaveStep DEF In
  <2> QED
    BY <2>1, <2>2, <2>3
<1>2. AllSame
  BY ServerSteps DEF Socket
<1>3. handler'[a] = t /\ \A b \in Clients \ {a} : handler'[b] = handler[b]
  BY <1>0, <1>1
<1>4. /\ ~Announcing(a) /\ ~Announcing(a)'
      /\ \A b \in Clients \ {a} : Announcing(b)' <=> Announcing(b)
      /\ \A b \in Clients, c \in Clients : Due(c, b)' <=> Due(c, b)
  BY <1>1, <1>3 DEF Announcing, Due
<1>5. \A c \in Clients : Current(c)' => Current(c)
  BY <1>1, <1>2, <1>4 DEF Current, AllSame, Same, In
<1>6. ASSUME NEW c \in Clients
      PROVE  Upto(c, down[c], Screen(c), Current(c), ToSet(members))'
  <2>1. down'[c] = down[c] /\ Screen(c)' = Screen(c) /\ ToSet(members') = ToSet(members)
    BY <1>1, <1>2 DEF AllSame, Same
  <2> HIDE DEF Current
  <2> QED
    BY <1>0, <1>5, <2>1, ShownSame
<1>7. ListsFit'
  BY <1>0, <1>1, <1>3, <1>4, ListsSame
<1> QED
  BY <1>6, <1>7 DEF PresenceInv, ShownFits

(* A broadcast goes on: its list is due to those whom it has yet to reach.   *)
LEMMA WentDue ==
    ASSUME TypeInv, NEW a \in Clients, NEW left \in Seq(Clients), Went(a, left),
           handler[a].at \in {"list", "bye", "cast", "last"}, NEW c \in Clients
    PROVE  /\ Announcing(a)' => Announcing(a) /\ handler'[a].msg = handler[a].msg
           /\ Due(c, a)' <=> handler[a].msg.type = "presence" /\ c \in ToSet(left)
<1>0. handler \in [Clients -> Tasks]
  BY DEF TypeInv, TasksFit
<1>1. PICK t : /\ handler' = [handler EXCEPT ![a] = t]
               /\ left # <<>> => /\ t.msg = handler[a].msg /\ t.left = left
                                 /\ t.at \in {"cast", "last"}
               /\ left = <<>> => t.at \in {"gone", "idle"}
  BY DEF Went
<1>2. handler'[a] = t
  BY <1>0, <1>1
<1>3. left = <<>> => ToSet(left) = {}
  BY DEF ToSet
<1>4. Announcing(a)' => Announcing(a) /\ handler'[a].msg = handler[a].msg
  BY <1>1, <1>2 DEF Announcing
<1>5. Due(c, a)' <=> handler[a].msg.type = "presence" /\ c \in ToSet(left)
  <2>0. Due(c, a)' <=> /\ t.at \in {"list", "cast", "bye", "last"} /\ t.msg.type = "presence"
                       /\ t.at \in {"list", "bye"} \/ c \in ToSet(t.left)
    BY <1>2 DEF Due, Announcing
  <2>1. CASE left = <<>>
    BY <1>1, <1>3, <2>0, <2>1
  <2>2. CASE left # <<>>
    BY <1>1, <2>0, <2>2
  <2> QED
    BY <2>1, <2>2
<1> QED
  BY <1>4, <1>5

(* It starts ... *)
LEMMA StartPresence ==
    ASSUME TypeInv, RoomInv, PresenceInv, NEW a \in Clients, StartCast(a)
    PROVE  PresenceInv'
<1>0. ShownFits /\ ListsFit /\ handler \in [Clients -> Tasks] /\ members \in Seq(Clients)
  BY DEF PresenceInv, TypeInv, TasksFit, RoomType
<1> DEFINE left == Recipients(handler[a].msg)
<1>1. /\ handler[a].at \in {"list", "bye"} /\ Went(a, left) /\ left \in Seq(Clients)
      /\ UNCHANGED <<down, members, crossed>>
  BY StartStep
<1>2. AllSame
  BY ServerSteps DEF Socket
<1>3. \A b \in Clients \ {a} : handler'[b] = handler[b]
  BY <1>0, <1>1 DEF Went
<1>4. /\ Announcing(a)' => Announcing(a) /\ handler'[a].msg = handler[a].msg
      /\ \A c \in Clients : Due(c, a)' <=> handler[a].msg.type = "presence" /\ c \in ToSet(left)
  <2> HIDE DEF left, Announcing, Due
  <2> QED
    BY <1>1, WentDue
<1>5. \A c \in Clients : In(c) /\ Due(c, a) => Due(c, a)'
  <2>1. handler[a].msg.type = "presence" => left = members
    BY DEF Recipients
  <2> HIDE DEF left
  <2> QED
    BY <1>4, <2>1 DEF Due, Announcing, In
<1>6. \A b \in Clients \ {a} : /\ Announcing(b)' <=> Announcing(b)
                               /\ \A c \in Clients : Due(c, b)' <=> Due(c, b)
  BY <1>3 DEF Announcing, Due
<1> HIDE DEF left
<1>7. \A c \in Clients : Current(c)' => Current(c)
  <2> SUFFICES ASSUME NEW c \in Clients, Current(c)' PROVE Current(c)
    OBVIOUS
  <2>1. Tab(c) = "open" /\ In(c) /\ ~crossed
    BY <1>1, <1>2 DEF Current, AllSame, Same, In
  <2>2. \A b \in Clients : ~Due(c, b)'
    BY DEF Current
  <2> HIDE DEF Due
  <2> QED
    BY <1>5, <1>6, <2>1, <2>2 DEF Current
<1>8. ASSUME NEW c \in Clients
      PROVE  Upto(c, down[c], Screen(c), Current(c), ToSet(members))'
  <2>1. down'[c] = down[c] /\ Screen(c)' = Screen(c) /\ ToSet(members') = ToSet(members)
    BY <1>1, <1>2 DEF AllSame, Same
  <2> HIDE DEF Current
  <2> QED
    BY <1>0, <1>7, <2>1, ShownSame
<1>9. ListsFit'
  <2>1. crossed' = crossed /\ ToSet(members') = ToSet(members)
    BY <1>1
  <2> HIDE DEF Announcing
  <2>2. ASSUME NEW b \in Clients, Announcing(b)'
        PROVE  Announcing(b) /\ handler'[b].msg = handler[b].msg
    <3>1. CASE b = a
      BY <1>4, <2>2, <3>1
    <3>2. CASE b # a
      BY <1>3, <1>6, <2>2, <3>2
    <3> QED
      BY <3>1, <3>2
  <2> QED
    BY <1>0, <2>1, <2>2, ListsSame
<1> QED
  BY <1>8, <1>9 DEF PresenceInv, ShownFits

(* ... and passes its message to one page. *)
LEMMA CastPresence ==
    ASSUME TypeInv, RoomInv, PresenceInv, NEW a \in Clients, Cast(a)
    PROVE  PresenceInv'
<1>0. /\ ShownFits /\ ListsFit /\ handler \in [Clients -> Tasks]
      /\ down \in [Clients -> Seq(Fitting)]
  BY DEF PresenceInv, TypeInv, TasksFit, MessagesFit
<1>d. PICK d \in Clients, m \in Fitting : d = Head(handler[a].left) /\ m = handler[a].msg
  BY CastStep
<1> DEFINE was == handler[a].left
           rest == Tail(was)
<1>1. /\ handler[a].at \in {"cast", "last"} /\ was # <<>> /\ Went(a, rest)
      /\ IF Tab(d) = "open" THEN down' = [down EXCEPT ![d] = Append(@, m)] ELSE UNCHANGED down
      /\ UNCHANGED <<members, crossed>>
  BY <1>d, CastStep
<1>2. AllSame
  BY ServerSteps DEF Socket
<1>3. \A b \in Clients \ {a} : handler'[b] = handler[b]
  BY <1>0, <1>1 DEF Went
<1>4. /\ was \in Seq(Clients) /\ rest \in Seq(Clients) /\ ToSet(was) = {d} \cup ToSet(rest)
      /\ d \notin ToSet(rest)
  <2>1. was \in Seq(Clients) /\ Distinct(was)
    BY <1>0, <1>1 DEF Tasks, RoomInv, RoundsFit, Round
  <2> HIDE DEF was
  <2>2. d = Head(was)
    BY <1>d DEF was
  <2> QED
    BY <1>1, <2>1, <2>2, TailSet
<1>5. /\ Announcing(a)' => Announcing(a) /\ handler'[a].msg = handler[a].msg
      /\ \A c \in Clients : Due(c, a)' <=> m.type = "presence" /\ c \in ToSet(rest)
  <2> HIDE DEF rest, Announcing, Due
  <2> QED
    BY <1>d, <1>1, <1>4, WentDue
<1>6. \A c \in Clients : Due(c, a) <=> m.type = "presence" /\ c \in ToSet(was)
  BY <1>d, <1>1 DEF Due, Announcing
<1>7. \A b \in Clients \ {a} : /\ Announcing(b)' <=> Announcing(b)
                               /\ \A c \in Clients : Due(c, b)' <=> Due(c, b)
  BY <1>3 DEF Announcing, Due
<1> HIDE DEF was, rest
<1>8. \A c \in Clients : c # d \/ m.type # "presence" => \A b \in Clients : Due(c, b)' <=> Due(c, b)
  <2> HIDE DEF Due
  <2> QED
    BY <1>4, <1>5, <1>6, <1>7
<1>9. \A c \in Clients : /\ Tab(c)' = Tab(c) /\ Screen(c)' = Screen(c)
                         /\ Current(c)' => ~crossed /\ Tab(c) = "open"
                         /\ c # d \/ m.type # "presence" => (Current(c)' => Current(c))
  <2>1. \A c \in Clients : Tab(c)' = Tab(c) /\ Screen(c)' = Screen(c) /\ (In(c)' <=> In(c))
    BY <1>1, <1>2 DEF AllSame, Same, In
  <2> HIDE DEF Due, In, Tab, Screen
  <2> QED
    BY <1>1, <1>8, <2>1 DEF Current
<1>10. ToSet(members') = ToSet(members)
  BY <1>1
<1>11. \A c \in Clients : down'[c] = IF c = d /\ Tab(d) = "open" THEN Append(down[d], m)
                                                                  ELSE down[c]
  BY <1>0, <1>1
<1>12. ListsFit'
  <2>1. crossed' = crossed
    BY <1>1
  <2> HIDE DEF Announcing
  <2>2. ASSUME NEW b \in Clients, Announcing(b)'
        PROVE  Announcing(b) /\ handler'[b].msg = handler[b].msg
    <3>1. CASE b = a
      BY <1>5, <2>2, <3>1
    <3>2. CASE b # a
      BY <1>3, <1>7, <2>2, <3>2
    <3> QED
      BY <3>1, <3>2
  <2> QED
    BY <1>0, <1>10, <2>1, <2>2, ListsSame
<1>13. ASSUME NEW c \in Clients
       PROVE  Upto(c, down[c], Screen(c), Current(c), ToSet(members))'
  <2> HIDE DEF Current
  <2>1. CASE c # d
    BY <1>0, <1>9, <1>10, <1>11, <2>1, ShownSame
  <2>2. CASE c = d /\ Tab(d) # "open"
    BY <1>0, <1>9, <1>10, <1>11, <2>2, ShownSame
  <2>3. CASE c = d /\ Tab(d) = "open"
    <3> DEFINE q == down[d]
               screen == Screen(d)
               current == Current(d)
               now == Current(d)'
               room == ToSet(members)
    <3>1. q \in Seq(Fitting) /\ Upto(d, q, screen, current, room)
      BY <1>0 DEF ShownFits
    <3>2. CASE m.type = "presence"
      <4>1. now => m.users = room
        <5>1. Announcing(a)
          BY <1>d, <1>1, <3>2 DEF Announcing
        <5> QED
          BY <1>0, <1>d, <1>9, <5>1 DEF ListsFit
      <4> HIDE DEF q, screen, current, now, room
      <4>2. Upto(d, Append(q, m), screen, now, room)
        BY <3>1, <3>2, <4>1, UptoList
      <4>3. Upto(d, down'[d], Screen(d)', Current(d)', ToSet(members'))
        BY <1>9, <1>10, <1>11, <2>3, <4>2 DEF q, screen, now, room
      <4> QED
        BY <2>3, <4>3
    <3>3. CASE m.type # "presence"
      <4>1. m.from \in room
        <5>1. Seat(a, Tab(a), up[a], handler[a], In(a))
          BY DEF RoomInv, SeatsFit
        <5>2. m.from = a /\ In(a)
          BY <1>d, <1>1, <3>3, <5>1 DEF Seat
        <5> QED
          BY <5>2 DEF In
      <4>2. now => current /\ room = room
        BY <1>9, <3>3
      <4> HIDE DEF q, screen, current, now, room
      <4>3. Upto(d, Append(q, m), screen, current, room)
        BY <3>1, <3>3, <4>1, UptoOther
      <4>4. Upto(d, Append(q, m), screen, now, room)
        BY <4>2, <4>3, UptoKept
      <4>5. Upto(d, down'[d], Screen(d)', Current(d)', ToSet(members'))
        BY <1>9, <1>10, <1>11, <2>3, <4>4 DEF q, screen, now, room
      <4> QED
        BY <2>3, <4>5
    <3> QED
      BY <3>2, <3>3
  <2> QED
    BY <2>1, <2>2, <2>3
<1> QED
  BY <1>12, <1>13 DEF PresenceInv, ShownFits

(* What the pages show and the lists on their way fit in every state. *)
LEMMA StepPresence == TypeInv /\ RoomInv /\ PresenceInv /\ [Next]_vars => PresenceInv'
BY Steps, PagePresence, AnnouncePresence, OtherPresence, StartPresence, CastPresence

(* When nothing is on its way, the room holds the pages that are connected,  *)
(* and unless two lists of its users were on their way at once, each page    *)
(* shows all the others and no cursor of one who left (collab.rs, join_room, *)
(* leave_room, broadcast; ProjectCanvas.tsx, ws.onmessage).                  *)
THEOREM PresenceSettles == Spec => []SettledPresence
<1>1. TypeInv /\ RoomInv /\ PresenceInv => SettledPresence
  <2> SUFFICES ASSUME TypeInv, RoomInv, PresenceInv, Settled
               PROVE  /\ ToSet(members) = {c \in Clients : Online(c)}
                      /\ ~crossed => \A c \in ToSet(members) :
                           /\ view[c].collaborators = ToSet(members) \ {c}
                           /\ view[c].cursors \subseteq view[c].collaborators
    BY DEF SettledPresence
  <2>1. ToSet(members) \subseteq Clients
    BY DEF TypeInv, RoomType, ToSet
  <2>2. \A c \in Clients : Seat(c, Tab(c), up[c], handler[c], In(c))
    BY DEF RoomInv, SeatsFit
  <2>3. \A c \in Clients : /\ up[c] = <<>> /\ down[c] = <<>>
                           /\ handler[c].at = IF Tab(c) \in {"open", "new"} THEN "idle" ELSE "gone"
    BY DEF Settled, Online, Tab
  <2>4. \A c \in Clients : In(c) <=> Tab(c) = "open"
    BY <2>2, <2>3 DEF Seat
  <2>5. ToSet(members) = {c \in Clients : Online(c)}
    BY <2>1, <2>4 DEF In, Online, Tab
  <2>6. ASSUME ~crossed, NEW c \in ToSet(members)
        PROVE  /\ view[c].collaborators = ToSet(members) \ {c}
               /\ view[c].cursors \subseteq view[c].collaborators
    <3>1. c \in Clients /\ In(c)
      BY <2>1 DEF In
    <3>2. \A a \in Clients : ~Due(c, a)
      BY <2>3 DEF Due, Announcing
    <3>3. Current(c)
      BY <2>4, <2>6, <3>1, <3>2 DEF Current
    <3>4. Upto(c, <<>>, Screen(c), Current(c), ToSet(members))
      BY <2>3, <3>1 DEF PresenceInv, ShownFits
    <3>5. Screen(c).collaborators = ToSet(members) \ {c} /\ Screen(c).cursors \subseteq ToSet(members)
      <4> DEFINE current == Current(c)
                 room == ToSet(members)
                 screen == Screen(c)
      <4>1. current /\ Upto(c, <<>>, screen, current, room)
        BY <3>3, <3>4
      <4> HIDE DEF current, room, screen
      <4>2. PICK b : /\ Shows(c, <<>>, screen, b)
                     /\ current => b.collaborators = room \ {c} /\ b.cursors \subseteq room
        BY <4>1, Zenon DEF Upto
      <4>3. screen = b
        BY <4>2, ShowsNone
      <4>4. screen.collaborators = room \ {c} /\ screen.cursors \subseteq room
        BY <4>1, <4>2, <4>3
      <4> QED
        BY <4>4 DEF room, screen
    <3>6. c \notin Screen(c).cursors
      BY <3>1 DEF RoomInv, InboxesFit, Inbox
    <3> QED
      BY <3>5, <3>6 DEF Screen
  <2> QED
    BY <2>5, <2>6
<1>2. Init => TypeInv /\ RoomInv /\ PresenceInv
  BY InitTypes, InitRoom, InitPresence
<1>3. TypeInv /\ RoomInv /\ PresenceInv /\ [Next]_vars => (TypeInv /\ RoomInv /\ PresenceInv)'
  BY StepTypes, StepRoomInv, StepPresence
<1> QED
  BY <1>1, <1>2, <1>3, PTL DEF Spec

=============================================================================
