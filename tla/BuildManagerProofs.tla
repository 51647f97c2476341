-------------------------- MODULE BuildManagerProofs --------------------------
(***************************************************************************)
(* What holds of BuildManager for any number of builds, clients and lines: *)
(* a build's events begin with Start and end with Exit, and those of two   *)
(* builds do not mix.  Neither is inductive by itself: that nothing comes  *)
(* after Exit rests on the readers having ended, that builds do not mix on *)
(* one build at a time being between its check and its end.                *)
(***************************************************************************)
EXTENDS BuildManager, TLAPS

(* The parts of TypeOK, as the proofs treat them. *)
CallTypes ==
  /\ channels \in Channels \cup {None}
  /\ running \in BOOLEAN
  /\ pc \in [Channels -> CallSteps \cup ClientSteps]
  /\ \A c \in Calls : pc[c] \in CallSteps
  /\ \A k \in Clients : pc[k] \in ClientSteps
  /\ tx \in [Channels -> Channels \cup {None}]
TaskTypes ==
  /\ cargo \in [Calls -> {"unborn", "alive", "dead"}]
  /\ lines \in [Calls -> [Streams -> 0..MaxLines]]
  /\ readers \in [Calls -> SUBSET Streams]
  /\ exit \in [Calls -> ExitSteps]
EventTypes ==
  /\ log \in [Channels -> Seq(Events)]
  /\ next \in [Clients -> Nat]
Listening ==
  \A k \in Clients : pc[k] = "connected" =>
    tx[k] # None /\ next[k] \in 1..Len(log[tx[k]]) + 1

LEMMA TypeParts == TypeOK <=> CallTypes /\ TaskTypes /\ EventTypes /\ Listening
BY DEF TypeOK, CallTypes, TaskTypes, EventTypes, Listening

LEMMA InitType == Init => TypeOK
<1> SUFFICES ASSUME Init PROVE TypeOK
  OBVIOUS
<1>1. CallTypes
  BY BuildAssumption DEF Init, CallTypes, Channels, CallSteps, ClientSteps
<1>2. TaskTypes
  BY BuildAssumption DEF Init, TaskTypes, ExitSteps, Streams
<1>3. EventTypes
  BY DEF Init, EventTypes, Channels
<1>4. Listening
  BY DEF Init, Listening, Channels
<1> QED
  BY <1>1, <1>2, <1>3, <1>4, TypeParts

(* Sending adds one event to the end of one channel.                       *)
LEMMA SendAppends ==
  ASSUME TypeOK, NEW c \in Calls, tx[c] \in Channels,
         NEW what \in {"start", "line", "exit"}, Send(c, what)
  PROVE  /\ log' \in [Channels -> Seq(Events)]
         /\ \A ch \in Channels \ {tx[c]} : log'[ch] = log[ch]
         /\ \A ch \in Channels : Len(log'[ch]) >= Len(log[ch])
         /\ Len(log'[tx[c]]) = Len(log[tx[c]]) + 1
         /\ \A i \in DOMAIN log[tx[c]] : log'[tx[c]][i] = log[tx[c]][i]
         /\ log'[tx[c]][Len(log[tx[c]]) + 1] = [of |-> c, what |-> what]
<1> DEFINE e == [of |-> c, what |-> what]
<1>1. e \in Events
  BY DEF Events
<1>2. log \in [Channels -> Seq(Events)]
  BY DEF TypeOK
<1>3. log' = [log EXCEPT ![tx[c]] = Append(log[tx[c]], e)]
  BY DEF Send
<1>4. log[tx[c]] \in Seq(Events)
  BY <1>2
<1>5. /\ Append(log[tx[c]], e) \in Seq(Events)
      /\ Len(Append(log[tx[c]], e)) = Len(log[tx[c]]) + 1
      /\ \A i \in DOMAIN log[tx[c]] : Append(log[tx[c]], e)[i] = log[tx[c]][i]
      /\ Append(log[tx[c]], e)[Len(log[tx[c]]) + 1] = e
  BY <1>1, <1>4
<1>6. log' \in [Channels -> Seq(Events)]
  BY <1>2, <1>3, <1>5
<1>7. /\ log'[tx[c]] = Append(log[tx[c]], e)
      /\ \A ch \in Channels \ {tx[c]} : log'[ch] = log[ch]
  BY <1>2, <1>3
<1>8. \A ch \in Channels : Len(log[ch]) \in Nat
  BY <1>2
<1>9. \A ch \in Channels : Len(log'[ch]) >= Len(log[ch])
  <2> SUFFICES ASSUME NEW ch \in Channels PROVE Len(log'[ch]) >= Len(log[ch])
    OBVIOUS
  <2>1. CASE ch = tx[c]
    BY <2>1, <1>5, <1>7, <1>8
  <2>2. CASE ch # tx[c]
    BY <2>2, <1>7, <1>8
  <2> QED
    BY <2>1, <2>2
<1> QED
  BY <1>5, <1>6, <1>7, <1>9

(* A client's place stays within its channel's events as they grow.        *)
LEMMA PlaceKept ==
  ASSUME TypeOK, EventTypes', UNCHANGED <<tx, next>>,
         \A k \in Clients : pc'[k] = "connected" => pc[k] = "connected",
         \A ch \in Channels : Len(log'[ch]) >= Len(log[ch])
  PROVE  Listening'
<1> SUFFICES ASSUME NEW k \in Clients, pc'[k] = "connected"
             PROVE  tx[k] # None /\ next[k] \in 1..Len(log'[tx[k]]) + 1
  BY DEF Listening
<1>1. tx[k] \in Channels /\ tx[k] # None /\ next[k] \in 1..Len(log[tx[k]]) + 1
  BY DEF TypeOK, Channels
<1>2. Len(log[tx[k]]) \in Nat /\ Len(log'[tx[k]]) \in Nat
  BY <1>1 DEF TypeOK, EventTypes
<1>3. Len(log'[tx[k]]) >= Len(log[tx[k]])
  BY <1>1
<1> QED
  BY <1>1, <1>2, <1>3

(* What is true of a build's channel and tasks, from where its call is.    *)
(* Before Announce it has no tasks and no events; later its events are on  *)
(* its channel only.                                                       *)
Unannounced(c) == pc[c] # "returned"
HasEvent(c, ch) == \E i \in DOMAIN log[ch] : log[ch][i].of = c

Announced ==
  \A c \in Calls :
    /\ pc[c] \in {"spawn", "mark", "announce", "returned"} => tx[c] # None
    /\ Unannounced(c) => readers[c] = {} /\ exit[c] = "none"
    /\ ~Unannounced(c) => exit[c] # "none"
    /\ \A ch \in Channels : HasEvent(c, ch) => ~Unannounced(c) /\ ch = tx[c]

(* Exit was sent by an exit task that has seen both readers end.           *)
ExitIsLast ==
  \A c \in Calls :
    /\ exit[c] \in {"leaving", "done"} => readers[c] = {}
    /\ \A ch \in Channels : \A i \in DOMAIN log[ch] :
         log[ch][i] = [of |-> c, what |-> "exit"] => exit[c] \in {"leaving", "done"}

OrderInv ==
  /\ TypeOK
  /\ Announced
  /\ ExitIsLast
  /\ StartFirstExitLast

LEMMA InitOrder == Init => OrderInv
<1> SUFFICES ASSUME Init PROVE OrderInv
  OBVIOUS
<1>1. \A c \in Calls : pc[c] = "idle" /\ readers[c] = {} /\ exit[c] = "none"
  BY DEF Init, Channels
<1>2. \A ch \in Channels : DOMAIN log[ch] = {}
  BY DEF Init
<1> QED
  BY InitType, <1>1, <1>2
     DEF OrderInv, Announced, Unannounced, HasEvent, ExitIsLast, StartFirstExitLast

-----------------------------------------------------------------------------
(* Every action keeps the types.                                           *)
LEMMA StepType == OrderInv /\ [Next]_vars => TypeOK'
<1> SUFFICES ASSUME OrderInv, [Next]_vars PROVE TypeOK'
  OBVIOUS
<1>0. TypeOK /\ Announced /\ CallTypes /\ TaskTypes /\ EventTypes /\ Listening
  BY TypeParts DEF OrderInv
<1> SUFFICES CallTypes' /\ TaskTypes' /\ EventTypes' /\ Listening'
  BY DEF TypeOK, CallTypes, TaskTypes, EventTypes, Listening
<1> USE <1>0, BuildAssumption DEF Channels, CallSteps, ClientSteps, ExitSteps, Goto
<1> DEFINE Goal == CallTypes' /\ TaskTypes' /\ EventTypes' /\ Listening'
<1>1. ASSUME NEW c \in Calls, StartCheck(c) PROVE Goal
  <2>1. CallTypes'
    BY <1>1 DEF StartCheck, Busy, CallTypes
  <2>2. TaskTypes'
    BY <1>1 DEF StartCheck, Busy, TaskTypes, Streams
  <2>3. EventTypes'
    BY <1>1 DEF StartCheck, Busy, EventTypes, CallTypes
  <2>4. Listening'
    BY <1>1 DEF StartCheck, Busy, Listening, CallTypes, EventTypes
  <2> QED
    BY <2>1, <2>2, <2>3, <2>4
<1>2. ASSUME NEW k \in Clients, Connect(k) PROVE Goal
  <2>1. CallTypes'
    BY <1>2 DEF Connect, CallTypes
  <2>2. TaskTypes'
    BY <1>2 DEF Connect, TaskTypes, Streams
  <2>3. EventTypes'
    BY <1>2 DEF Connect, EventTypes, CallTypes
  <2>4. Listening'
    BY <1>2 DEF Connect, Listening, CallTypes, EventTypes
  <2> QED
    BY <2>1, <2>2, <2>3, <2>4
<1>3. ASSUME NEW x \in Channels, GetChannel(x) PROVE Goal
  <2>1. CallTypes'
    BY <1>3 DEF GetChannel, HasChannel, Position, CallTypes
  <2>2. TaskTypes'
    BY <1>3 DEF GetChannel, HasChannel, Position, TaskTypes, Streams
  <2>3. EventTypes'
    BY <1>3 DEF GetChannel, HasChannel, Position, EventTypes, CallTypes
  <2>4. Listening'
    BY <1>3 DEF GetChannel, HasChannel, Position, Listening, CallTypes, EventTypes
  <2> QED
    BY <2>1, <2>2, <2>3, <2>4
<1>4. ASSUME NEW x \in Channels, OpenChannel(x) PROVE Goal
  <2>1. CallTypes'
    BY <1>4 DEF OpenChannel, HasChannel, Position, CallTypes
  <2>2. TaskTypes'
    BY <1>4 DEF OpenChannel, HasChannel, Position, TaskTypes, Streams
  <2>3. EventTypes'
    BY <1>4 DEF OpenChannel, HasChannel, Position, EventTypes, CallTypes
  <2>4. Listening'
    BY <1>4 DEF OpenChannel, HasChannel, Position, Listening, CallTypes, EventTypes
  <2> QED
    BY <2>1, <2>2, <2>3, <2>4
<1>5. ASSUME NEW c \in Calls, Spawn(c) PROVE Goal
  <2>1. CallTypes'
    BY <1>5 DEF Spawn, CallTypes
  <2>2. TaskTypes'
    BY <1>5 DEF Spawn, TaskTypes, Streams
  <2>3. EventTypes'
    BY <1>5 DEF Spawn, EventTypes, CallTypes
  <2>4. Listening'
    BY <1>5 DEF Spawn, Listening, CallTypes, EventTypes
  <2> QED
    BY <2>1, <2>2, <2>3, <2>4
<1>6. ASSUME NEW c \in Calls, Mark(c) PROVE Goal
  <2>1. CallTypes'
    BY <1>6 DEF Mark, CallTypes
  <2>2. TaskTypes'
    BY <1>6 DEF Mark, TaskTypes, Streams
  <2>3. EventTypes'
    BY <1>6 DEF Mark, EventTypes, CallTypes
  <2>4. Listening'
    BY <1>6 DEF Mark, Listening, CallTypes, EventTypes
  <2> QED
    BY <2>1, <2>2, <2>3, <2>4
<1>7. ASSUME NEW c \in Calls, Announce(c) PROVE Goal
  <2>0. tx[c] \in Channels
    BY <1>7 DEF Announce, Announced, Unannounced, CallTypes
  <2>5. Send(c, "start")
    BY <1>7 DEF Announce
  <2>1. CallTypes'
    BY <1>7 DEF Announce, CallTypes
  <2>2. TaskTypes'
    BY <1>7 DEF Announce, TaskTypes, Streams
  <2>3. EventTypes'
    BY <1>7, <2>0, <2>5, SendAppends DEF Announce, EventTypes, CallTypes
  <2>4. Listening'
    BY <1>7, <2>0, <2>3, <2>5, SendAppends, PlaceKept DEF Announce, CallTypes
  <2> QED
    BY <2>1, <2>2, <2>3, <2>4
<1>8. ASSUME NEW c \in Calls, NEW s \in Streams, ReadLine(c, s) PROVE Goal
  <2>0. tx[c] \in Channels
    BY <1>8 DEF ReadLine, Announced, Unannounced, CallTypes
  <2>5. Send(c, "line")
    BY <1>8 DEF ReadLine
  <2>1. CallTypes'
    BY <1>8 DEF ReadLine, CallTypes
  <2>2. TaskTypes'
    BY <1>8 DEF ReadLine, TaskTypes, Streams
  <2>3. EventTypes'
    BY <1>8, <2>0, <2>5, SendAppends DEF ReadLine, EventTypes, CallTypes
  <2>4. Listening'
    BY <1>8, <2>0, <2>3, <2>5, SendAppends, PlaceKept DEF ReadLine, CallTypes
  <2> QED
    BY <2>1, <2>2, <2>3, <2>4
<1>9. ASSUME NEW c \in Calls, NEW s \in Streams, ReadEnd(c, s) PROVE Goal
  <2>1. CallTypes'
    BY <1>9 DEF ReadEnd, CallTypes
  <2>2. TaskTypes'
    BY <1>9 DEF ReadEnd, TaskTypes, Streams
  <2>3. EventTypes'
    BY <1>9 DEF ReadEnd, EventTypes, CallTypes
  <2>4. Listening'
    BY <1>9 DEF ReadEnd, Listening, CallTypes, EventTypes
  <2> QED
    BY <2>1, <2>2, <2>3, <2>4
<1>10. ASSUME NEW c \in Calls, ExitSend(c) PROVE Goal
  <2>0. tx[c] \in Channels
    BY <1>10 DEF ExitSend, SendExit, Announced, Unannounced, CallTypes
  <2>5. Send(c, "exit")
    BY <1>10 DEF ExitSend, SendExit
  <2>1. CallTypes'
    BY <1>10 DEF ExitSend, SendExit, CallTypes
  <2>2. TaskTypes'
    BY <1>10 DEF ExitSend, SendExit, TaskTypes, Streams
  <2>3. EventTypes'
    BY <1>10, <2>0, <2>5, SendAppends DEF ExitSend, SendExit, EventTypes, CallTypes
  <2>4. Listening'
    BY <1>10, <2>0, <2>3, <2>5, SendAppends, PlaceKept DEF ExitSend, CallTypes
  <2> QED
    BY <2>1, <2>2, <2>3, <2>4
<1>11. ASSUME NEW c \in Calls, ExitRemove(c) PROVE Goal
  <2>1. CallTypes'
    BY <1>11 DEF ExitRemove, Unmarked, CallTypes
  <2>2. TaskTypes'
    BY <1>11 DEF ExitRemove, Unmarked, TaskTypes, Streams
  <2>3. EventTypes'
    BY <1>11 DEF ExitRemove, Unmarked, EventTypes, CallTypes
  <2>4. Listening'
    BY <1>11 DEF ExitRemove, Unmarked, Listening, CallTypes, EventTypes
  <2> QED
    BY <2>1, <2>2, <2>3, <2>4
<1>12. ASSUME NEW c \in Calls, CargoExits(c) PROVE Goal
  <2>1. CallTypes'
    BY <1>12 DEF CargoExits, CallTypes
  <2>2. TaskTypes'
    BY <1>12 DEF CargoExits, TaskTypes, Streams
  <2>3. EventTypes'
    BY <1>12 DEF CargoExits, EventTypes, CallTypes
  <2>4. Listening'
    BY <1>12 DEF CargoExits, Listening, CallTypes, EventTypes
  <2> QED
    BY <2>1, <2>2, <2>3, <2>4
<1>13. ASSUME NEW k \in Clients, Forward(k) PROVE Goal
  <2>1. CallTypes'
    BY <1>13 DEF Forward, CallTypes
  <2>2. TaskTypes'
    BY <1>13 DEF Forward, TaskTypes, Streams
  <2>3. EventTypes'
    BY <1>13 DEF Forward, EventTypes, CallTypes
  <2>4. Listening'
    <3> SUFFICES ASSUME NEW j \in Clients, pc'[j] = "connected"
                 PROVE  tx[j] # None /\ next'[j] \in 1..Len(log[tx[j]]) + 1
      BY <1>13 DEF Forward, Listening
    <3>1. pc[j] = "connected" /\ tx[j] \in Channels
      BY <1>13 DEF Forward, CallTypes, Listening
    <3>2. tx[j] # None /\ next[j] \in 1..Len(log[tx[j]]) + 1 /\ Len(log[tx[j]]) \in Nat
      BY <3>1 DEF Listening, EventTypes
    <3>3. next'[j] = next[j] \/ (j = k /\ next'[j] = next[j] + 1)
      BY <1>13 DEF Forward, EventTypes
    <3>4. j = k => Len(log[tx[j]]) - next[j] + 1 > 0
      BY <1>13 DEF Forward
    <3> QED
      BY <3>2, <3>3, <3>4
  <2> QED
    BY <2>1, <2>2, <2>3, <2>4
<1>14. ASSUME NEW k \in Clients, Leave(k) PROVE Goal
  <2>1. CallTypes'
    BY <1>14 DEF Leave, CallTypes
  <2>2. TaskTypes'
    BY <1>14 DEF Leave, TaskTypes, Streams
  <2>3. EventTypes'
    BY <1>14 DEF Leave, EventTypes, CallTypes
  <2>4. Listening'
    BY <1>14 DEF Leave, Listening, CallTypes, EventTypes
  <2> QED
    BY <2>1, <2>2, <2>3, <2>4
<1>15. CASE UNCHANGED vars
  BY <1>15 DEF vars, CallTypes, TaskTypes, EventTypes, Listening
<1> QED
  BY <1>1, <1>2, <1>3, <1>4, <1>5, <1>6, <1>7, <1>8, <1>9, <1>10, <1>11, <1>12, <1>13,
     <1>14, <1>15 DEF Next, StartStep, Channel, ExitStep, Read

-----------------------------------------------------------------------------
(* Every action keeps a build's events in order.                           *)

(* A step that sends nothing and changes no task keeps the order.          *)
LEMMA QuietOrder ==
  ASSUME OrderInv, UNCHANGED log,
         \A c \in Calls :
           /\ pc'[c] # pc[c] => pc[c] # "returned" /\ pc'[c] # "returned"
           /\ tx'[c] # tx[c] => pc[c] # "returned"
           /\ pc'[c] \in {"spawn", "mark", "announce", "returned"} => tx'[c] # None
           /\ readers'[c] \subseteq readers[c]
           /\ exit'[c] # exit[c] => exit[c] = "leaving" /\ exit'[c] = "done"
  PROVE  Announced' /\ ExitIsLast' /\ StartFirstExitLast'
<1>1. Announced'
  BY DEF OrderInv, Announced, Unannounced, HasEvent
<1>2. ExitIsLast'
  BY DEF OrderInv, ExitIsLast
<1>3. StartFirstExitLast'
  BY DEF OrderInv, StartFirstExitLast
<1> QED
  BY <1>1, <1>2, <1>3

(* An event at the end of its build's channel keeps the order, if Start    *)
(* comes before all others and nothing comes after Exit.                   *)
LEMMA SendOrder ==
  ASSUME OrderInv, NEW c \in Calls, tx[c] \in Channels, UNCHANGED tx,
         NEW what \in {"start", "line", "exit"}, Send(c, what),
         what = "start" => Unannounced(c),
         exit[c] \notin {"leaving", "done"},
         what = "exit" <=> exit'[c] \in {"leaving", "done"},
         what = "exit" => readers'[c] = {},
         ~Unannounced(c)',
         exit'[c] # "none",
         \A d \in Calls \ {c} :
           pc'[d] = pc[d] /\ readers'[d] = readers[d] /\ exit'[d] = exit[d]
  PROVE  Announced' /\ ExitIsLast' /\ StartFirstExitLast'
<1> DEFINE ch == tx[c]
           n  == Len(log[ch]) + 1
<1>0. TypeOK /\ Announced /\ ExitIsLast /\ StartFirstExitLast
  BY DEF OrderInv
<1>1. \A d \in Channels : DOMAIN log[d] = 1..Len(log[d]) /\ Len(log[d]) \in Nat
  BY <1>0 DEF TypeOK
<1>2. /\ \A d \in Channels \ {ch} : log'[d] = log[d]
      /\ DOMAIN log'[ch] = 1..n /\ DOMAIN log[ch] = 1..(n - 1) /\ n \in Nat
      /\ \A i \in 1..(n - 1) : log'[ch][i] = log[ch][i]
      /\ log'[ch][n] = [of |-> c, what |-> what]
  <2>1. /\ log' \in [Channels -> Seq(Events)]
        /\ \A d \in Channels \ {ch} : log'[d] = log[d]
        /\ Len(log'[ch]) = Len(log[ch]) + 1
        /\ \A i \in DOMAIN log[ch] : log'[ch][i] = log[ch][i]
        /\ log'[ch][Len(log[ch]) + 1] = [of |-> c, what |-> what]
    BY <1>0, SendAppends
  <2>2. log'[ch] \in Seq(Events)
    BY <2>1
  <2>3. DOMAIN log'[ch] = 1..Len(log'[ch])
    BY <2>2
  <2>4. DOMAIN log[ch] = 1..(n - 1) /\ n \in Nat
    BY <1>1
  <2> QED
    BY <2>1, <2>3, <2>4
<1> HIDE DEF ch, n
<1>3. Announced'
  <2> SUFFICES ASSUME NEW d \in Calls
               PROVE  /\ pc'[d] \in {"spawn", "mark", "announce", "returned"} => tx'[d] # None
                      /\ Unannounced(d)' => readers'[d] = {} /\ exit'[d] = "none"
                      /\ ~Unannounced(d)' => exit'[d] # "none"
                      /\ \A k \in Channels : HasEvent(d, k)' => ~Unannounced(d)' /\ k = tx'[d]
    BY DEF Announced
  <2>1. \A k \in Channels : HasEvent(d, k)' => HasEvent(d, k) \/ (d = c /\ k = ch)
    BY <1>1, <1>2 DEF HasEvent
  <2>2. CASE d = c
    BY <2>1, <2>2, <1>0, BuildAssumption DEF Announced, Unannounced, ch, Channels
  <2>3. CASE d # c
    BY <2>1, <2>3, <1>0 DEF Announced, Unannounced
  <2> QED
    BY <2>2, <2>3
<1>4. ExitIsLast'
  <2> SUFFICES ASSUME NEW d \in Calls
               PROVE  /\ exit'[d] \in {"leaving", "done"} => readers'[d] = {}
                      /\ \A k \in Channels : \A i \in DOMAIN log'[k] :
                           log'[k][i] = [of |-> d, what |-> "exit"]
                             => exit'[d] \in {"leaving", "done"}
    BY DEF ExitIsLast
  <2>1. exit'[d] \in {"leaving", "done"} => readers'[d] = {}
    BY <1>0 DEF ExitIsLast
  <2>2. ASSUME NEW k \in Channels, NEW i \in DOMAIN log'[k],
               log'[k][i] = [of |-> d, what |-> "exit"]
        PROVE  exit'[d] \in {"leaving", "done"}
    <3>1. CASE k = ch /\ i = n
      BY <3>1, <2>2, <1>2
    <3>2. CASE ~(k = ch /\ i = n)
      <4>1. i \in DOMAIN log[k] /\ log[k][i] = log'[k][i]
        BY <3>2, <1>1, <1>2
      <4> QED
        BY <4>1, <2>2, <1>0 DEF ExitIsLast
    <3> QED
      BY <3>1, <3>2
  <2> QED
    BY <2>1, <2>2
<1>5. StartFirstExitLast'
  <2> SUFFICES ASSUME NEW k \in Channels, NEW i \in DOMAIN log'[k], NEW j \in DOMAIN log'[k],
                      i < j, log'[k][i].of = log'[k][j].of
               PROVE  log'[k][j].what # "start" /\ log'[k][i].what # "exit"
    BY DEF StartFirstExitLast
  <2>1. CASE k # ch \/ j # n
    <3>1. /\ i \in DOMAIN log[k] /\ log[k][i] = log'[k][i]
          /\ j \in DOMAIN log[k] /\ log[k][j] = log'[k][j]
      BY <2>1, <1>1, <1>2
    <3> QED
      BY <3>1, <1>0 DEF StartFirstExitLast
  <2>2. CASE k = ch /\ j = n
    <3>1. i \in DOMAIN log[k] /\ log[k][i] = log'[k][i] /\ log[k][i].of = c
      BY <2>2, <1>1, <1>2
    <3>2. ~Unannounced(c)
      BY <3>1, <1>0 DEF Announced, HasEvent
    <3>3. log'[k][j].what # "start"
      BY <2>2, <3>2, <1>2
    <3>4. log[k][i] \in Events
      BY <3>1, <1>0 DEF TypeOK
    <3>5. log[k][i].what = "exit" => log[k][i] = [of |-> c, what |-> "exit"]
      BY <3>1, <3>4 DEF Events
    <3> QED
      BY <3>1, <3>3, <3>5, <1>0 DEF ExitIsLast
  <2> QED
    BY <2>1, <2>2
<1> QED
  BY <1>3, <1>4, <1>5

LEMMA StepOrder == OrderInv /\ [Next]_vars => OrderInv'
<1> SUFFICES ASSUME OrderInv, [Next]_vars
             PROVE  Announced' /\ ExitIsLast' /\ StartFirstExitLast'
  BY StepType DEF OrderInv
<1> DEFINE Ordered == Announced /\ ExitIsLast /\ StartFirstExitLast
<1>0. TypeOK /\ Announced /\ ExitIsLast
  BY DEF OrderInv
<1>c. Calls \subseteq Channels /\ Clients \subseteq Channels /\ Calls \cap Clients = {}
  BY BuildAssumption DEF Channels
<1> USE <1>0, <1>c DEF Goto
<1>1. ASSUME NEW c \in Calls, StartCheck(c) PROVE Ordered'
  BY <1>1, QuietOrder DEF StartCheck, TypeOK, Announced
<1>2. ASSUME NEW k \in Clients, Connect(k) PROVE Ordered'
  BY <1>2, QuietOrder DEF Connect, TypeOK, Announced
<1>3. ASSUME NEW x \in Channels, GetChannel(x) PROVE Ordered'
  BY <1>3, QuietOrder DEF GetChannel, HasChannel, TypeOK, Announced
<1>4. ASSUME NEW x \in Channels, OpenChannel(x) PROVE Ordered'
  <2>1. x # None
    BY BuildAssumption DEF Channels
  <2> QED
    BY <1>4, <2>1, QuietOrder DEF OpenChannel, HasChannel, TypeOK, Announced
<1>5. ASSUME NEW c \in Calls, Spawn(c) PROVE Ordered'
  BY <1>5, QuietOrder DEF Spawn, TypeOK, Announced
<1>6. ASSUME NEW c \in Calls, Mark(c) PROVE Ordered'
  BY <1>6, QuietOrder DEF Mark, TypeOK, Announced
<1>7. ASSUME NEW c \in Calls, Announce(c) PROVE Ordered'
  <2>1. tx[c] \in Channels /\ Unannounced(c) /\ exit[c] = "none"
    BY <1>7 DEF Announce, Announced, Unannounced, TypeOK
  <2>2. Send(c, "start") /\ UNCHANGED tx
    BY <1>7 DEF Announce
  <2>3. ~Unannounced(c)' /\ exit'[c] = "joining"
    BY <1>7 DEF Announce, Unannounced, TypeOK
  <2>4. \A d \in Calls \ {c} :
          pc'[d] = pc[d] /\ readers'[d] = readers[d] /\ exit'[d] = exit[d]
    BY <1>7 DEF Announce, TypeOK
  <2> QED
    BY <2>1, <2>2, <2>3, <2>4, SendOrder
<1>8. ASSUME NEW c \in Calls, NEW s \in Streams, ReadLine(c, s) PROVE Ordered'
  <2>1. tx[c] \in Channels /\ ~Unannounced(c) /\ exit[c] \notin {"none", "leaving", "done"}
    BY <1>8 DEF ReadLine, Announced, Unannounced, ExitIsLast, TypeOK
  <2>2. Send(c, "line") /\ UNCHANGED <<tx, pc, readers, exit>>
    BY <1>8 DEF ReadLine
  <2> QED
    BY <2>1, <2>2, SendOrder DEF Unannounced
<1>9. ASSUME NEW c \in Calls, NEW s \in Streams, ReadEnd(c, s) PROVE Ordered'
  BY <1>9, QuietOrder DEF ReadEnd, TypeOK, Announced
<1>10. ASSUME NEW c \in Calls, ExitSend(c) PROVE Ordered'
  <2>1. tx[c] \in Channels /\ ~Unannounced(c) /\ exit[c] = "joining" /\ readers[c] = {}
    BY <1>10 DEF ExitSend, Joined, Announced, Unannounced, TypeOK
  <2>2. Send(c, "exit") /\ UNCHANGED <<tx, pc, readers>>
    BY <1>10 DEF ExitSend, SendExit
  <2>3. exit'[c] = "leaving" /\ \A d \in Calls \ {c} : exit'[d] = exit[d]
    BY <1>10 DEF ExitSend, TypeOK
  <2> QED
    BY <2>1, <2>2, <2>3, SendOrder DEF Unannounced
<1>11. ASSUME NEW c \in Calls, ExitRemove(c) PROVE Ordered'
  BY <1>11, QuietOrder DEF ExitRemove, TypeOK, Announced
<1>12. ASSUME NEW c \in Calls, CargoExits(c) PROVE Ordered'
  BY <1>12, QuietOrder DEF CargoExits, Announced
<1>13. ASSUME NEW k \in Clients, Forward(k) PROVE Ordered'
  BY <1>13, QuietOrder DEF Forward, TypeOK, Announced
<1>14. ASSUME NEW k \in Clients, Leave(k) PROVE Ordered'
  BY <1>14, QuietOrder DEF Leave, TypeOK, Announced
<1>15. CASE UNCHANGED vars
  BY <1>15, QuietOrder DEF vars, Announced
<1> QED
  BY <1>1, <1>2, <1>3, <1>4, <1>5, <1>6, <1>7, <1>8, <1>9, <1>10, <1>11, <1>12, <1>13,
     <1>14, <1>15 DEF Next, StartStep, Channel, ExitStep, Read

(* Every variable keeps its type, and each client's place stays within the *)
(* events of its channel.                                                  *)
THEOREM TypeCorrect == Spec => []TypeOK
<1>1. OrderInv => TypeOK
  BY DEF OrderInv
<1> QED
  BY InitOrder, StepOrder, <1>1, PTL DEF Spec

(* On every channel a build's events begin with its Start and end with its *)
(* Exit, whatever overlaps and however often the channel was opened anew.  *)
THEOREM EventsAreOrdered == Spec => []StartFirstExitLast
<1>1. OrderInv => StartFirstExitLast
  BY DEF OrderInv
<1> QED
  BY InitOrder, StepOrder, <1>1, PTL DEF Spec

-----------------------------------------------------------------------------
(* From here on no two requests overlap.                                   *)

(* One call at most is under way, from its check to the end of its build.  *)
Marked(c)   == pc[c] = "announce" \/ exit[c] \in {"joining", "leaving"}
UnderWay(c) == pc[c] \in {"checked", "open", "spawn", "mark"} \/ Marked(c)

Serial ==
  /\ \A x, y \in Serving : x = y
  /\ \A c, d \in Calls : UnderWay(c) /\ UnderWay(d) => c = d
  /\ \A c \in Calls : Marked(c) => running

(* The build whose tasks are at work sent the last event of its channel.   *)
SpeaksLast ==
  \A c \in Calls : exit[c] = "joining" =>
    /\ log[tx[c]] # <<>>
    /\ log[tx[c]][Len(log[tx[c]])].of = c

BuildInv ==
  /\ OrderInv
  /\ Serial
  /\ SpeaksLast
  /\ BuildsDoNotMix

LEMMA InitBuild == Init => BuildInv
<1> SUFFICES ASSUME Init PROVE BuildInv
  OBVIOUS
<1>1. \A x \in Channels : pc[x] = "idle"
  BY DEF Init
<1>2. \A c \in Calls : pc[c] = "idle" /\ exit[c] = "none"
  BY <1>1 DEF Init, Channels
<1>3. \A ch \in Channels : DOMAIN log[ch] = {}
  BY DEF Init
<1> QED
  BY InitOrder, <1>1, <1>2, <1>3
     DEF BuildInv, Serial, Serving, UnderWay, Marked, SpeaksLast, BuildsDoNotMix

(* A build starts when none is under way, and then goes on alone.          *)
LEMMA StepSerial ==
  ASSUME "overlap" \notin Faults, BuildInv, [Next]_vars
  PROVE  Serial'
<1>0. TypeOK /\ Announced /\ Serial
  BY DEF BuildInv, OrderInv
<1>c. Calls \subseteq Channels /\ Clients \subseteq Channels /\ Calls \cap Clients = {}
  BY BuildAssumption DEF Channels
<1> USE <1>0, <1>c DEF Goto, Serial, Serving, UnderWay, Marked
<1>1. ASSUME NEW c \in Calls, StartCheck(c) PROVE Serial'
  <2>1. /\ \A x \in Channels \ {c} : pc'[x] = pc[x]
        /\ pc'[c] = "refused" \/ (pc'[c] = "checked" /\ ~running)
        /\ pc[c] = "idle"
        /\ UNCHANGED <<exit, running>>
    BY <1>1 DEF StartCheck, Busy, TypeOK
  <2>2. Serving = {}
    BY <1>1 DEF StartCheck, MayCall
  <2>3. exit[c] = "none"
    BY <2>1 DEF Announced, Unannounced
  <2> QED
    BY <2>1, <2>2, <2>3
<1>2. ASSUME NEW k \in Clients, Connect(k) PROVE Serial'
  <2>1. /\ \A x \in Channels \ {k} : pc'[x] = pc[x]
        /\ UNCHANGED <<exit, running>>
    BY <1>2 DEF Connect, TypeOK
  <2>2. Serving = {}
    BY <1>2 DEF Connect, MayCall
  <2> QED
    BY <2>1, <2>2
<1>3. ASSUME NEW x \in Channels, Channel(x) PROVE Serial'
  <2>1. /\ \A y \in Channels \ {x} : pc'[y] = pc[y]
        /\ pc[x] \in {"checked", "open"}
        /\ pc'[x] \in {"open", "spawn", "connected"}
        /\ UNCHANGED <<exit, running>>
    BY <1>3 DEF Channel, GetChannel, OpenChannel, HasChannel, TypeOK
  <2> QED
    BY <2>1
<1>4. ASSUME NEW c \in Calls, Spawn(c) \/ Mark(c) PROVE Serial'
  <2>1. /\ \A y \in Channels \ {c} : pc'[y] = pc[y]
        /\ \/ pc[c] = "spawn" /\ pc'[c] \in {"mark", "failed"} /\ running' = running
           \/ pc[c] = "mark" /\ pc'[c] = "announce" /\ running' = TRUE
        /\ UNCHANGED exit
    BY <1>4 DEF Spawn, Mark, TypeOK
  <2> QED
    BY <2>1
<1>5. ASSUME NEW c \in Calls, Announce(c) PROVE Serial'
  <2>1. /\ \A y \in Channels \ {c} : pc'[y] = pc[y]
        /\ pc[c] = "announce" /\ pc'[c] = "returned"
        /\ \A d \in Calls \ {c} : exit'[d] = exit[d]
        /\ UNCHANGED running
    BY <1>5 DEF Announce, TypeOK
  <2> QED
    BY <2>1
<1>6. ASSUME NEW c \in Calls, NEW s \in Streams, Read(c, s) PROVE Serial'
  BY <1>6 DEF Read, ReadLine, ReadEnd
<1>7. ASSUME NEW c \in Calls, ExitStep(c) PROVE Serial'
  <2>1. /\ UNCHANGED pc
        /\ \A d \in Calls \ {c} : exit'[d] = exit[d]
        /\ \/ exit[c] = "joining" /\ exit'[c] = "leaving" /\ running' = running
           \/ exit[c] = "leaving" /\ exit'[c] = "done"
    BY <1>7 DEF ExitStep, ExitSend, ExitRemove, TypeOK
  <2>2. exit[c] = "leaving" => pc[c] = "returned"
    BY DEF Announced, Unannounced
  <2> QED
    BY <2>1, <2>2
<1>8. ASSUME NEW c \in Calls, CargoExits(c) PROVE Serial'
  BY <1>8 DEF CargoExits
<1>9. ASSUME NEW k \in Clients, Forward(k) \/ Leave(k) PROVE Serial'
  <2>1. /\ \A y \in Channels \ {k} : pc'[y] = pc[y]
        /\ pc'[k] \in {"connected", "lagged", "gone"}
        /\ UNCHANGED <<exit, running>>
    BY <1>9 DEF Forward, Leave, TypeOK
  <2> QED
    BY <2>1
<1>10. CASE UNCHANGED vars
  BY <1>10 DEF vars
<1> QED
  BY <1>1, <1>2, <1>3, <1>4, <1>5, <1>6, <1>7, <1>8, <1>9, <1>10 DEF Next, StartStep

(* The only build at work adds its events to its own.                      *)
LEMMA SendApart ==
  ASSUME BuildInv, NEW c \in Calls, tx[c] \in Channels, UNCHANGED tx,
         NEW what \in {"start", "line", "exit"}, Send(c, what),
         what = "start" => Unannounced(c),
         what # "start" => exit[c] = "joining",
         \A d \in Calls \ {c} : exit[d] # "joining" /\ exit'[d] # "joining"
  PROVE  SpeaksLast' /\ BuildsDoNotMix'
<1> DEFINE ch == tx[c]
           n  == Len(log[ch]) + 1
<1>0. TypeOK /\ Announced /\ SpeaksLast /\ BuildsDoNotMix
  BY DEF BuildInv, OrderInv
<1>1. \A d \in Channels : DOMAIN log[d] = 1..Len(log[d]) /\ Len(log[d]) \in Nat
  BY <1>0 DEF TypeOK
<1>2. /\ \A d \in Channels \ {ch} : log'[d] = log[d]
      /\ DOMAIN log'[ch] = 1..n /\ DOMAIN log[ch] = 1..(n - 1) /\ n \in Nat
      /\ \A i \in 1..(n - 1) : log'[ch][i] = log[ch][i]
      /\ log'[ch][n].of = c
      /\ Len(log'[ch]) = n
  <2>1. /\ log' \in [Channels -> Seq(Events)]
        /\ \A d \in Channels \ {ch} : log'[d] = log[d]
        /\ Len(log'[ch]) = Len(log[ch]) + 1
        /\ \A i \in DOMAIN log[ch] : log'[ch][i] = log[ch][i]
        /\ log'[ch][Len(log[ch]) + 1] = [of |-> c, what |-> what]
    BY <1>0, SendAppends
  <2>2. log'[ch] \in Seq(Events)
    BY <2>1
  <2>3. DOMAIN log'[ch] = 1..Len(log'[ch])
    BY <2>2
  <2>4. DOMAIN log[ch] = 1..(n - 1) /\ n \in Nat
    BY <1>1
  <2> QED
    BY <2>1, <2>3, <2>4
<1>3. what # "start" => n > 1 /\ log[ch][n - 1].of = c
  <2>1. ASSUME what # "start" PROVE log[ch] # <<>> /\ log[ch][Len(log[ch])].of = c
    BY <2>1, <1>0 DEF SpeaksLast
  <2>2. log[ch] # <<>> => Len(log[ch]) > 0
    BY <1>0 DEF TypeOK
  <2>3. n - 1 = Len(log[ch])
    BY <1>1
  <2> QED
    BY <2>1, <2>2, <2>3
<1>4. SpeaksLast'
  <2>1. 1 \in DOMAIN log'[ch]
    BY <1>2
  <2>2. log'[ch] # <<>>
    BY <2>1
  <2> QED
    BY <2>2, <1>2 DEF SpeaksLast
<1> HIDE DEF ch, n
<1>5. BuildsDoNotMix'
  <2> SUFFICES ASSUME NEW k \in Channels,
                      NEW i \in DOMAIN log'[k], NEW j \in DOMAIN log'[k], NEW l \in DOMAIN log'[k],
                      i < j, j < l, log'[k][i].of = log'[k][l].of
               PROVE  log'[k][j].of = log'[k][i].of
    BY DEF BuildsDoNotMix
  <2>1. CASE k # ch \/ l # n
    <3>1. /\ i \in DOMAIN log[k] /\ log[k][i] = log'[k][i]
          /\ j \in DOMAIN log[k] /\ log[k][j] = log'[k][j]
          /\ l \in DOMAIN log[k] /\ log[k][l] = log'[k][l]
      BY <2>1, <1>1, <1>2
    <3> QED
      BY <3>1, <1>0 DEF BuildsDoNotMix
  <2>2. CASE k = ch /\ l = n
    <3>1. /\ i \in DOMAIN log[ch] /\ log[ch][i] = log'[ch][i] /\ log[ch][i].of = c
          /\ j \in DOMAIN log[ch] /\ log[ch][j] = log'[ch][j]
          /\ n - 1 \in DOMAIN log[ch] /\ j <= n - 1
      BY <2>2, <1>2
    <3>2. ch \in Channels
      BY DEF ch
    <3>3. what # "start"
      BY <3>1, <3>2, <1>0 DEF Announced, HasEvent
    <3>4. CASE j = n - 1
      BY <3>1, <3>3, <3>4, <1>3, <2>2
    <3>5. CASE j < n - 1
      <4>1. log[ch][i].of = log[ch][n - 1].of
        BY <3>1, <3>3, <1>3
      <4> QED
        BY <3>1, <3>2, <3>5, <4>1, <1>0, <2>2 DEF BuildsDoNotMix
    <3> QED
      BY <3>1, <3>4, <3>5, <1>2
  <2> QED
    BY <2>1, <2>2
<1> QED
  BY <1>4, <1>5

LEMMA StepApart ==
  ASSUME "overlap" \notin Faults, BuildInv, [Next]_vars
  PROVE  SpeaksLast' /\ BuildsDoNotMix'
<1> DEFINE Apart == SpeaksLast /\ BuildsDoNotMix
<1>0. TypeOK /\ Announced /\ ExitIsLast /\ Serial /\ SpeaksLast /\ BuildsDoNotMix
  BY DEF BuildInv, OrderInv
<1>q. ASSUME UNCHANGED log,
             \A c \in Calls : exit'[c] = "joining" => exit[c] = "joining" /\ tx'[c] = tx[c]
      PROVE  Apart'
  BY <1>0, <1>q DEF SpeaksLast, BuildsDoNotMix
<1>c. Calls \subseteq Channels /\ Clients \subseteq Channels /\ Calls \cap Clients = {}
  BY BuildAssumption DEF Channels
<1>1. ASSUME NEW c \in Calls, StartCheck(c) PROVE Apart'
  BY <1>1, <1>q DEF StartCheck
<1>2. ASSUME NEW k \in Clients, Connect(k) PROVE Apart'
  BY <1>2, <1>q DEF Connect
<1>3. ASSUME NEW x \in Channels, Channel(x) PROVE Apart'
  <2>1. /\ UNCHANGED <<log, exit>>
        /\ pc[x] # "returned"
        /\ \A y \in Channels \ {x} : tx'[y] = tx[y]
    BY <1>3, <1>0 DEF Channel, GetChannel, OpenChannel, HasChannel, TypeOK
  <2>2. \A c \in Calls : exit[c] = "joining" => tx'[c] = tx[c]
    BY <2>1, <1>0, <1>c DEF Announced, Unannounced
  <2> QED
    BY <2>1, <2>2, <1>q
<1>4. ASSUME NEW c \in Calls, Spawn(c) \/ Mark(c) PROVE Apart'
  BY <1>4, <1>q DEF Spawn, Mark
<1>5. ASSUME NEW c \in Calls, Announce(c) PROVE Apart'
  <2>1. tx[c] \in Channels /\ Unannounced(c) /\ UnderWay(c)
    BY <1>5, <1>0, <1>c DEF Announce, Announced, Unannounced, TypeOK, UnderWay, Marked
  <2>2. Send(c, "start") /\ UNCHANGED tx
    BY <1>5 DEF Announce
  <2>3. \A d \in Calls \ {c} : exit[d] # "joining" /\ exit'[d] # "joining"
    BY <1>5, <1>0, <2>1 DEF Announce, Serial, UnderWay, Marked, TypeOK
  <2> QED
    BY <2>1, <2>2, <2>3, SendApart
<1>6. ASSUME NEW c \in Calls, NEW s \in Streams, Read(c, s) PROVE Apart'
  <2>1. CASE ReadLine(c, s)
    <3>1. exit[c] = "joining" /\ tx[c] \in Channels
      BY <2>1, <1>0, <1>c DEF ReadLine, Announced, Unannounced, ExitIsLast, TypeOK, ExitSteps
    <3>2. Send(c, "line") /\ UNCHANGED <<tx, exit>>
      BY <2>1 DEF ReadLine
    <3>3. \A d \in Calls \ {c} : exit[d] # "joining"
      BY <3>1, <1>0 DEF Serial, UnderWay, Marked
    <3> QED
      BY <3>1, <3>2, <3>3, SendApart
  <2>2. CASE ReadEnd(c, s)
    BY <2>2, <1>q DEF ReadEnd
  <2> QED
    BY <1>6, <2>1, <2>2 DEF Read
<1>7. ASSUME NEW c \in Calls, ExitSend(c) PROVE Apart'
  <2>1. exit[c] = "joining" /\ tx[c] \in Channels
    BY <1>7, <1>0, <1>c DEF ExitSend, Announced, Unannounced, TypeOK
  <2>2. Send(c, "exit") /\ UNCHANGED tx
    BY <1>7 DEF ExitSend, SendExit
  <2>3. \A d \in Calls \ {c} : exit[d] # "joining" /\ exit'[d] # "joining"
    BY <1>7, <2>1, <1>0 DEF ExitSend, Serial, UnderWay, Marked, TypeOK
  <2> QED
    BY <2>1, <2>2, <2>3, SendApart
<1>8. ASSUME NEW c \in Calls, ExitRemove(c) PROVE Apart'
  BY <1>8, <1>q, <1>0 DEF ExitRemove, TypeOK
<1>9. ASSUME NEW c \in Calls, CargoExits(c) PROVE Apart'
  BY <1>9, <1>q DEF CargoExits
<1>10. ASSUME NEW k \in Clients, Forward(k) \/ Leave(k) PROVE Apart'
  BY <1>10, <1>q DEF Forward, Leave
<1>11. ASSUME UNCHANGED vars PROVE Apart'
  BY <1>11, <1>q DEF vars
<1> HIDE DEF Apart
<1>12. ASSUME NEW c \in Calls, StartStep(c) \/ ExitStep(c) PROVE Apart'
  BY <1>c, <1>3, <1>4, <1>5, <1>7, <1>8, <1>12 DEF StartStep, ExitStep
<1>13. ASSUME Next PROVE Apart'
  BY <1>c, <1>1, <1>2, <1>3, <1>6, <1>9, <1>10, <1>12, <1>13 DEF Next
<1> QED
  BY <1>11, <1>13 DEF Apart

(* Where no two requests overlap, the events of two builds are never mixed *)
(* on a channel, for any number of builds one after the other and beside   *)
(* the tasks of those that are ending.                                     *)
THEOREM BuildsStayApart ==
  ASSUME "overlap" \notin Faults
  PROVE  Spec => []BuildsDoNotMix
<1>1. BuildInv /\ [Next]_vars => BuildInv'
  BY StepOrder, StepSerial, StepApart DEF BuildInv
<1>2. BuildInv => BuildsDoNotMix
  BY DEF BuildInv
<1> QED
  BY InitBuild, <1>1, <1>2, PTL DEF Spec
=============================================================================
